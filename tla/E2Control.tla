----------------------------- MODULE E2Control ------------------------------
(***************************************************************************)
(* How a gNB waits for the schedule of the xApp.  Two threads take part.    *)
(* The simulator thread sends a buffer report, then sets m_pauseSimulation  *)
(* and schedules PauseSimulation, which schedules itself again at the same  *)
(* simulated time as long as the flag is set.  The thread of the E2         *)
(* termination receives RIC control messages, puts their fragments together *)
(* and hands every grant to the simulator thread, through the queue         *)
(* m_eventsWithContext that the simulator empties after each event.         *)
(*                                                                         *)
(* Simulated time only matters as `the current time' (the sequence events)  *)
(* and `later'.  A control message takes MsgLen octets of the stream that   *)
(* the RIC sends, which arrives cut into PDUs.                              *)
(***************************************************************************)
EXTENDS Integers, FiniteSets, Sequences, SequencesExt

CONSTANTS
    Answer,      \* what the xApp answers: the UEs that each message schedules;
                 \* the last message schedules none
    Rounds,      \* reports of a run
    Others,      \* messages of a run that are meant for other simulations
    MsgLen       \* octets of a message

ASSUME E2Assumption ==
    /\ Answer \in Seq(Seq(Nat)) /\ Answer /= << >>
    /\ \A i \in DOMAIN Answer : Answer[i] = << >> <=> i = Len(Answer)
    /\ Rounds \in Nat /\ Others \in Nat
    /\ MsgLen \in Nat \ {0}

VARIABLES
    sim,             \* "running", or "reporting" inside BuildAndSendReportMessage
    round,           \* reports sent
    pause,           \* m_pauseSimulation
    events,          \* events at the current time, in order
    withContext,     \* m_eventsWithContext
    remaining,       \* m_xappRemainingData: octets of an incomplete message
    out,             \* events the E2 thread is about to schedule
    stream,          \* octets on their way from the RIC
    others,          \* messages for other simulations sent so far
    owed,            \* messages of the answers not yet applied (history variable)
    decoded,         \* messages decoded, of any PLMN (history variable)
    apart            \* no PDU has completed two messages (history variable)

vars == <<sim, round, pause, events, withContext, remaining, out, stream, others,
          owed, decoded, apart>>

Own == "own"
Other == "other"

-----------------------------------------------------------------------------
(***************************************************************************)
(* The octets of messages, and RicControlMessage.                           *)
(***************************************************************************)
Message == [plmn : {Own, Other}, round : 0 .. Rounds, part : 1 .. Len(Answer)]
Octet == [msg : Message, k : 1 .. MsgLen]
UesOf(m) == IF m.plmn = Own THEN Answer[m.part] ELSE << >>

Encode(msgs) ==
    FlattenSeq([i \in DOMAIN msgs |-> [k \in 1 .. MsgLen |-> [msg |-> msgs[i], k |-> k]]])

Answers(r) == [i \in DOMAIN Answer |-> [plmn |-> Own, round |-> r, part |-> i]]

Complete(buf) ==
    /\ Len(buf) >= MsgLen
    /\ SubSeq(buf, 1, MsgLen) = Encode(<<buf[1].msg>>)

\* The messages at the beginning of buf, up to the first incomplete one.
Decode[buf \in Seq(Octet)] ==
    IF Complete(buf)
    THEN <<buf[1].msg>> \o Decode[SubSeq(buf, MsgLen + 1, Len(buf))]
    ELSE << >>

\* Mutant: the fragment is not kept.
StoreNothing(buf) == << >>

Store(buf) == SubSeq(buf, MsgLen * Len(Decode[buf]) + 1, Len(buf))

\* m_lastReport belongs to the whole PDU.
LastReport(msgs) == \E i \in DOMAIN msgs : UesOf(msgs[i]) = << >>

Grant(m, ue, last) == [kind |-> "grant", msg |-> m, ue |-> ue, last |-> last]

\* ControlMessageReceivedCallback: one event per source UE, or one for none.
EventsOf(m, last) ==
    IF m.plmn /= Own THEN << >>
    ELSE IF UesOf(m) = << >> THEN <<Grant(m, 0, TRUE)>>
    ELSE [i \in DOMAIN UesOf(m) |-> Grant(m, UesOf(m)[i], last)]

ControlMessageReceivedCallback(msgs) ==
    FlattenSeq([i \in DOMAIN msgs |-> EventsOf(msgs[i], LastReport(msgs))])

-----------------------------------------------------------------------------
Pause == [kind |-> "PauseSimulation"]

Init ==
    /\ sim = "running" /\ round = 0 /\ pause = FALSE
    /\ events = << >> /\ withContext = << >>
    /\ remaining = << >> /\ out = << >> /\ stream = << >>
    /\ others = 0
    /\ owed = {} /\ decoded = << >> /\ apart = TRUE

\* The simulator thread empties m_eventsWithContext after each event.
ProcessEventsWithContext(evs) ==
    /\ events' = evs \o withContext
    /\ withContext' = << >>

\* BuildAndSendReportMessage up to its sleep: there is something to report.
Report ==
    /\ sim = "running" /\ events = << >> /\ round < Rounds
    /\ sim' = "reporting"
    /\ round' = round + 1
    /\ stream' = stream \o Encode(Answers(round'))
    /\ owed' = owed \cup {<<round', i>> : i \in DOMAIN Answer}
    /\ UNCHANGED <<pause, events, withContext, remaining, out, others, decoded, apart>>

\* Its end: the simulation is held.
ReportEnds ==
    /\ sim = "reporting"
    /\ sim' = "running"
    /\ pause' = TRUE
    /\ ProcessEventsWithContext(<<Pause>>)
    /\ UNCHANGED <<round, remaining, out, stream, others, owed, decoded, apart>>

\* Mutant: the flag is not looked at.
PauseSimulationOnce ==
    /\ sim = "running" /\ events /= << >> /\ Head(events) = Pause
    /\ ProcessEventsWithContext(Tail(events))
    /\ UNCHANGED <<sim, round, pause, remaining, out, stream, others, owed, decoded, apart>>

PauseSimulation ==
    /\ sim = "running" /\ events /= << >> /\ Head(events) = Pause
    /\ ProcessEventsWithContext(IF pause THEN Append(Tail(events), Pause) ELSE Tail(events))
    /\ UNCHANGED <<sim, round, pause, remaining, out, stream, others, owed, decoded, apart>>

\* The last UE of a message completes it.
Applied(e) ==
    IF e.ue = 0 \/ e.ue = Last(UesOf(e.msg)) THEN {<<e.msg.round, e.msg.part>>} ELSE {}

\* Mutant: any grant ends the pause.
SendSchedulerDataAnyReport ==
    LET e == Head(events) IN
    /\ sim = "running" /\ events /= << >> /\ e /= Pause
    /\ pause' = FALSE
    /\ owed' = owed \ Applied(e)
    /\ ProcessEventsWithContext(Tail(events))
    /\ UNCHANGED <<sim, round, remaining, out, stream, others, decoded, apart>>

SendSchedulerDataToTrace ==
    LET e == Head(events) IN
    /\ sim = "running" /\ events /= << >> /\ e /= Pause
    /\ pause' = (pause /\ ~e.last)
    /\ owed' = owed \ Applied(e)
    /\ ProcessEventsWithContext(Tail(events))
    /\ UNCHANGED <<sim, round, remaining, out, stream, others, decoded, apart>>

\* Nothing is left at the current time: the simulation goes on with a later event.
Advance ==
    /\ sim = "running" /\ events = << >>
    /\ ProcessEventsWithContext(<< >>)
    /\ UNCHANGED <<sim, round, pause, remaining, out, stream, others, owed, decoded, apart>>

-----------------------------------------------------------------------------
\* The RIC sends a message that is meant for another simulation.
OtherPlmn ==
    /\ others < Others
    /\ others' = others + 1
    /\ stream' = stream \o Encode(<<[plmn |-> Other, round |-> 0, part |-> 1]>>)
    /\ UNCHANGED <<sim, round, pause, events, withContext, remaining, out, owed, decoded, apart>>

(***************************************************************************)
(* The E2 thread takes the next n octets as a PDU.  It decodes what is      *)
(* complete together with what remained, and keeps the rest.                *)
(***************************************************************************)
Receive(n) ==
    LET buf == remaining \o SubSeq(stream, 1, n)
        msgs == Decode[buf] IN
    /\ out = << >>
    /\ n \in 1 .. Len(stream)
    /\ stream' = SubSeq(stream, n + 1, Len(stream))
    /\ remaining' = Store(buf)
    /\ out' = ControlMessageReceivedCallback(msgs)
    /\ decoded' = decoded \o msgs
    /\ apart' = (apart /\ Len(msgs) <= 1)
    /\ UNCHANGED <<sim, round, pause, events, withContext, others, owed>>

\* Mutant: the E2 thread does not go through the queue.
ScheduleDirectly ==
    /\ out /= << >>
    /\ out' = Tail(out)
    /\ pause' = (pause /\ ~Head(out).last)
    /\ owed' = owed \ Applied(Head(out))
    /\ UNCHANGED <<sim, round, events, withContext, remaining, stream, others, decoded, apart>>

\* ScheduleWithContext of another thread than the simulator's.
ScheduleWithContext ==
    /\ out /= << >>
    /\ withContext' = Append(withContext, Head(out))
    /\ out' = Tail(out)
    /\ UNCHANGED <<sim, round, pause, events, remaining, stream, others, owed, decoded, apart>>

E2Thread == ScheduleWithContext \/ \E n \in 1 .. Len(stream) : Receive(n)

SimThread ==
    Report \/ ReportEnds \/ PauseSimulation \/ SendSchedulerDataToTrace \/ Advance

Next == SimThread \/ E2Thread \/ OtherPlmn

(***************************************************************************)
(* Both threads are scheduled, and what the RIC has sent arrives.           *)
(***************************************************************************)
Fairness == WF_vars(SimThread) /\ WF_vars(E2Thread)

Spec == Init /\ [][Next]_vars /\ Fairness

-----------------------------------------------------------------------------
\* Type invariant.
TypeOK ==
    /\ sim \in {"running", "reporting"}
    /\ round \in 0 .. Rounds
    /\ pause \in BOOLEAN
    /\ \A e \in ToSet(events \o withContext \o out) :
          e = Pause \/ (e.msg \in Message /\ e.last \in BOOLEAN)
    /\ Len(SelectSeq(events, LAMBDA e : e = Pause)) <= 1
    /\ remaining \in Seq(Octet) /\ Len(remaining) < MsgLen
    /\ stream \in Seq(Octet)
    /\ others \in 0 .. Others
    /\ apart \in BOOLEAN

(***************************************************************************)
(* The fragments of RicControlMessage fit together again, however the       *)
(* stream is cut: of the messages decoded and those in the octets that are  *)
(* left, number n for this simulation is the one that the xApp sent as      *)
(* number n, and none is missing.                                           *)
(***************************************************************************)
Reassembled ==
    LET msgs == decoded \o Decode[remaining \o stream]
        OwnUpTo(n) == {j \in 1 .. n : msgs[j].plmn = Own}
    IN  /\ Cardinality(OwnUpTo(Len(msgs))) = round * Len(Answer)
        /\ \A i \in OwnUpTo(Len(msgs)) :
              Cardinality(OwnUpTo(i)) = (msgs[i].round - 1) * Len(Answer) + msgs[i].part

(***************************************************************************)
(* The simulation does not move on before the schedule it waits for is      *)
(* there in full: when the time may advance, no message of an answer is     *)
(* still to be applied.                                                     *)
(***************************************************************************)
ScheduleIsThere == sim = "running" /\ events = << >> => owed = {}

(***************************************************************************)
(* A control message is acted on by the simulation with its PLMN only: the  *)
(* pause ends with the last report for this one.                            *)
(***************************************************************************)
ReportIsOwn ==
    sim = "running" /\ ~pause /\ round > 0 =>
        \E i \in DOMAIN decoded :
            decoded[i] = [plmn |-> Own, round |-> round, part |-> Len(Answer)]

(***************************************************************************)
(* As long as no PDU completes two messages, wherever the stream is cut and *)
(* whenever the answer comes, the simulation waits for the whole schedule.  *)
(* The condition is needed because m_lastReport belongs to the PDU.         *)
(***************************************************************************)
MovesOnWithSchedule == apart => ScheduleIsThere

(***************************************************************************)
(* Under the same condition messages for other simulations, which arrive in *)
(* the same stream, never end the pause of this one.                        *)
(***************************************************************************)
ResumedByOwnAnswer == apart => ReportIsOwn

(***************************************************************************)
(* The simulation is never held for good: an answer that arrives while the  *)
(* report is still being sent, before m_pauseSimulation is set, waits in    *)
(* m_eventsWithContext and ends the pause all the same.                     *)
(***************************************************************************)
PauseEnds == pause ~> ~pause
=============================================================================
