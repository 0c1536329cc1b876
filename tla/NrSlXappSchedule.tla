-------------------------- MODULE NrSlXappSchedule --------------------------
(***************************************************************************)
(* What a vehicle promises to an xApp that schedules it (scheduling type   *)
(* ORAN_SELECTED): a new schedule for a destination replaces the slots of  *)
(* the old one from its first slot on, and a slot of the schedule is used  *)
(* when its time comes.                                                    *)
(***************************************************************************)
EXTENDS Integers, FiniteSets

CONSTANTS Dst,      \* destination layer-2 ids
          SimTime   \* last slot of the simulation

VARIABLES now,      \* current slot
          sched,    \* slots of the schedule not yet used, per destination
          received, \* slots of the last message, cleared with the next slot
          used      \* destinations whose slot was used in the current slot

Init ==
    /\ now = 0 /\ sched = [d \in Dst |-> {}]
    /\ received = {} /\ used = {}

\* The slots that are left of old when new arrives, and those of new.
Replace(old, new) == {s \in old : \A t \in new : s < t} \cup new

\* New slots for some destinations, all of them ahead.
Reschedule ==
    /\ \E new \in [Dst -> SUBSET ((now + 1)..SimTime)] :
         /\ received' = {r \in (0..SimTime) \X Dst : r[1] \in new[r[2]]}
         /\ sched' = [d \in Dst |-> Replace(sched[d], new[d])]
    /\ UNCHANGED <<now, used>>

Use(d) ==
    /\ now \in sched[d]
    /\ sched' = [sched EXCEPT ![d] = @ \ {now}]
    /\ used' = used \cup {d}
    /\ UNCHANGED <<now, received>>

\* Time does not pass a slot of the schedule that has not been used.
NextSlot ==
    /\ now < SimTime
    /\ \A d \in Dst : now \notin sched[d]
    /\ now' = now + 1 /\ used' = {} /\ received' = {}
    /\ UNCHANGED sched

Next == Reschedule \/ NextSlot \/ \E d \in Dst : Use(d)

Spec == Init /\ [][Next]_<<now, sched, received, used>>
=============================================================================
