------------------------------ MODULE NrSlOran ------------------------------
(***************************************************************************)
(* The sidelink transmit side of one UE when an xApp schedules it          *)
(* (scheduling type ORAN_SELECTED): NrUeMac::V2xE2Scheduling, which stores *)
(* the xApp's grants, and the ORAN_SELECTED branch and the transmission    *)
(* loop of NrUeMac::DoNrSlSlotIndication, which use them.                  *)
(*                                                                         *)
(* Slots are numbered from the start of the simulation.  The allocations   *)
(* of the xApp use the same symbols of every slot, so two of them are      *)
(* equivalent for NrSlSlotAlloc::operator< exactly when they are for the   *)
(* same slot: the std::set slotAllocations is a function from its slots to *)
(* what is allocated in them, and insert does not replace.                 *)
(*                                                                         *)
(* As in NrSlUeMac the slot handler is one event that is broken into one   *)
(* step per iteration of its loops.                                        *)
(***************************************************************************)
EXTENDS NrSlUeMacHarq, FiniteSetsExt

CONSTANTS
    SimTime,             \* last slot of the simulation
    NSelected,           \* nSelected of the xApp's grants
    TbTxCounter,         \* tbTxCounter of the xApp's grants
    MaxDstPerMessage,    \* destinations that one message may schedule
    AllowLate,           \* messages may schedule slots that have passed
    EnableBlindReTx      \* attribute EnableBlindReTx of NrUeMac

ASSUME XappAssumption ==
    /\ SimTime \in Nat
    /\ NSelected \in Nat \ {0} /\ TbTxCounter \in 0..(NSelected - 1)
    /\ MaxDstPerMessage \in Nat \ {0}
    /\ AllowLate \in BOOLEAN /\ EnableBlindReTx \in BOOLEAN

VARIABLES
    phase,       \* where the slot handler is
    todo,        \* destinations its current loop has not visited
    now,         \* current slot
    xapp,        \* m_grantInfoXapp
    grantInfo,   \* m_grantInfo
    harq,        \* m_nrSlHarq
    used,        \* destinations whose grant was used in the current slot
    received,    \* slots of the last message, cleared with the next slot
    disturbed,   \* history: destinations whose schedule was late or cut, see Disturbs
    halted       \* an NS_ABORT or NS_FATAL_ERROR was reached

vars == <<phase, todo, now, xapp, grantInfo, harq, used, received, disturbed, halted>>

Slots == 1..SimTime

Alloc == [dstL2Id : Dst, ndi : BOOLEAN]

\* std::map::emplace and std::set::insert: an existing element stays.
Emplace(f, k, v) ==
    IF k \in DOMAIN f THEN f
    ELSE [x \in DOMAIN f \cup {k} |-> IF x = k THEN v ELSE f[x]]

Without(f, S) == [x \in DOMAIN f \ S |-> f[x]]

Begin(slotAllocations) == Min(DOMAIN slotAllocations)

Init ==
    /\ phase = "idle" /\ todo = {} /\ now = 0
    /\ xapp = <<>> /\ grantInfo = <<>>
    /\ harq = InitHarqBuffer
    /\ used = {} /\ received = {} /\ disturbed = {} /\ halted = FALSE

----------------------------------------------------------------------------
(* Messages of the xApp                                                    *)

\* What an xApp orders for one vehicle: whole TBs, each with a slot for new
\* data and NSelected - 1 slots for retransmissions.
Orders ==
    {o \in [Dst -> SUBSET Slots] :
        /\ \A d \in Dst : Cardinality(o[d]) % NSelected = 0
        /\ Cardinality({d \in Dst : o[d] # {}}) \in 1..MaxDstPerMessage}

\* NrGnbNetDevice::ControlMessageReceivedCallback puts the allocations for all
\* the destinations of a vehicle into one set.  When two are for the same
\* slot the one that comes first stays; ids are not ordered in the model, so
\* either may.
MergedAllocations(order) ==
    {m \in [UNION {order[d] : d \in Dst} -> Alloc] :
        \A s \in DOMAIN m :
            LET d == m[s].dstL2Id
            IN  /\ s \in order[d]
                /\ m[s].ndi = (Cardinality({t \in order[d] : t < s}) % NSelected = 0)}

XappGrant(allocs) ==
    [slResoReselCounter |-> 1, nSelected |-> NSelected, tbTxCounter |-> TbTxCounter,
     nrSlHarqId |-> NoHarqId, slotAllocations |-> allocs]

\* Mutant: slots that the new schedule replaces are not erased.
StoreWithoutErase(x, grant, s) ==
    LET a == grant.slotAllocations[s]
        d == a.dstL2Id
    IN  IF d \in DOMAIN x
        THEN [x EXCEPT ![d].slotAllocations = Emplace(@, s, a)]
        ELSE Emplace(x, grant.slotAllocations[Begin(grant.slotAllocations)].dstL2Id, grant)

\* One pass of the loop of V2xE2Scheduling.  In the grant of a destination
\* that is known the slots after s are erased and s is inserted; else the
\* whole message becomes the grant of the destination of its first slot.
StoreAllocation(x, grant, s) ==
    LET a == grant.slotAllocations[s]
        d == a.dstL2Id
        later == {t \in Slots : s < t}
    IN  IF d \in DOMAIN x
        THEN [x EXCEPT ![d].slotAllocations = Emplace(Without(@, later), s, a)]
        ELSE Emplace(x, grant.slotAllocations[Begin(grant.slotAllocations)].dstL2Id, grant)

V2xE2Scheduling(x, grant) ==
    LET pass[s \in 0..SimTime] ==
            IF s = 0 THEN x
            ELSE IF s \in DOMAIN grant.slotAllocations
                 THEN StoreAllocation(pass[s - 1], grant, s)
                 ELSE pass[s - 1]
    IN  pass[SimTime]

\* Slots of destination d that are stored somewhere in m_grantInfoXapp.
Stored(d) ==
    UNION {{s \in DOMAIN xapp[k].slotAllocations :
                xapp[k].slotAllocations[s].dstL2Id = d} : k \in DOMAIN xapp}

\* The slots in new, ordered for d, are late, or they take the retransmission
\* away from a TB whose new data has a slot before them.
Disturbs(new, d) ==
    \/ \E s \in new : s <= now
    \/ /\ d \in DOMAIN xapp
       /\ LET old == xapp[d].slotAllocations
          IN  \E r \in DOMAIN old :
                /\ ~old[r].ndi /\ Min(new) < r
                /\ \A t \in DOMAIN old : Min(new) <= t /\ t < r => ~old[t].ndi

Receive ==
    /\ phase = "idle" /\ ~halted
    /\ \E order \in Orders :
         /\ AllowLate \/ \A d \in Dst : \A s \in order[d] : s > now
         /\ \E allocs \in MergedAllocations(order) :
              /\ xapp' = V2xE2Scheduling(xapp, XappGrant(allocs))
              /\ received' = {<<s, allocs[s].dstL2Id>> : s \in DOMAIN allocs}
         /\ disturbed' = disturbed \cup {d \in Dst : order[d] # {} /\ Disturbs(order[d], d)}
    /\ UNCHANGED <<phase, todo, now, grantInfo, harq, used, halted>>

----------------------------------------------------------------------------
(* DoNrSlSlotIndication                                                    *)

\* Mutant: grants are looked up whether or not a process is free.
SlotIndicationUnchecked ==
    /\ phase = "idle" /\ ~halted /\ now < SimTime
    /\ now' = now + 1
    /\ grantInfo' = <<>> /\ used' = {} /\ received' = {}
    /\ phase' = "select" /\ todo' = Dst
    /\ UNCHANGED <<xapp, harq, disturbed, halted>>

\* m_grantInfo is cleared; grants are looked up only when a process is free.
SlotIndication ==
    /\ phase = "idle" /\ ~halted /\ now < SimTime
    /\ now' = now + 1
    /\ grantInfo' = <<>> /\ used' = {} /\ received' = {}
    /\ IF GetNumAvaiableHarqIds(harq) > 0
       THEN phase' = "select" /\ todo' = Dst /\ UNCHANGED disturbed
       ELSE /\ phase' = "transmit" /\ todo' = {}
            /\ disturbed' = disturbed \cup {d \in Dst : now' \in Stored(d)}
    /\ UNCHANGED <<xapp, harq, halted>>

\* Mutant: the process of a retransmission is not looked up.
SelectWithoutHarq(d) ==
    /\ phase = "select" /\ ~halted
    /\ d \in todo /\ todo' = todo \ {d}
    /\ IF d \in DOMAIN xapp /\ now \in DOMAIN xapp[d].slotAllocations
       THEN /\ grantInfo' = Emplace(grantInfo, xapp[d].slotAllocations[now].dstL2Id, xapp[d])
            /\ xapp' = [xapp EXCEPT ![d].slotAllocations = Without(@, {now})]
       ELSE UNCHANGED <<xapp, grantInfo>>
    /\ UNCHANGED <<phase, now, harq, used, received, disturbed, halted>>

\* One destination of the loop: the allocation of the current slot, if there
\* is one, is erased, and the grant with it is put into m_grantInfo.  For a
\* retransmission that needs a process of the destination, the first one.
Select(d) ==
    /\ phase = "select" /\ ~halted
    /\ d \in todo /\ todo' = todo \ {d}
    /\ IF d \in DOMAIN xapp /\ now \in DOMAIN xapp[d].slotAllocations
       THEN LET a  == xapp[d].slotAllocations[now]
                hs == GetDestinationHarqMap(harq, a.dstL2Id)
                g  == IF a.ndi \/ hs = {} THEN xapp[d]
                      ELSE [xapp[d] EXCEPT !.nrSlHarqId = Min(hs)]
            IN  /\ grantInfo' = IF a.ndi \/ hs # {}
                                THEN Emplace(grantInfo, a.dstL2Id, g)
                                ELSE grantInfo
                /\ xapp' = [xapp EXCEPT ![d] =
                               [g EXCEPT !.slotAllocations = Without(@, {now})]]
       ELSE UNCHANGED <<xapp, grantInfo>>
    /\ UNCHANGED <<phase, now, harq, used, received, disturbed, halted>>

SelectDone ==
    /\ phase = "select" /\ todo = {} /\ ~halted
    /\ phase' = "transmit" /\ todo' = DOMAIN grantInfo
    /\ UNCHANGED <<now, xapp, grantInfo, harq, used, received, disturbed, halted>>

Due(g) == g.slResoReselCounter # 0 /\ Begin(g.slotAllocations) = now

NothingDue(d) ==
    /\ phase = "transmit" /\ ~halted
    /\ d \in todo /\ todo' = todo \ {d}
    /\ ~Due(grantInfo[d])
    /\ UNCHANGED <<phase, now, xapp, grantInfo, harq, used, received, disturbed, halted>>

Abort ==
    /\ halted' = TRUE
    /\ UNCHANGED <<phase, todo, now, xapp, grantInfo, harq, used, received, disturbed>>

\* The grant after transmission number n of a TB.
AfterTx(g, n, h) ==
    LET last == n = g.nSelected
    IN  [g EXCEPT !.slotAllocations = Without(@, {now}),
                  !.nrSlHarqId = h,
                  !.tbTxCounter = IF last /\ n > 1 THEN 0 ELSE n,
                  !.slResoReselCounter = IF last THEN @ - 1 ELSE @]

\* The data radio bearer of a destination.
LcId == 4

\* New data.  Whether RLC has something to send is up to its users.
TransmitNew(d) ==
    /\ phase = "transmit" /\ ~halted
    /\ d \in todo
    /\ Due(grantInfo[d]) /\ grantInfo[d].slotAllocations[now].ndi
    /\ \E txed \in BOOLEAN :
         LET g == grantInfo[d]
             h == NextHarqId(harq)
             assigned == AssignNrSlHarqProcessId(harq, d)
             filled   == IF txed THEN AddPacket(assigned, h, LcId) ELSE assigned
             possible == GetNumAvaiableHarqIds(harq) > 0 /\ (txed => OnePduPerLc(filled, h))
         IN  \/ ~possible /\ Abort
             \/ /\ possible
                /\ todo' = todo \ {d}
                /\ grantInfo' = [grantInfo EXCEPT ![d] = AfterTx(g, 1, h)]
                /\ harq' = IF g.nSelected = 1 THEN RecvNrSlHarqFeedback(filled, h)
                           ELSE filled
                /\ used' = used \cup {d}
                /\ UNCHANGED <<phase, now, xapp, received, disturbed, halted>>

\* Mutant: the last retransmission is not taken for the last one.
TransmitAgainOffByOne(d) ==
    LET g == grantInfo[d]
        h == g.nrSlHarqId
        n == g.tbTxCounter + 1
    IN  /\ phase = "transmit" /\ ~halted
        /\ d \in todo
        /\ Due(g) /\ ~g.slotAllocations[now].ndi
        /\ BelongsTo(harq, h, d) /\ EnableBlindReTx
        /\ todo' = todo \ {d}
        /\ grantInfo' = [grantInfo EXCEPT ![d] = AfterTx(g, n, h)]
        /\ harq' = IF n > g.nSelected THEN RecvNrSlHarqFeedback(harq, h) ELSE harq
        /\ used' = used \cup {d}
        /\ UNCHANGED <<phase, now, xapp, received, disturbed, halted>>

\* A blind retransmission from the HARQ buffer.
TransmitAgain(d) ==
    LET g == grantInfo[d]
        h == g.nrSlHarqId
        n == g.tbTxCounter + 1
    IN  /\ phase = "transmit" /\ ~halted
        /\ d \in todo
        /\ Due(g) /\ ~g.slotAllocations[now].ndi
        /\ \/ ~(BelongsTo(harq, h, d) /\ EnableBlindReTx) /\ Abort
           \/ /\ BelongsTo(harq, h, d) /\ EnableBlindReTx
              /\ todo' = todo \ {d}
              /\ grantInfo' = [grantInfo EXCEPT ![d] = AfterTx(g, n, h)]
              /\ harq' = IF n = g.nSelected THEN RecvNrSlHarqFeedback(harq, h) ELSE harq
              /\ used' = used \cup {d}
              /\ UNCHANGED <<phase, now, xapp, received, disturbed, halted>>

TransmitDone ==
    /\ phase = "transmit" /\ todo = {} /\ ~halted
    /\ phase' = "idle"
    /\ UNCHANGED <<todo, now, xapp, grantInfo, harq, used, received, disturbed, halted>>

----------------------------------------------------------------------------
\* The simulation is over, or an abort has ended it.
Ended ==
    /\ halted \/ (phase = "idle" /\ now = SimTime)
    /\ UNCHANGED vars

Next ==
    \/ Receive \/ SlotIndication \/ SelectDone \/ TransmitDone \/ Ended
    \/ \E d \in Dst : Select(d) \/ NothingDue(d) \/ TransmitNew(d) \/ TransmitAgain(d)

Spec == Init /\ [][Next]_vars

----------------------------------------------------------------------------
(* Properties                                                              *)

\* "we iterate over all allocations and update the grant info"
\* (V2xE2Scheduling): when a message has been received, every slot of it is
\* stored for its destination.
MessageIsStored == \A r \in received : r[1] \in Stored(r[2])

\* "we extract the allocations of the slot in question": an allocation that
\* was extracted from the xApp's grant into m_grantInfo is used in that slot,
\* whatever else is left in the grant.
ExtractedIsUsed ==
    phase = "transmit" /\ todo = {} => DOMAIN grantInfo \subseteq used

\* A retransmission to d is ahead in m_grantInfoXapp.
ReTxAhead(d) ==
    \E k \in DOMAIN xapp : \E s \in DOMAIN xapp[k].slotAllocations :
        /\ s > now /\ ~xapp[k].slotAllocations[s].ndi
        /\ xapp[k].slotAllocations[s].dstL2Id = d

\* "the assigned HARQ id will be occupied until all the grants for this slot
\* and it ReTxs are exhausted": between two slots a process is taken only
\* while a retransmission to its destination is ahead.  The code does not give
\* that: a message that comes between the new data of a TB and its
\* retransmission erases the retransmission, and nothing else releases the
\* process.
OccupiedForReTx ==
    phase = "idle" =>
        \A h \in HarqIds : IsHarqIdAvaiable(harq, h) \/
            \E d \in Dst : BelongsTo(harq, h, d) /\ ReTxAhead(d)

\* What keeps a process taken for good: nothing but a message that was late, a
\* message that erased the retransmission of a TB already begun or still to
\* begin, or a slot that went by because no process was free.  Of a destination
\* that met none of these every process waits for a retransmission that is
\* ahead, also while the processes of the others run out.
ProcessHeldForReTx ==
    phase = "idle" =>
        \A h \in HarqIds : IsHarqIdAvaiable(harq, h) \/
            \E d \in Dst : BelongsTo(harq, h, d) /\ (d \in disturbed \/ ReTxAhead(d))

\* No abort of the slot handler is reached: a process is free for new data,
\* and a retransmission names a process of its destination.
NeverAborts == ~halted

NoFreeProcess == GetNumAvaiableHarqIds(harq) = 0

\* An abort has one cause: a process was free when the slot began, new data for
\* another destination took it in the same slot, and new data is due.  A
\* retransmission always finds its process, whatever the messages that came
\* since its new data were.
AbortForWantOfProcess ==
    halted => /\ phase = "transmit" /\ NoFreeProcess /\ used # {}
              /\ \E d \in todo : Due(grantInfo[d]) /\ grantInfo[d].slotAllocations[now].ndi

\* Grants are looked up only while a process is free, those for retransmissions
\* too, and only a retransmission releases a process that waits for one: once a
\* slot ends with every process taken the vehicle never transmits again, though
\* the slots that would release them may still be ahead.
StarvedForGood ==
    [](phase = "idle" /\ NoFreeProcess =>
          [](NoFreeProcess /\ (phase = "idle" \/ used = {})))

\* The processes are neither lost nor shared, however the xApp mixes new data
\* and retransmissions: a process is in the free list once, without a TB, or
\* it belongs to a destination.
PoolConsistent ==
    /\ \A i, j \in 1..Len(harq.ids) : harq.ids[i] = harq.ids[j] => i = j
    /\ \A h \in HarqIds : IF IsHarqIdAvaiable(harq, h) THEN harq.pkt[h] = EmptyEntry
                          ELSE harq.pkt[h].dstL2Id \in Dst

\* The schedule that the stored grants stand for: the slots not yet passed,
\* and the current one while the transmission loop has still to use it.
Scheduled == [d \in Dst |-> {s \in Stored(d) : s > now \/ (s = now /\ phase # "idle")}
                   \cup {s \in {now} : d \in DOMAIN grantInfo /\ d \notin used}]

Abstract == INSTANCE NrSlXappSchedule WITH sched <- Scheduled

\* The vehicle follows the xApp's schedule: a new one replaces the slots of the
\* old one, and no slot of it goes by unused.
FollowsSchedule == Abstract!Spec
=============================================================================
