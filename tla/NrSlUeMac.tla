----------------------------- MODULE NrSlUeMac -----------------------------
(***************************************************************************)
(* The sidelink transmit side of one UE in resource allocation mode 2      *)
(* (scheduling type UE_SELECTED): NrUeMac::DoNrSlSlotIndication with what  *)
(* it calls, i.e. the scheduler NrSlUeMacSchedulerNs3/Simple, the HARQ     *)
(* entity, the RLC UM entity of each destination and the PSCCH and PSSCH   *)
(* queues of NrPhy.                                                        *)
(*                                                                         *)
(* The simulator runs one event at a time.  The slot handler is one event; *)
(* it is broken here into one step per iteration of its two loops over the *)
(* destinations (phases "select" and "transmit"), and nothing else runs    *)
(* between these steps.  Packets arrive and timers expire in phase "idle". *)
(*                                                                         *)
(* NS_ABORT_MSG_IF and NS_FATAL_ERROR stop the program in every build:     *)
(* halted.  NS_ASSERT is compiled out of optimized builds: the model goes  *)
(* on, and what an assertion says is a property.                           *)
(***************************************************************************)
EXTENDS NrSlUeMacHarq, NrSlGrant

CONSTANTS
    EnableSensing,     \* attribute EnableSensing of NrUeMac
    EnableBlindReTx,   \* attribute EnableBlindReTx of NrUeMac
    MaxTxBufferSize,   \* RLC: m_maxTxBufferSize, in SDUs
    TbSize             \* SDUs that fit in one TB

ASSUME TrafficAssumption ==
    /\ MaxTxBufferSize \in Nat \ {0} /\ TbSize \in Nat \ {0}
    /\ EnableSensing \in BOOLEAN /\ EnableBlindReTx \in BOOLEAN

VARIABLES
    phase,          \* where the slot handler is
    todo,           \* destinations its current loop has not visited
    destinations,   \* m_sidelinkTxDestinations
    grantInfo,      \* m_grantInfo
    harq,           \* m_nrSlHarq
    txBuffer,       \* RLC: SDUs waiting, per destination
    txQueueSize,    \* scheduler: the last buffer status minus what it assigned
    rbsTimer,       \* RLC: the buffer status timer is running
    pscch,          \* PHY: destinations of the SCI 1-A in the PSCCH burst
    pssch,          \* PHY: the TBs in the PSSCH burst
    indicated,      \* slots that the last SCI 1-A sent to a destination indicated
    halted          \* an NS_ABORT or NS_FATAL_ERROR was reached

macVars == <<destinations, grantInfo, harq>>
rlcVars == <<txBuffer, rbsTimer>>
phyVars == <<pscch, pssch>>
vars == <<phase, todo, macVars, rlcVars, txQueueSize, phyVars, indicated, halted>>

Phases == {"idle", "select", "transmit", "phy"}

\* What a receiver needs to know of a TB on the air.
PsschTb == [dst : Dst, txIdx : Nat, sci1A : BOOLEAN]

TypeOK ==
    /\ phase \in Phases
    /\ todo \subseteq Dst
    /\ destinations \subseteq Dst
    /\ grantInfo \in [Dst -> NrSlGrantInfo]
    /\ harq \in HarqType
    /\ txBuffer \in [Dst -> 0..MaxTxBufferSize]
    /\ txQueueSize \in [Dst -> 0..MaxTxBufferSize]
    /\ rbsTimer \in [Dst -> BOOLEAN]
    /\ pscch \in Seq(Dst)
    /\ pssch \in SUBSET PsschTb
    /\ indicated \in [Dst -> SUBSET Int]
    /\ halted \in BOOLEAN

Init ==
    /\ phase = "idle" /\ todo = {}
    /\ destinations = {}
    /\ grantInfo = [d \in Dst |-> NoGrant]
    /\ harq = InitHarqBuffer
    /\ txBuffer = [d \in Dst |-> 0]
    /\ txQueueSize = [d \in Dst |-> 0]
    /\ rbsTimer = [d \in Dst |-> FALSE]
    /\ pscch = <<>> /\ pssch = {}
    /\ indicated = [d \in Dst |-> {}]
    /\ halted = FALSE

----------------------------------------------------------------------------
(* Events between two slots                                                *)

\* DoAddNrSlLc for a transmit logical channel: the scheduler creates the
\* destination, AddNrSlDstL2Id appends it.  The order of the list, by
\* priority, is abstracted from: the loop over it may visit any next.
AddNrSlLc(d) ==
    /\ phase = "idle" /\ ~halted
    /\ d \notin destinations
    /\ destinations' = destinations \cup {d}
    /\ UNCHANGED <<phase, todo, grantInfo, harq, rlcVars, txQueueSize, phyVars,
                   indicated, halted>>

\* Mutant: the size of the buffer is not checked.
TransmitWithoutLimit(d) ==
    /\ phase = "idle" /\ ~halted
    /\ d \in destinations
    /\ txBuffer' = [txBuffer EXCEPT ![d] = @ + 1]
    /\ txQueueSize' = [txQueueSize EXCEPT ![d] = txBuffer'[d]]
    /\ rbsTimer' = [rbsTimer EXCEPT ![d] = FALSE]
    /\ UNCHANGED <<phase, todo, macVars, phyVars, indicated, halted>>

\* Mutant: the buffer status is not reported.
TransmitWithoutReport(d) ==
    /\ phase = "idle" /\ ~halted
    /\ d \in destinations
    /\ txBuffer' = [txBuffer EXCEPT ![d] = IF @ < MaxTxBufferSize THEN @ + 1 ELSE @]
    /\ rbsTimer' = [rbsTimer EXCEPT ![d] = FALSE]
    /\ UNCHANGED <<phase, todo, macVars, txQueueSize, phyVars, indicated, halted>>

\* LteRlcUm::DoTransmitNrSlPdcpPdu: store the SDU or discard it, report the
\* buffer status, which ends in the scheduler, and cancel the timer.
TransmitPdcpPdu(d) ==
    /\ phase = "idle" /\ ~halted
    /\ d \in destinations
    /\ txBuffer' = [txBuffer EXCEPT ![d] = IF @ < MaxTxBufferSize THEN @ + 1 ELSE @]
    /\ txQueueSize' = [txQueueSize EXCEPT ![d] = txBuffer'[d]]
    /\ rbsTimer' = [rbsTimer EXCEPT ![d] = FALSE]
    /\ UNCHANGED <<phase, todo, macVars, phyVars, indicated, halted>>

\* LteRlcUm::ExpireNrSlRbsTimer: report and rearm while there is data.
ExpireRbsTimer(d) ==
    /\ phase = "idle" /\ ~halted
    /\ rbsTimer[d]
    /\ rbsTimer' = [rbsTimer EXCEPT ![d] = txBuffer[d] > 0]
    /\ txQueueSize' = [txQueueSize EXCEPT ![d] =
                           IF txBuffer[d] > 0 THEN txBuffer[d] ELSE @]
    /\ UNCHANGED <<phase, todo, macVars, txBuffer, phyVars, indicated, halted>>

----------------------------------------------------------------------------
(* DoNrSlSlotIndication: resource selection                                *)

\* A new slot starts.  Resources are selected only when some sidelink process
\* is free; otherwise the handler goes straight to the transmission loop.
SlotIndication ==
    /\ phase = "idle" /\ ~halted
    /\ grantInfo' = [d \in Dst |->
           [grantInfo[d] EXCEPT !.slotAllocations = NextSlot(@)]]
    /\ indicated' = [d \in Dst |-> {s - 1 : s \in indicated[d] \ {0}}]
    /\ IF GetNumAvaiableHarqIds(harq) > 0
       THEN phase' = "select" /\ todo' = destinations
       ELSE phase' = "transmit" /\ todo' = Dst
    /\ UNCHANGED <<destinations, harq, rlcVars, txQueueSize, phyVars, halted>>

\* The re-selection counter is not zero: the destination has its resources.
HasAllocation(d) ==
    /\ grantInfo[d].slResoReselCounter # 0
    /\ UNCHANGED <<grantInfo, txQueueSize>>

\* Mutant: the resources are kept when none are left.
MayKeepAlways(g) == TRUE

\* m_slProbResourceKeep > randProb: keep the resources for another
\* prevSlResoReselCounter TBs.
MayKeep(g) == g.cReselCounter > 0 /\ Len(g.slotAllocations) > 0
KeepResource(d) ==
    /\ grantInfo[d].slResoReselCounter = 0
    /\ MayKeep(grantInfo[d])
    /\ grantInfo' = [grantInfo EXCEPT ![d].slResoReselCounter =
                        grantInfo[d].prevSlResoReselCounter]
    /\ UNCHANGED txQueueSize

\* GetNrSlTxOpportunities: the whole window without sensing, any part of it
\* with sensing.
TxOpportunities == IF EnableSensing THEN SUBSET SelectionWindow ELSE {SelectionWindow}

\* NrSlUeMacSchedulerLCG::AssignedData, for the one queue that RLC UM reports.
AssignedData(size) == IF size <= TbSize THEN 0 ELSE size - TbSize

\* Mutant: the old slots are not erased.
ReselectWithoutErase(d) ==
    /\ grantInfo[d].slResoReselCounter = 0
    /\ \E txOpps \in TxOpportunities :
         LET filtered == FilterTxOpportunities(txOpps, grantInfo)
         IN  \/ /\ filtered = {} \/ txQueueSize[d] = 0
                /\ UNCHANGED <<grantInfo, txQueueSize>>
             \/ /\ filtered # {} /\ txQueueSize[d] > 0
                /\ \E sel \in RandomlySelectSlots(filtered), c \in ReselCounters :
                     grantInfo' = [grantInfo EXCEPT ![d] = CreateGrantInfo(sel, c)]
                /\ txQueueSize' = [txQueueSize EXCEPT ![d] = AssignedData(@)]

\* Mutant: the re-selection counter is not checked.
ReselectAnyTime(d) ==
    \E txOpps \in TxOpportunities :
        \/ /\ txOpps = {} \/ txQueueSize[d] = 0
           /\ UNCHANGED <<grantInfo, txQueueSize>>
        \/ /\ txOpps # {} /\ txQueueSize[d] > 0
           /\ \E sel \in RandomlySelectSlots(txOpps), c \in ReselCounters :
                grantInfo' = [grantInfo EXCEPT ![d] = CreateGrantInfo(sel, c)]
           /\ txQueueSize' = [txQueueSize EXCEPT ![d] = AssignedData(@)]

\* Erase the old slots and ask the scheduler for new ones.  It allocates
\* nothing when no opportunity is left or when it knows of no data.
ReselectResource(d) ==
    LET erased == [grantInfo EXCEPT ![d].slotAllocations = <<>>]
    IN  /\ grantInfo[d].slResoReselCounter = 0
        /\ \E txOpps \in TxOpportunities :
             LET filtered == FilterTxOpportunities(txOpps, erased)
             IN  \/ /\ filtered = {} \/ txQueueSize[d] = 0
                    /\ grantInfo' = erased
                    /\ UNCHANGED txQueueSize
                 \/ /\ filtered # {} /\ txQueueSize[d] > 0
                    /\ \E sel \in RandomlySelectSlots(filtered), c \in ReselCounters :
                         grantInfo' = [grantInfo EXCEPT ![d] = CreateGrantInfo(sel, c)]
                    /\ txQueueSize' = [txQueueSize EXCEPT ![d] = AssignedData(@)]

Select(d) ==
    /\ phase = "select" /\ ~halted
    /\ d \in todo /\ todo' = todo \ {d}
    /\ HasAllocation(d) \/ KeepResource(d) \/ ReselectResource(d)
    /\ UNCHANGED <<phase, destinations, harq, rlcVars, phyVars, indicated, halted>>

SelectDone ==
    /\ phase = "select" /\ todo = {} /\ ~halted
    /\ phase' = "transmit" /\ todo' = Dst
    /\ UNCHANGED <<macVars, rlcVars, txQueueSize, phyVars, indicated, halted>>

----------------------------------------------------------------------------
(* DoNrSlSlotIndication: transmission                                      *)

Due(g) ==
    /\ g.slResoReselCounter # 0
    /\ g.slotAllocations # <<>>
    /\ Head(g.slotAllocations).sfn = 0

Abort ==
    /\ halted' = TRUE
    /\ UNCHANGED <<phase, todo, macVars, rlcVars, txQueueSize, phyVars, indicated>>

\* Nothing is reserved for this destination in the current slot.
NothingDue(d) ==
    /\ phase = "transmit" /\ ~halted
    /\ d \in todo /\ todo' = todo \ {d}
    /\ ~Due(grantInfo[d])
    /\ UNCHANGED <<phase, macVars, rlcVars, txQueueSize, phyVars, indicated, halted>>

\* The grant after the transmission number n of the current TB: the slot is
\* consumed, and with the last transmission both counters are decremented.
\* tbTxCounter is cleared after a last retransmission only.
AfterTx(g, n, h) ==
    LET last == n = g.nSelected
    IN  [g EXCEPT !.slotAllocations = Tail(@),
                  !.nrSlHarqId = h,
                  !.tbTxCounter = IF last /\ n > 1 THEN 0 ELSE n,
                  !.slResoReselCounter = IF last THEN @ - 1 ELSE @,
                  !.cReselCounter = IF last THEN @ - 1 ELSE @]

\* What reaches the PHY when m_nrSlMacPduTxed is set: the TB with its SCI 2-A
\* and, in some slots, the SCI 1-A with the gaps to the next transmissions.
SendToPhy(d, a, nextAllocs, txed) ==
    /\ pssch' = IF txed
                THEN pssch \cup {[dst |-> d, txIdx |-> a.txIdx, sci1A |-> TxSci1A(a)]}
                ELSE pssch
    /\ IF txed /\ TxSci1A(a)
       THEN /\ pscch' = Append(pscch, d)
            /\ indicated' = [indicated EXCEPT ![d] =
                   ComputeGaps(nextAllocs, SlotNumInd(a, grantInfo[d].nSelected))
                       \ {NoGap}]
       ELSE UNCHANGED <<pscch, indicated>>

\* DoNotifyNrSlTxOpportunity takes from the RLC buffer what fits in the TB.
TakeTb(size) == IF size <= TbSize THEN 0 ELSE size - TbSize

\* The logical channel of a destination: data radio bearers start at 4.
LcId == 4

\* New data: a process is assigned whether or not RLC has something to send.
\* DoNotifyNrSlTxOpportunity hands over a PDU, through DoTransmitNrSlRlcPdu,
\* and starts the timer when data is left.
TransmitNew(d) ==
    LET g    == grantInfo[d]
        a    == Head(g.slotAllocations)
        h    == NextHarqId(harq)
        txed == txBuffer[d] > 0
        assigned == AssignNrSlHarqProcessId(harq, d)
        filled   == IF txed THEN AddPacket(assigned, h, LcId) ELSE assigned
        possible == GetNumAvaiableHarqIds(harq) > 0 /\ (txed => OnePduPerLc(filled, h))
    IN  /\ phase = "transmit" /\ ~halted
        /\ d \in todo
        /\ Due(g) /\ Ndi(a)
        /\ \/ ~possible /\ Abort
           \/ /\ possible
              /\ todo' = todo \ {d}
              /\ grantInfo' = [grantInfo EXCEPT ![d] = AfterTx(g, 1, h)]
              /\ harq' = IF g.nSelected = 1 THEN RecvNrSlHarqFeedback(filled, h)
                         ELSE filled
              /\ txBuffer' = [txBuffer EXCEPT ![d] = TakeTb(@)]
              /\ rbsTimer' = [rbsTimer EXCEPT ![d] = (txed /\ txBuffer'[d] > 0) \/ @]
              /\ SendToPhy(d, a, Tail(g.slotAllocations), txed)
              /\ UNCHANGED <<phase, destinations, txQueueSize, halted>>

\* A blind retransmission from the HARQ buffer.
TransmitAgain(d) ==
    LET g == grantInfo[d]
        a == Head(g.slotAllocations)
        h == g.nrSlHarqId
        n == g.tbTxCounter + 1
    IN  /\ phase = "transmit" /\ ~halted
        /\ d \in todo
        /\ Due(g) /\ ~Ndi(a)
        /\ \/ /\ ~BelongsTo(harq, h, d) \/ ~EnableBlindReTx
              /\ Abort
           \/ /\ BelongsTo(harq, h, d) /\ EnableBlindReTx
              /\ todo' = todo \ {d}
              /\ grantInfo' = [grantInfo EXCEPT ![d] = AfterTx(g, n, h)]
              /\ harq' = IF n = g.nSelected THEN RecvNrSlHarqFeedback(harq, h) ELSE harq
              /\ SendToPhy(d, a, Tail(g.slotAllocations), GetPacketBurst(harq, h) > 0)
              /\ UNCHANGED <<phase, destinations, rlcVars, txQueueSize, halted>>

TransmitDone ==
    /\ phase = "transmit" /\ todo = {} /\ ~halted
    /\ phase' = "phy"
    /\ UNCHANGED <<todo, macVars, rlcVars, txQueueSize, phyVars, indicated, halted>>

\* The rest of NrUePhy::StartSlot: the bursts, if any, are popped and sent in
\* the var TTIs of this slot.
PhySlot ==
    /\ phase = "phy" /\ ~halted
    /\ phase' = "idle"
    /\ pscch' = <<>> /\ pssch' = {}
    /\ UNCHANGED <<todo, macVars, rlcVars, txQueueSize, indicated, halted>>

----------------------------------------------------------------------------
\* The program has stopped.
Stopped == halted /\ UNCHANGED vars

SlotStep ==
    \/ SlotIndication \/ SelectDone \/ TransmitDone \/ PhySlot
    \/ \E d \in Dst : Select(d) \/ NothingDue(d) \/ TransmitNew(d) \/ TransmitAgain(d)

Next ==
    \/ SlotStep
    \/ \E d \in Dst : AddNrSlLc(d) \/ TransmitPdcpPdu(d) \/ ExpireRbsTimer(d)
    \/ Stopped

Spec == Init /\ [][Next]_vars

\* The simulator always runs the next event: slots follow each other, and a
\* running timer expires.
Fairness == WF_vars(SlotStep) /\ \A d \in Dst : WF_vars(ExpireRbsTimer(d))

FairSpec == Spec /\ Fairness

----------------------------------------------------------------------------
(* Properties                                                              *)

\* A TB is between its first and its last transmission.
InFlight(g) == 0 < g.tbTxCounter /\ g.tbTxCounter < g.nSelected

\* How many transmissions of the current TB have been made.
Sent(g) == IF InFlight(g) THEN g.tbTxCounter ELSE 0

\* No abort of the transmit side is reached.  AssignNrSlHarqProcessId aborts
\* when no process is free, yet DoNrSlSlotIndication looks for a free process
\* only before it selects resources, several slots before it needs one.
NeverAborts == ~halted

\* The sidelink processes are neither lost nor shared.  A process is in the
\* free list exactly once or not at all, and it is out of the list exactly
\* while its TB is in flight for the one destination whose grant names it.
\* The release (RecvNrSlHarqFeedback) and the assignment are in different
\* slots and different branches of the transmission loop.
ProcessesAccountedFor ==
    /\ \A i, j \in 1..Len(harq.ids) : harq.ids[i] = harq.ids[j] => i = j
    /\ \A h \in HarqIds :
         IF IsHarqIdAvaiable(harq, h)
         THEN harq.pkt[h] = EmptyEntry
         ELSE \E d \in Dst : /\ harq.pkt[h].dstL2Id = d
                             /\ grantInfo[d].nrSlHarqId = h
                             /\ InFlight(grantInfo[d])
    /\ \A d \in Dst : InFlight(grantInfo[d]) => BelongsTo(harq, grantInfo[d].nrSlHarqId, d)

\* A grant with a non-zero re-selection counter still has slots, as many as
\* cReselCounter TBs need less those of the current TB already used: the
\* transmission loop dereferences slotAllocations.begin () on the strength of
\* the counter alone, over all the times the resources are kept.
GrantNeverRunsDry ==
    \A d \in Dst :
        LET g == grantInfo[d]
        IN  g.slResoReselCounter # 0 =>
                /\ g.slotAllocations # <<>>
                /\ Len(g.slotAllocations) = g.cReselCounter * g.nSelected - Sent(g)

\* No reserved slot goes by unused: when the slot handler is done, the first
\* slot of every grant lies ahead.  Only the first one is ever compared with
\* the current slot, so a single missed slot would silence the destination
\* for good.
NoMissedSlot ==
    phase = "idle" =>
        \A d \in Dst : grantInfo[d].slotAllocations # <<>> =>
                           Head(grantInfo[d].slotAllocations).sfn > 0

\* A receiver can decode every TB on the air: it comes with an SCI 1-A, or the
\* last SCI 1-A to the destination indicated this very slot.  The scheduler
\* decides txSci1A and slotNumInd when it allocates, the MAC reads the gaps
\* off the remaining slots when it transmits, and wasted grants lie between.
\* It holds as long as no gap of the selection window exceeds what the eight
\* bits of a gap can say.
EveryTbIsIndicated ==
    \A tb \in pssch : tb.sci1A \/ 0 \in indicated[tb.dst]

\* "Since we must send one SCI msg at a given time, initially the queue size
\* must be 1 with an empty packet burst" (NrPhy::SetPscchMacPdu asserts it):
\* one destination at most sends in a slot.
OneTbPerSlot == Len(pscch) <= 1 /\ Cardinality(pssch) <= 1

\* What one step may do to a TB in flight.
TbStep ==
    \A d \in Dst :
        LET g == grantInfo[d]
            n == grantInfo'[d]
        IN  InFlight(g) =>
              /\ n.nrSlHarqId = g.nrSlHarqId /\ n.nSelected = g.nSelected
              /\ \/ n.tbTxCounter \in {g.tbTxCounter, g.tbTxCounter + 1}
                 \/ n.tbTxCounter = 0 /\ g.tbTxCounter + 1 = g.nSelected

\* A TB in flight is finished: whatever re-selection does meanwhile, the grant
\* keeps the process and the number of transmissions, and every step leaves
\* the count alone, adds one or ends the TB with the last transmission.
TbIsFinished == [][TbStep]_vars

\* Data that RLC holds for a destination is eventually followed by a TB to it.
\* The scheduler sees the buffer only through reports that a timer and new
\* packets trigger, and subtracts what it assigns.
DataIsServed == \A d \in Dst : txBuffer[d] > 0 ~> (\E tb \in pssch : tb.dst = d)

\* Every sidelink process that is taken is eventually free again, also when
\* RLC had nothing to send and the grant was wasted.
ProcessIsReleased ==
    \A h \in HarqIds : ~IsHarqIdAvaiable(harq, h) ~> IsHarqIdAvaiable(harq, h)
=============================================================================
