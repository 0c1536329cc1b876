----------------------------- MODULE NrSlGrant -----------------------------
(***************************************************************************)
(* The semi-persistent sidelink grant of one destination and the pure      *)
(* functions that build and read it: the slot choice of                    *)
(* NrSlUeMacSchedulerSimple, NrUeMac::CreateGrantInfo,                     *)
(* NrUeMac::FilterTxOpportunities and NrUeMac::ComputeGaps.                *)
(*                                                                         *)
(* A slot (SfnSf) is represented by its distance in slots from the current *)
(* one: 0 is the slot being processed, a negative number a slot that has   *)
(* passed.  slotAllocations is the std::set in its iteration order, a      *)
(* sequence whose Head is begin ().  Of an NrSlSlotAlloc the model keeps   *)
(* the slot and txIdx, the number of transmissions of the same TB before   *)
(* it; ndi, rv, txSci1A and slotNumInd are functions of txIdx.             *)
(***************************************************************************)
EXTENDS Integers, Sequences, FiniteSets

CONSTANTS
    T1, T2,            \* selection window [n + T1, n + T2], in slots
    ResvPeriod,        \* resource reservation period, in slots
    MaxTx,             \* SlMaxTxTransNumPssch
    MaxNumPerReserve,  \* SlMaxNumPerReserve
    ReselCounters,     \* what GetRndmReselectionCounter may return
    CReselFactor,      \* m_cResel = m_reselCounter * 10
    PsschSymStart,     \* first symbol and
    PsschSymLength,    \* number of symbols of PSSCH in a slot of the pool
    GapMod             \* values of the uint8_t that holds a gap: 256

\* GetNrSlTxOpportunities aborts when the window is longer than the period.
ASSUME WindowAssumption ==
    /\ T1 \in Nat /\ T2 \in Nat /\ T1 <= T2
    /\ ResvPeriod \in Nat /\ T2 - T1 + 1 <= ResvPeriod

ASSUME PoolAssumption ==
    /\ MaxTx \in Nat \ {0}
    /\ MaxNumPerReserve \in 1..3
    /\ PsschSymStart \in 0..13 /\ PsschSymLength \in 1..14

ASSUME GapAssumption == GapMod \in Nat \ {0}

ASSUME CounterAssumption ==
    /\ ReselCounters \subseteq Nat \ {0}
    /\ CReselFactor \in Nat \ {0}

NoHarq == 255

SlotAlloc == [sfn : Int, txIdx : Nat]

NrSlGrantInfo ==
    [cReselCounter : Nat, slResoReselCounter : Nat, prevSlResoReselCounter : Nat,
     nSelected : Nat, tbTxCounter : Nat, nrSlHarqId : Nat,
     slotAllocations : Seq(SlotAlloc)]

\* A destination without an entry in m_grantInfo.  The slot handler treats an
\* entry with zero counters and no slots exactly like a missing one.
NoGrant ==
    [cReselCounter |-> 0, slResoReselCounter |-> 0, prevSlResoReselCounter |-> 0,
     nSelected |-> 0, tbTxCounter |-> 0, nrSlHarqId |-> NoHarq,
     slotAllocations |-> <<>>]

SelectionWindow == T1..T2

----------------------------------------------------------------------------
(* The scheduler                                                           *)

\* RandomlySelectSlots: the sorted lists it may return.  All the slots when
\* there are at most MaxTx of them, otherwise any MaxTx of them.
RandomlySelectSlots(txOpps) ==
    LET total == Cardinality(txOpps)
        n     == IF total > MaxTx THEN MaxTx ELSE total
    IN  {s \in [1..n -> txOpps] : \A i, j \in 1..n : i < j => s[i] < s[j]}

\* DoNrSlAllocation: the first slot of a TB carries new data, every
\* MaxNumPerReserve-th one an SCI 1-A, which indicates itself and the
\* following slots up to the next SCI 1-A or the last slot of the TB.
Ndi(a) == a.txIdx = 0
TxSci1A(a) == a.txIdx % MaxNumPerReserve = 0
SlotNumInd(a, nSelected) ==
    IF ~TxSci1A(a) THEN 0
    ELSE IF a.txIdx + MaxNumPerReserve <= nSelected THEN MaxNumPerReserve
         ELSE nSelected - a.txIdx

----------------------------------------------------------------------------
(* NrUeMac                                                                 *)

\* CreateGrantInfo: the slots chosen for one reservation period, repeated
\* over cResel periods.
CreateGrantInfo(sel, reselCounter) ==
    LET n     == Len(sel)
        cResel == CReselFactor * reselCounter
    IN  [cReselCounter |-> cResel,
         slResoReselCounter |-> reselCounter,
         prevSlResoReselCounter |-> reselCounter,
         nSelected |-> n,
         tbTxCounter |-> 0,
         nrSlHarqId |-> NoHarq,
         slotAllocations |->
             [k \in 1..(cResel * n) |->
                 [sfn   |-> sel[((k - 1) % n) + 1] + ((k - 1) \div n) * ResvPeriod,
                  txIdx |-> (k - 1) % n]]]

\* NrSlSlotAlloc::operator<, on the fields it reads.
AllocLess(x, y) ==
    \/ x.sfn < y.sfn
    \/ /\ x.sfn = y.sfn
       /\ x.symStart <= y.symStart
       /\ x.symStart + x.symLength <= y.symStart + y.symLength
       /\ x.symStart + x.symLength <= y.symStart

\* The key of an allocation made by the scheduler, and of the default
\* constructed NrSlSlotAlloc that FilterTxOpportunities looks up.
AllocKey(a) == [sfn |-> a.sfn, symStart |-> PsschSymStart, symLength |-> PsschSymLength]
DummyKey(slot) == [sfn |-> slot, symStart |-> 65535, symLength |-> 65535]

\* std::set::find finds the elements that are neither less nor greater.
FoundBy(a, slot) ==
    /\ ~AllocLess(AllocKey(a), DummyKey(slot))
    /\ ~AllocLess(DummyKey(slot), AllocKey(a))

\* FilterTxOpportunities, over the slot allocations of every grant.
FilterTxOpportunities(txOppr, grantInfo) ==
    {slot \in txOppr :
        \A d \in DOMAIN grantInfo :
            LET allocs == grantInfo[d].slotAllocations
            IN  \A i \in 1..Len(allocs) : ~FoundBy(allocs[i], slot)}

\* The greatest gap value, 255, stands for no retransmission.
NoGap == GapMod - 1

\* Mutant: the loop stops one retransmission too early.
ComputeGapsShort(nextAllocs, slotNumInd) ==
    {nextAllocs[1 + ((i * (i + 1)) \div 2)].sfn % GapMod : i \in 0..(slotNumInd - 3)}

\* ComputeGaps: the distances to the retransmissions that an SCI 1-A
\* indicates, each cut to eight bits.  The iterator is advanced by i from
\* where the previous pass of the loop left it, so pass i reads position
\* i * (i + 1) / 2.
ComputeGaps(nextAllocs, slotNumInd) ==
    {nextAllocs[1 + ((i * (i + 1)) \div 2)].sfn % GapMod : i \in 0..(slotNumInd - 2)}

\* One slot later.  How far in the past a slot is does not matter.
NextSlot(allocs) ==
    [k \in 1..Len(allocs) |->
        [allocs[k] EXCEPT !.sfn = IF @ < 0 THEN @ ELSE @ - 1]]
=============================================================================
