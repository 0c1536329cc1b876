--------------------------- MODULE NrSlUeMacHarq ---------------------------
(***************************************************************************)
(* The sidelink HARQ entity of a UE MAC                                    *)
(* (contrib/nr/model/nr-sl-ue-mac-harq.{h,cc}).  It owns a FIFO of the     *)
(* process ids that are free (m_nrSlHarqIdBuffer) and, per process id, the *)
(* TB that is being (re)transmitted (m_nrSlHarqPktBuffer).                 *)
(*                                                                         *)
(* The entity has no behaviour of its own: the slot handler of NrUeMac     *)
(* calls several of its methods in one event.  Each method is therefore an *)
(* operator from a value of the entity to its next value, and the          *)
(* condition of each NS_ABORT_MSG_IF is an operator of its own that the    *)
(* caller has to respect or abort.                                         *)
(***************************************************************************)
EXTENDS Integers, Sequences, FiniteSets

CONSTANTS
    Dst,                 \* destination layer-2 ids
    NoDst,               \* numeric_limits<uint32_t>::max (): owned by nobody
    NumSidelinkProcess   \* attribute NumSidelinkProcess of NrUeMac

ASSUME DstAssumption == IsFiniteSet(Dst) /\ NoDst \notin Dst

\* The id of a process is a uint8_t and 255 stands for "no process".
ASSUME ProcessAssumption == NumSidelinkProcess \in 1..255

HarqIds == 0..(NumSidelinkProcess - 1)
NoHarqId == 255

\* An entry of m_nrSlHarqPktBuffer that holds no TB.  The packets of a burst
\* are only counted: a TB holds one RLC PDU per logical channel.
EmptyEntry == [dstL2Id |-> NoDst, lcidList |-> {}, pktBurst |-> 0]

HarqEntries == [dstL2Id : Dst \cup {NoDst}, lcidList : SUBSET Nat, pktBurst : Nat]

HarqType == [ids : Seq(HarqIds), pkt : [HarqIds -> HarqEntries]]

InitHarqBuffer ==
    [ids |-> [i \in 1..NumSidelinkProcess |-> i - 1],
     pkt |-> [h \in HarqIds |-> EmptyEntry]]

GetNumAvaiableHarqIds(harq) == Len(harq.ids)

IsHarqIdAvaiable(harq, h) == \E i \in 1..Len(harq.ids) : harq.ids[i] = h

\* "the HARQ id does not belong to the destination": AddPacket,
\* RecvNrSlHarqFeedback and GetPacketBurst abort unless this holds; an id
\* outside the buffer makes vector::at throw.
BelongsTo(harq, h, d) == h \in HarqIds /\ harq.pkt[h].dstL2Id = d

\* The id that AssignNrSlHarqProcessId returns, and the state it leaves.
NextHarqId(harq) == Head(harq.ids)

\* Mutant: pop_front is missing.
AssignWithoutPop(harq, d) ==
    [ids |-> harq.ids,
     pkt |-> [harq.pkt EXCEPT ![NextHarqId(harq)].dstL2Id = d]]

AssignNrSlHarqProcessId(harq, d) ==
    [ids |-> Tail(harq.ids),
     pkt |-> [harq.pkt EXCEPT ![NextHarqId(harq)].dstL2Id = d]]

\* Mutant: the logical channel is not noted.
AddPacketWithoutLc(harq, h, lcId) ==
    [ids |-> harq.ids, pkt |-> [harq.pkt EXCEPT ![h].pktBurst = @ + 1]]

AddPacket(harq, h, lcId) ==
    [ids |-> harq.ids,
     pkt |-> [harq.pkt EXCEPT ![h] = [dstL2Id  |-> @.dstL2Id,
                                      lcidList |-> @.lcidList \cup {lcId},
                                      pktBurst |-> @.pktBurst + 1]]]

\* The second abort of AddPacket, evaluated on the state it leaves: every
\* logical channel has exactly one PDU in the TB.
OnePduPerLc(harq, h) == Cardinality(harq.pkt[h].lcidList) = harq.pkt[h].pktBurst

GetPacketBurst(harq, h) == harq.pkt[h].pktBurst

\* Mutant: the entry is not cleared.
FeedbackWithoutClear(harq, h) ==
    [ids |-> Append(harq.ids, h), pkt |-> harq.pkt]

\* Mutant: a process without a packet is not released.
FeedbackIfFilled(harq, h) ==
    IF GetPacketBurst(harq, h) = 0 THEN harq
    ELSE [ids |-> Append(harq.ids, h), pkt |-> [harq.pkt EXCEPT ![h] = EmptyEntry]]

RecvNrSlHarqFeedback(harq, h) ==
    [ids |-> Append(harq.ids, h), pkt |-> [harq.pkt EXCEPT ![h] = EmptyEntry]]

\* The ids whose TB goes to destination d, GetDestinationHarqMap.
GetDestinationHarqMap(harq, d) == {h \in HarqIds : harq.pkt[h].dstL2Id = d}
=============================================================================
