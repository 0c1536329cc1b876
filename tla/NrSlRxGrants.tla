---------------------------- MODULE NrSlRxGrants ----------------------------
(***************************************************************************)
(* How a UE knows which TBs to receive in a slot: NrUePhy keeps the        *)
(* retransmissions that decoded SCI 1-A announced in a FIFO                *)
(* (m_slRxGrants) and passes them to NrSpectrumPhy (m_slTransportBlocks)   *)
(* when their slot starts.                                                 *)
(*                                                                         *)
(* A slot is its distance from the current one; all slots that have passed *)
(* are -1.  The senders are the environment: an SCI 1-A that is not        *)
(* decoded, or meant for a destination that is not monitored, does not     *)
(* occur in the model.                                                     *)
(***************************************************************************)
EXTENDS Integers, Sequences, FiniteSets

CONSTANTS
    Sender,         \* RNTIs of the transmitting UEs
    MaxGap,         \* longest gap to a retransmission
    MaxRxGrants     \* bound: the senders stop when the FIFO holds so many

ASSUME SenderAssumption ==
    IsFiniteSet(Sender) /\ MaxGap \in Nat /\ MaxRxGrants \in Nat

VARIABLES
    phase,       \* part of the slot: PSCCH or PSSCH
    rxGrants,    \* m_slRxGrants
    expected,    \* m_slTransportBlocks: senders of the TBs expected now
    announced,   \* slots that the SCI 1-A of a sender announced
    sent,        \* senders whose SCI 1-A was decoded in this slot
    lost,        \* history: senders that announced at or after the first crossing
    halted       \* an NS_ABORT was reached

vars == <<phase, rxGrants, expected, announced, sent, lost, halted>>

Grant == [rnti : Sender, sfn : Int]

TypeOK ==
    /\ phase \in {"pscch", "pssch"}
    /\ rxGrants \in Seq(Grant)
    /\ expected \in SUBSET Sender /\ sent \in SUBSET Sender
    /\ lost \in SUBSET Sender
    /\ announced \in [Sender -> SUBSET (0..MaxGap)]
    /\ halted \in BOOLEAN

Init ==
    /\ phase = "pssch" /\ rxGrants = <<>>
    /\ expected = {} /\ sent = {} /\ lost = {}
    /\ announced = [s \in Sender |-> {}]
    /\ halted = FALSE

\* The next slot starts.
Later(slot) == IF slot < 0 THEN slot ELSE slot - 1

\* Mutant: TBs expected in the last slot and not received stay.
StartSlotWithoutClear ==
    LET grants == [i \in 1..Len(rxGrants) |-> [rxGrants[i] EXCEPT !.sfn = Later(@)]]
        hit    == grants # <<>> /\ Head(grants).sfn = 0
    IN  /\ ~halted
        /\ phase' = "pscch" /\ sent' = {}
        /\ announced' = [s \in Sender |-> {Later(x) : x \in announced[s] \ {0}}]
        /\ rxGrants' = IF hit THEN Tail(grants) ELSE grants
        /\ expected' = expected \cup IF hit THEN {Head(grants).rnti} ELSE {}
        /\ UNCHANGED <<lost, halted>>

\* Mutant: the grant that was passed on stays in the FIFO.
StartSlotWithoutPop ==
    LET grants == [i \in 1..Len(rxGrants) |-> [rxGrants[i] EXCEPT !.sfn = Later(@)]]
        hit    == grants # <<>> /\ Head(grants).sfn = 0
    IN  /\ ~halted
        /\ phase' = "pscch" /\ sent' = {}
        /\ announced' = [s \in Sender |-> {Later(x) : x \in announced[s] \ {0}}]
        /\ rxGrants' = grants
        /\ expected' = IF hit THEN {Head(grants).rnti} ELSE {}
        /\ UNCHANGED <<lost, halted>>

\* NrUePhy::StartSlot: ClearExpectedSlTb, then SendSlExpectedTbInfo, which
\* looks at the front of the FIFO.
StartSlot ==
    LET grants == [i \in 1..Len(rxGrants) |-> [rxGrants[i] EXCEPT !.sfn = Later(@)]]
        hit    == grants # <<>> /\ Head(grants).sfn = 0
    IN  /\ ~halted
        /\ phase' = "pscch" /\ sent' = {}
        /\ announced' = [s \in Sender |-> {Later(x) : x \in announced[s] \ {0}}]
        /\ rxGrants' = IF hit THEN Tail(grants) ELSE grants
        /\ expected' = IF hit THEN {Head(grants).rnti} ELSE {}
        /\ UNCHANGED <<lost, halted>>

\* Mutant: the second retransmission is saved first.
SaveInReverse(grants, s, gapReTx1, gapReTx2) ==
    LET save(gap) == IF gap = 0 THEN <<>> ELSE <<[rnti |-> s, sfn |-> gap]>>
    IN  grants \o save(gapReTx2) \o save(gapReTx1)

\* SaveFutureSlRxGrants; gap 0 stands for 255, no retransmission.
SaveFutureSlRxGrants(grants, s, gapReTx1, gapReTx2) ==
    LET save(gap) == IF gap = 0 THEN <<>> ELSE <<[rnti |-> s, sfn |-> gap]>>
    IN  grants \o save(gapReTx1) \o save(gapReTx2)

Abort == halted' = TRUE /\ UNCHANGED <<phase, rxGrants, expected, announced, sent, lost>>

\* What the senders may announce.  The second gap is the longer one.  A sender
\* finishes a TB before it sends the next and sends one TB in a slot.  Nothing
\* relates the slots of one sender to those of another.
MayAnnounce(s, gapReTx1, gapReTx2) ==
    /\ gapReTx2 # 0 => 0 < gapReTx1 /\ gapReTx1 < gapReTx2
    /\ s \notin sent /\ announced[s] = {}
    /\ Len(rxGrants) < MaxRxGrants

\* The announced slot does not lie after every slot announced before: the two
\* cross, or are the same slot.
Crosses(gapReTx1) ==
    gapReTx1 # 0 /\ \E t \in Sender : \E x \in announced[t] : gapReTx1 <= x

\* NrUePhy::PhyPscchPduReceived for a monitored destination: AddSlExpectedTb,
\* which aborts when a TB of the sender is already expected in this slot, and
\* SaveFutureSlRxGrants.
PhyPscchPduReceived(s) ==
    /\ phase = "pscch" /\ ~halted
    /\ \E gapReTx1, gapReTx2 \in 0..MaxGap :
         /\ MayAnnounce(s, gapReTx1, gapReTx2)
         /\ \/ s \in expected /\ Abort
            \/ /\ s \notin expected
               /\ expected' = expected \cup {s}
               /\ rxGrants' = SaveFutureSlRxGrants(rxGrants, s, gapReTx1, gapReTx2)
               /\ announced' = [announced EXCEPT ![s] = @ \cup ({gapReTx1, gapReTx2} \ {0})]
               /\ sent' = sent \cup {s}
               /\ lost' = IF gapReTx1 # 0 /\ (lost # {} \/ Crosses(gapReTx1))
                             THEN lost \cup {s} ELSE lost
               /\ UNCHANGED <<phase, halted>>

\* NrSpectrumPhy::RxSlPssch: it aborts when an expected TB was
\* not sent.  A UE that transmits in the slot itself receives nothing: the
\* next slot starts without this step.
RxSlPssch ==
    /\ phase = "pscch" /\ ~halted
    /\ \/ /\ \E s \in expected : s \notin sent /\ 0 \notin announced[s]
          /\ Abort
       \/ /\ \A s \in expected : s \in sent \/ 0 \in announced[s]
          /\ phase' = "pssch" /\ expected' = {}
          /\ UNCHANGED <<rxGrants, announced, sent, lost, halted>>

Next ==
    \/ StartSlot \/ RxSlPssch
    \/ \E s \in Sender : PhyPscchPduReceived(s)

Spec == Init /\ [][Next]_vars

----------------------------------------------------------------------------
(* Properties                                                              *)

\* SendSlExpectedTbInfo looks at one entry, the front of the FIFO.  A
\* retransmission that was announced for the current slot is expected in it
\* exactly when no announcement, up to its own, was for a slot that another
\* sender's earlier announcement had reached or passed: from the first such
\* crossing on every announced retransmission is missed, for good, and those
\* announced before it are still received.
AnnouncedIsExpected ==
    phase = "pscch" /\ ~halted =>
        \A s \in Sender : 0 \in announced[s] => (s \in expected <=> s \notin lost)

\* "This method will go over the m_slRxGrants list, which stores the info about
\* the possible expected TBs to be received in the current slot without SCI
\* 1-A, and send this info to NrSpectrumPhy" (SendSlExpectedTbInfo): every
\* retransmission that was announced for the current slot is expected in it.
\* The code does not do that once announcements of two senders cross.
EveryAnnouncedIsExpected ==
    phase = "pscch" /\ ~halted => \A s \in Sender : 0 \in announced[s] => s \in expected

\* "I did not expect two TBs from a same RNTI in the same slot": no abort of
\* AddSlExpectedTb is reached, and no TB is expected that nobody sends, also
\* when the UE missed the PSSCH of a slot because it transmitted itself, and
\* when entries of slots that have passed block the FIFO.
ReceiverNeverAborts == ~halted

\* The FIFO forgets no announcement that is ahead and holds nothing ahead that
\* was not announced; an entry whose slot has come and gone stays in it only
\* after announcements crossed.
FifoIsAhead ==
    /\ \A i \in 1..Len(rxGrants) :
         \/ rxGrants[i].sfn \in announced[rxGrants[i].rnti] \ {0}
         \/ rxGrants[i].sfn <= 0 /\ lost # {}
    /\ \A s \in Sender : \A x \in announced[s] \ {0} :
         \E i \in 1..Len(rxGrants) : rxGrants[i] = [rnti |-> s, sfn |-> x]
=============================================================================
