----------------------------- MODULE NrSlRlcUm ------------------------------
(***************************************************************************)
(* LteRlcUm on a sidelink bearer: the sender cuts SDUs into the PDUs that   *)
(* the MAC asks for, the receiver reorders the PDUs with a window over the  *)
(* sequence numbers (modulo SnMod) and the timer t-Reordering, and puts the *)
(* SDUs together again.  In between PDUs are lost, duplicated and overtaken *)
(* (by the retransmissions of different sidelink processes).                *)
(*                                                                         *)
(* A piece of an SDU is known by its first and last octet.                  *)
(***************************************************************************)
EXTENDS Integers, Sequences, SequencesExt, FiniteSetsExt

CONSTANTS
    Sdus,          \* SDUs of a run
    Sizes,         \* their sizes, in octets
    TxBytes,       \* sizes of transmission opportunities
    MaxBuffer,     \* m_maxTxBufferSize
    MaxLi,         \* largest length indicator (2047)
    SnMod,         \* number of sequence numbers (1024)
    Window,        \* m_windowSize
    MaxLate,       \* PDUs that may overtake a PDU
    MaxWaiting,    \* PDUs that arrive while t-Reordering runs
    MaxFaults      \* losses and duplicates of a run

ASSUME RlcAssumption ==
    /\ {Sdus, MaxBuffer, MaxLi, MaxLate, MaxWaiting, MaxFaults} \subseteq Nat
    /\ Sizes \subseteq Nat \ {0} /\ TxBytes \subseteq Nat
    /\ SnMod \in Nat \ {0} /\ Window \in 1 .. SnMod - 1

VARIABLES
    sent,          \* SDUs handed over so far
    size,          \* their sizes
    txBuffer,      \* m_txBuffer
    nextPdu,       \* PDUs built so far, m_sequenceNumber is this modulo SnMod
    air,           \* PDUs in flight
    rx,            \* state of the receiver, see InitRx
    waiting,       \* PDUs received since t-Reordering was started
    faults,        \* losses and duplicates so far
    last           \* last SDU delivered (history variable)

vars == <<sent, size, txBuffer, nextPdu, air, rx, waiting, faults, last>>

-----------------------------------------------------------------------------
(***************************************************************************)
(* The sender.  The status of a piece is that of LteRlcSduStatusTag.        *)
(***************************************************************************)
Piece(sdu, from, to, status) == [sdu |-> sdu, from |-> from, to |-> to, status |-> status]
SizeOf(p) == p.to - p.from + 1
BufferSize(b) == FoldLeft(LAMBDA acc, p : acc + SizeOf(p), 0, b)

Taken(p, n) ==
    Piece(p.sdu, p.from, p.from + n - 1,
          IF n = SizeOf(p) THEN p.status
          ELSE IF p.status = "FULL_SDU" THEN "FIRST_SEGMENT" ELSE "MIDDLE_SEGMENT")

\* Mutant: the status of what is given back is not changed.
GivenBackAsFull(p, n) ==
    IF n = SizeOf(p) THEN << >> ELSE <<Piece(p.sdu, p.from + n, p.to, p.status)>>

GivenBack(p, n) ==
    IF n = SizeOf(p) THEN << >> ELSE <<Piece(p.sdu, p.from + n, p.to, "LAST_SEGMENT")>>

(***************************************************************************)
(* The data field of a PDU of so many octets, and what stays in the buffer. *)
(* Room[i] octets are left when piece i is considered: every piece but the  *)
(* last one costs a length indicator, of two octets and one octet in turn.  *)
(* The pieces before number k, where the loop stops, are taken whole.       *)
(***************************************************************************)
DataField(buffer, bytes) ==
    LET Room[i \in DOMAIN buffer] ==
            IF i = 1 THEN bytes - 2
            ELSE Room[i - 1] - SizeOf(buffer[i - 1]) - (IF i % 2 = 0 THEN 2 ELSE 1)
        Stops(i) == \/ SizeOf(buffer[i]) > Room[i] \/ SizeOf(buffer[i]) > MaxLi
                    \/ Room[i] - SizeOf(buffer[i]) <= 2 \/ i = Len(buffer)
        k == Min({i \in DOMAIN buffer : Stops(i)})
        n == Min({SizeOf(buffer[k]), Room[k]})
    IN [data |-> Append(SubSeq(buffer, 1, k - 1), Taken(buffer[k], n)),
        left |-> GivenBack(buffer[k], n) \o SubSeq(buffer, k + 1, Len(buffer))]

Pdu(n, data) ==
    [n     |-> n, sn |-> n % SnMod,
     first |-> data[1].status \in {"FULL_SDU", "FIRST_SEGMENT"},
     last  |-> Last(data).status \in {"FULL_SDU", "LAST_SEGMENT"},
     data  |-> data]

-----------------------------------------------------------------------------
(***************************************************************************)
(* SequenceNumber10: comparisons are relative to the modulus base, which is *)
(* the lower edge of the reordering window.                                 *)
(***************************************************************************)
Offset(sn, base) == (sn - base) % SnMod
Below(a, b, base) == Offset(a, base) < Offset(b, base)
Base(r) == (r.vrUh - Window) % SnMod

IsInsideReorderingWindow(r, sn) == Offset(sn, Base(r)) < Window

InitRx ==
    [vrUr |-> 0, vrUx |-> 0, vrUh |-> 0,
     buffer |-> << >>,                       \* m_rxBuffer: sequence number to PDU
     timer |-> FALSE,                        \* t-Reordering is running
     firstPduRxed |-> FALSE,
     expected |-> 0,
     state |-> "WAITING_S0_FULL", keepS0 |-> << >>, sdus |-> << >>,
     up |-> << >>]                           \* SDUs delivered in this step

Forget(f, sns) == [s \in DOMAIN f \ sns |-> f[s]]

\* Mutant: missing sequence numbers are not noticed.
ReassembleIgnoringLosses(r, pdu) ==
    LET list == r.sdus \o [i \in DOMAIN pdu.data |-> <<pdu.data[i]>>]
        rest == IF r.state = "WAITING_SI_SF" /\ ~pdu.first
                THEN <<r.keepS0 \o Head(list)>> \o Tail(list)
                ELSE IF pdu.first THEN list ELSE Tail(list)
        keeps == ~pdu.last /\ rest /= << >>
    IN [r EXCEPT !.expected = (pdu.sn + 1) % SnMod,
                 !.sdus = << >>,
                 !.state = IF keeps THEN "WAITING_SI_SF" ELSE "WAITING_S0_FULL",
                 !.keepS0 = IF keeps THEN Last(rest) ELSE << >>,
                 !.up = @ \o (IF keeps THEN Front(rest) ELSE rest)]

(***************************************************************************)
(* NrSlReassembleAndDeliver.  What was kept of an SDU is continued by the   *)
(* first piece of the next PDU, or dropped when PDUs are missing.  The last *)
(* piece is kept when its SDU goes on.                                      *)
(***************************************************************************)
NrSlReassembleAndDeliver(r, pdu) ==
    LET list == r.sdus \o [i \in DOMAIN pdu.data |-> <<pdu.data[i]>>]
        joins == r.state = "WAITING_SI_SF" /\ pdu.sn = r.expected
        rest == IF joins THEN <<r.keepS0 \o Head(list)>> \o Tail(list)
                ELSE IF pdu.first THEN list ELSE Tail(list)
        keeps == ~pdu.last /\ rest /= << >>
    IN IF joins /\ pdu.first            \* "Transition not possible"
       THEN [r EXCEPT !.expected = (pdu.sn + 1) % SnMod, !.sdus = list]
       ELSE [r EXCEPT !.expected = (pdu.sn + 1) % SnMod,
                      !.sdus = << >>,
                      !.state = IF keeps THEN "WAITING_SI_SF" ELSE "WAITING_S0_FULL",
                      !.keepS0 = IF keeps THEN Last(rest) ELSE << >>,
                      !.up = @ \o (IF keeps THEN Front(rest) ELSE rest)]

Deliver(r, sn) ==
    IF sn \notin DOMAIN r.buffer THEN r
    ELSE [NrSlReassembleAndDeliver(r, r.buffer[sn]) EXCEPT !.buffer = Forget(@, {sn})]

\* What is in m_rxBuffer of the len numbers from low on, one after the other.
DeliverAll(r, low, len) ==
    LET Walk[k \in 0 .. len] ==
            IF k = 0 THEN r ELSE Deliver(Walk[k - 1], (low + k - 1) % SnMod)
    IN Walk[len]

\* m_rxBuffer is walked from the smallest number up to the first inside the window.
NrSlReassembleOutsideWindow(r) ==
    LET inside == {sn \in DOMAIN r.buffer : IsInsideReorderingWindow(r, sn)}
    IN DeliverAll(r, 0, IF inside = {} THEN SnMod ELSE Min(inside))

NrSlReassembleSnInterval(r, low, high, base) ==
    DeliverAll(r, low, Max({0, Offset(high, base) - Offset(low, base)}))

\* The first number from sn on that is not in the buffer; a uint16_t does not wrap.
FirstMissing(r, sn) == Min({m \in sn .. SnMod : m \notin DOMAIN r.buffer}) % SnMod
\* The same with SequenceNumber10, which does.
FirstMissingWrapped(r, sn) ==
    (sn + Min({d \in 0 .. SnMod : (sn + d) % SnMod \notin DOMAIN r.buffer})) % SnMod

Starts(r) == Below(r.vrUr, r.vrUh, Base(r))
Restart(r) == IF Starts(r) THEN [r EXCEPT !.timer = TRUE, !.vrUx = r.vrUh] ELSE r

-----------------------------------------------------------------------------
(***************************************************************************)
(* DoReceiveNrSlRlcPdu, in its parts.                                       *)
(***************************************************************************)
FirstPdu(r, sn) ==
    IF r.firstPduRxed THEN r
    ELSE [r EXCEPT !.vrUr = sn, !.vrUh = sn, !.expected = sn, !.firstPduRxed = TRUE]

\* Mutant: PDUs below VR(UR) are not discarded.
DiscardedIfReceived(r, sn) ==
    Below(r.vrUr, sn, Base(r)) /\ Below(sn, r.vrUh, Base(r)) /\ sn \in DOMAIN r.buffer

Discarded(r, sn) ==
    \/ Below(r.vrUr, sn, Base(r)) /\ Below(sn, r.vrUh, Base(r)) /\ sn \in DOMAIN r.buffer
    \/ Below(sn, r.vrUr, Base(r))

MoveWindow(r, sn) ==
    IF IsInsideReorderingWindow(r, sn) THEN r
    ELSE LET m == NrSlReassembleOutsideWindow([r EXCEPT !.vrUh = (sn + 1) % SnMod])
         IN IF IsInsideReorderingWindow(m, m.vrUr) THEN m
            ELSE [m EXCEPT !.vrUr = Base(m)]

AdvanceVrUr(r, base) ==
    IF r.vrUr \notin DOMAIN r.buffer THEN r
    ELSE LET new == FirstMissing(r, r.vrUr + 1)
         IN NrSlReassembleSnInterval([r EXCEPT !.vrUr = new], r.vrUr, new, base)

\* A timer that is stopped here may start again.
ReorderingTimer(r) ==
    LET stops == \/ ~Below(r.vrUr, r.vrUx, Base(r))
                 \/ ~IsInsideReorderingWindow(r, r.vrUx) /\ r.vrUx /= r.vrUh
    IN IF r.timer /\ ~stops THEN r ELSE Restart([r EXCEPT !.timer = FALSE])

DoReceiveNrSlRlcPdu(old, pdu) ==
    LET r == FirstPdu(old, pdu.sn)
        placed == [r EXCEPT !.buffer =
                      [s \in DOMAIN @ \cup {pdu.sn} |-> IF s = pdu.sn THEN pdu ELSE @[s]]]
        moved == MoveWindow(placed, pdu.sn)
        base == IF moved.vrUr = r.vrUr THEN Base(r) ELSE Base(moved)
    IN IF Discarded(r, pdu.sn) THEN r
       ELSE ReorderingTimer(AdvanceVrUr(moved, base))

\* Mutant: the timer does nothing when it expires.
NeverExpires(r) == [r EXCEPT !.timer = FALSE]

ExpireNrSlReorderingTimer(r) ==
    LET new == FirstMissingWrapped(r, r.vrUx)
    IN Restart(NrSlReassembleSnInterval([r EXCEPT !.vrUr = new, !.timer = FALSE],
                                        r.vrUr, new, Base(r)))

-----------------------------------------------------------------------------
Init ==
    /\ sent = 0 /\ size = << >> /\ txBuffer = << >> /\ nextPdu = 0 /\ air = << >>
    /\ rx = InitRx
    /\ waiting = 0 /\ faults = 0 /\ last = 0

SduOf(pieces) == pieces[1].sdu

\* What every step does to the history and to the SDUs of this step.
Delivered(r) ==
    /\ rx' = r
    /\ last' = IF r.up = << >> THEN last ELSE SduOf(Last(r.up))

DoTransmitNrSlPdcpPdu(n) ==
    /\ sent < Sdus
    /\ sent' = sent + 1
    /\ size' = Append(size, n)
    /\ txBuffer' = IF BufferSize(txBuffer) + n > MaxBuffer THEN txBuffer
                   ELSE Append(txBuffer, Piece(sent', 1, n, "FULL_SDU"))
    /\ Delivered([rx EXCEPT !.up = << >>])
    /\ UNCHANGED <<nextPdu, air, waiting, faults>>

\* A PDU is only built when there is room for data, and the channel is not full.
DoNotifyNrSlTxOpportunity(bytes) ==
    LET field == DataField(txBuffer, bytes) IN
    /\ bytes > 2 /\ txBuffer /= << >>
    /\ Len(air) <= MaxLate
    /\ txBuffer' = field.left
    /\ air' = Append(air, Pdu(nextPdu, field.data))
    /\ nextPdu' = nextPdu + 1
    /\ Delivered([rx EXCEPT !.up = << >>])
    /\ UNCHANGED <<sent, size, waiting, faults>>

Fault == faults < MaxFaults /\ faults' = faults + 1

Lose ==
    /\ air /= << >> /\ Fault
    /\ air' = Tail(air)
    /\ Delivered([rx EXCEPT !.up = << >>])
    /\ UNCHANGED <<sent, size, txBuffer, nextPdu, waiting>>

\* A PDU arrives, possibly before earlier ones, possibly once more later.
Receive(i, again) ==
    LET r == DoReceiveNrSlRlcPdu([rx EXCEPT !.up = << >>], air[i]) IN
    /\ i \in DOMAIN air
    /\ air[i].n - Head(air).n <= MaxLate
    /\ rx.timer => waiting < MaxWaiting
    /\ IF again THEN Fault /\ UNCHANGED air
       ELSE air' = RemoveAt(air, i) /\ UNCHANGED faults
    /\ Delivered(r)
    /\ waiting' = IF r.timer /\ rx.timer /\ r.vrUx = rx.vrUx THEN waiting + 1 ELSE 0
    /\ UNCHANGED <<sent, size, txBuffer, nextPdu>>

Expire ==
    /\ rx.timer
    /\ \E r \in {ExpireNrSlReorderingTimer([rx EXCEPT !.up = << >>])} : Delivered(r)
    /\ waiting' = 0
    /\ UNCHANGED <<sent, size, txBuffer, nextPdu, air, faults>>

Next ==
    \/ \E n \in Sizes : DoTransmitNrSlPdcpPdu(n)
    \/ \E bytes \in TxBytes : DoNotifyNrSlTxOpportunity(bytes)
    \/ Lose
    \/ \E i \in 1 .. MaxLate + 1, again \in BOOLEAN : Receive(i, again)
    \/ Expire

(***************************************************************************)
(* The timer is an event of the simulator; nothing else need happen.  This  *)
(* is WF_vars(Expire): Expire is enabled exactly while the timer is running. *)
(***************************************************************************)
TimerExpires == []<>(~rx.timer) \/ []<><<Expire>>_vars

Spec == Init /\ [][Next]_vars /\ TimerExpires

-----------------------------------------------------------------------------
\* Type invariant.
TypeOK ==
    /\ sent \in 0 .. Sdus /\ Len(size) = sent
    /\ BufferSize(txBuffer) <= MaxBuffer
    /\ {rx.vrUr, rx.vrUx, rx.vrUh, rx.expected} \cup DOMAIN rx.buffer \subseteq 0 .. SnMod - 1
    /\ rx.state \in {"WAITING_S0_FULL", "WAITING_SI_SF"}
    /\ rx.state = "WAITING_SI_SF" <=> rx.keepS0 /= << >>
    /\ waiting \in 0 .. MaxWaiting

(***************************************************************************)
(* Segmentation and reassembly fit: whatever is lost, duplicated or         *)
(* overtaken, an SDU that is delivered is one that was sent, from its first *)
(* octet to its last, never spliced from two.                               *)
(***************************************************************************)
SduIsIntact ==
    \A k \in DOMAIN rx.up :
        LET s == rx.up[k] IN
        /\ \A i \in DOMAIN s : s[i].sdu = s[1].sdu
        /\ s[1].from = 1 /\ Last(s).to = size[s[1].sdu]
        /\ \A i \in 1 .. Len(s) - 1 : s[i + 1].from = s[i].to + 1

(***************************************************************************)
(* The transitions NrSlReassembleAndDeliver calls not possible are not:     *)
(* no SDU is left over in m_sdusBuffer.                                     *)
(***************************************************************************)
NoImpossibleTransition == rx.sdus = << >>

Service == INSTANCE RlcUmService WITH
               up <- [k \in DOMAIN rx.up |-> SduOf(rx.up[k])]

(***************************************************************************)
(* Reordering implements the service of RLC UM: SDUs are delivered in the   *)
(* order in which they were sent and at most once, also when the sequence   *)
(* numbers wrap around.                                                     *)
(***************************************************************************)
ImplementsService == Service!Spec

(***************************************************************************)
(* What has been received is delivered in the end: t-Reordering runs as     *)
(* long as PDUs are waiting in the reception buffer.                        *)
(***************************************************************************)
BufferDrains == []<>(DOMAIN rx.buffer = {})

(***************************************************************************)
(* The comment in DoReceiveNrSlRlcPdu: VR(UR) is updated to the first       *)
(* sequence number that has not been received.                              *)
(***************************************************************************)
VrUrNotReceived == rx.vrUr \notin DOMAIN rx.buffer
=============================================================================
