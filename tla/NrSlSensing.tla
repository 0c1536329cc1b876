---------------------------- MODULE NrSlSensing ----------------------------
(***************************************************************************)
(* Sensing based resource selection of a UE: the SCI 1-A it hears (the      *)
(* list m_sensingData), the sliding sensing window, the candidate slots     *)
(* that are left after the transmissions announced in that window are       *)
(* excluded, and the sub-channels taken in the slots that are selected.     *)
(*                                                                         *)
(* `now' counts the slots without end; the code only sees the slot number   *)
(* of SfnSf::Normalize, in which the frame number has wrapped: SlotMod      *)
(* slots.  Differences of slot numbers are unsigned (uint64_t).             *)
(***************************************************************************)
EXTENDS NrSlSubCh, Sequences, SequencesExt

CONSTANTS
    Senders,      \* UEs whose SCI 1-A can be heard, at most one per slot each
    Sci,          \* what the SCI 1-A of a sender says
    Pool,         \* physical sidelink pool, a sequence of booleans
    SensWindLen,  \* sensing window T0, in slots
    Tproc0, T1, T2,
    PRsvpTx,      \* own reservation period, in slots
    CResel,       \* number of own periods looked at (m_cResel)
    ThresRsrp,    \* initial RSRP threshold, dBm
    ResourcePercentage,
    MaxTx,        \* transmissions of one TB
    SlotMod,      \* slot numbers before the frame number wraps
    FirstSlot, LastSlot  \* the slots of a run

ASSUME SensingAssumption ==
    /\ SensWindLen \in Nat /\ Tproc0 \in Nat /\ T1 \in Nat /\ T2 \in Nat
    /\ FirstSlot \in Nat /\ LastSlot \in Nat /\ FirstSlot <= LastSlot
    /\ PRsvpTx \in Nat \ {0} /\ CResel \in Nat \ {0}
    /\ SlotMod \in Nat \ {0} /\ MaxTx \in Nat \ {0}
    /\ T1 <= T2
    /\ ThresRsrp \in Int
    /\ ResourcePercentage \in 1 .. 100
    /\ Pool \in Seq(BOOLEAN) /\ Len(Pool) > 0 /\ SensWindLen < SlotMod
    /\ PRsvpTx % Len(Pool) = 0

\* Sci[u].tx lists the transmissions of one TB: the gap to the slot of the SCI
\* (0 for the first one) and the first sub-channel.
ASSUME SciAssumption ==
    \A u \in Senders :
        /\ Sci[u].rsvp \in Nat \ {0} /\ Sci[u].rsvp % Len(Pool) = 0
        /\ Sci[u].len \in Nat \ {0} /\ Sci[u].rsrp \in Int
        /\ \A k \in DOMAIN Sci[u].tx :
              /\ Sci[u].tx[k].gap \in Nat /\ Sci[u].tx[k].start \in Nat
              /\ Span(Sci[u].tx[k].start, Sci[u].len) \subseteq SbCh

VARIABLES
    now,          \* current slot
    sensingData,  \* m_sensingData: [at |-> slot, src |-> sender], oldest first
    heard,        \* the SCIs heard in the last SensWindLen slots (history variable)
    txOpps,       \* outcome of the last resource selection, see below
    alloc         \* sub-channels of the slots selected from txOpps

vars == <<now, sensingData, heard, txOpps, alloc>>

Entry == [at : FirstSlot .. LastSlot, src : Senders]

(***************************************************************************)
(* txOpps.kind is "idle" when no resources were asked for in this slot,     *)
(* "undefined" when the code read beyond the end of the list, otherwise     *)
(* "offered"; txOpps.slots maps each candidate to its occupied sub-channels.*)
(***************************************************************************)
Idle == [kind |-> "idle", slots |-> << >>]

-----------------------------------------------------------------------------
Normalize(n) == n % SlotMod
Minus(a, b) == (a - b) % (4 * SlotMod)

IsSidelinkSlot(n) == Pool[(Normalize(n) % Len(Pool)) + 1]

GetNrSlCommOpportunities(n) ==
    {s \in (n + T1) .. (n + T2) :
        Pool[((Normalize(n) + (s - n)) % Len(Pool)) + 1]}

-----------------------------------------------------------------------------
(***************************************************************************)
(* The sensing window.                                                      *)
(***************************************************************************)
DoReceiveSensingData(s, e) == Append(s, e)

Outdated(e, n) == Normalize(e.at) < Minus(Normalize(n), SensWindLen)

\* The list without the entries at the other positions.
AtPositions(s, I) ==
    LET upTo[j \in 0 .. Len(s)] ==
            IF j = 0 THEN << >>
            ELSE IF j \in I THEN Append(upTo[j - 1], s[j]) ELSE upTo[j - 1]
    IN upTo[Len(s)]

(***************************************************************************)
(* erase already moves the iterator on, and the loop moves it once more:    *)
(* one pass looks at every other entry and stops at the first that is in    *)
(* the window.                                                              *)
(***************************************************************************)
Seen(s) == {i \in DOMAIN s : i % 2 = 1}
InWindowAt(s, n) == {i \in Seen(s) : ~Outdated(s[i], n)}
Pass(s, n) ==
    AtPositions(s, {i \in DOMAIN s : i \notin Seen(s) \/ \E j \in InWindowAt(s, n) : j <= i})

\* Mutant: the edge of the window is a slot too late.
UpdateSensingWindowEarly(s, n) ==
    AtPositions(s, {i \in DOMAIN s : Normalize(s[i].at) > Minus(Normalize(n), SensWindLen)})

\* Mutant: nothing is erased.
UpdateSensingWindowNever(s, n) == s

\* Erasing the last entry leaves the iterator at the end, from where libstdc++'s
\* circular list takes it to the beginning again.
UpdateSensingWindow(s, n) ==
    LET Erase[t \in Seq(Entry)] ==
            IF InWindowAt(t, n) = {} /\ Len(t) % 2 = 1 THEN Erase[Pass(t, n)] ELSE Pass(t, n)
    IN Erase[s]

\* Entries too young to be used are taken off the back of a copy.
Young(e, n) == Minus(Normalize(n), Normalize(e.at)) <= Tproc0
Usable(s, n) == {i \in DOMAIN s : ~Young(s[i], n)}
Trimmed(s, n) == SubSeq(s, 1, Max(Usable(s, n)))

-----------------------------------------------------------------------------
(***************************************************************************)
(* The transmissions announced by a sensed SCI and the candidates left.     *)
(***************************************************************************)
SelWindLen == (T2 - T1) + 1

Periods(u) ==
    IF Sci[u].rsvp < SelWindLen
    THEN (SelWindLen + Sci[u].rsvp - 1) \div Sci[u].rsvp
    ELSE 1

TxOf(u, slot, k) ==
    [slot |-> slot + Sci[u].tx[k].gap, sb |-> Span(Sci[u].tx[k].start, Sci[u].len)]

\* Mutant: only the first of the periods is projected.
GetFutSlotsBasedOnSensFirst(e) ==
    {TxOf(e.src, e.at, k) : k \in DOMAIN Sci[e.src].tx}

GetFutSlotsBasedOnSens(e) ==
    {TxOf(e.src, e.at + i * Sci[e.src].rsvp, k) :
        i \in 0 .. Periods(e.src), k \in DOMAIN Sci[e.src].tx}

SameSlot(a, b) == Normalize(a) = Normalize(b)

\* The sub-channels of a candidate or one of its repetitions that an SCI announces.
Overlap(c, e) ==
    UNION {f.sb : f \in {g \in GetFutSlotsBasedOnSens(e) :
                            \E i \in 0 .. CResel - 1 : SameSlot(c + i * PRsvpTx, g.slot)}}

\* occupiedSbCh after the first k entries.
OccupiedBy(c, data, k) == UNION {Overlap(c, data[j]) : j \in 1 .. k}

\* Mutant: one occupied sub-channel is enough.
ExcludedByAny(c, data, thr) ==
    \E k \in DOMAIN data : /\ Overlap(c, data[k]) /= {}
                           /\ Sci[data[k].src].rsrp > thr

\* Mutant: the comparison with the threshold is turned around.
ExcludedBelow(c, data, thr) ==
    \E k \in DOMAIN data : /\ Overlap(c, data[k]) /= {}
                           /\ OccupiedBy(c, data, k) = SbCh
                           /\ Sci[data[k].src].rsrp < thr

(***************************************************************************)
(* The loops compare the RSRP at each transmission that meets the candidate *)
(* once all sub-channels are occupied.  All transmissions of an SCI have    *)
(* its RSRP and the set only grows, so the last one of each SCI decides.    *)
(***************************************************************************)
Excluded(c, data, thr) ==
    \E k \in DOMAIN data : /\ Overlap(c, data[k]) /= {}
                           /\ OccupiedBy(c, data, k) = SbCh
                           /\ Sci[data[k].src].rsrp > thr

CandidatesLeft(cands, data, thr) ==
    [c \in {d \in cands : ~Excluded(d, data, thr)} |-> OccupiedBy(c, data, Len(data))]

EnoughOf(left, total) ==
    100 * Cardinality(DOMAIN left) >= ResourcePercentage * total

(***************************************************************************)
(* The threshold grows by 3 dB per round.  The round after which it exceeds *)
(* 0 dBm is given up whatever it found.                                     *)
(***************************************************************************)
ExcludeByRsrp(cands, data) ==
    LET Left(k) == CandidatesLeft(cands, data, ThresRsrp + 3 * (k - 1))
        Rounds == {k \in 1 .. ((0 - ThresRsrp) \div 3) :
                      EnoughOf(Left(k), Cardinality(cands))}
    IN IF Rounds = {} THEN << >> ELSE Left(Min(Rounds))

Offer(slots) == [kind |-> "offered", slots |-> slots]

GetNrSlTxOpportunities(s, n) ==
    LET cands == GetNrSlCommOpportunities(n) IN
    IF cands = {} \/ s = << >> THEN Offer([c \in cands |-> {}])
    ELSE IF Usable(s, n) = {} THEN [kind |-> "undefined", slots |-> << >>]
    ELSE Offer(ExcludeByRsrp(cands, Trimmed(s, n)))

-----------------------------------------------------------------------------
\* The slots of a TB: all candidates, or MaxTx of them.
RandomlySelectSlots(slots) ==
    IF Cardinality(DOMAIN slots) > MaxTx THEN kSubset(MaxTx, DOMAIN slots)
    ELSE {DOMAIN slots}

Selected(slots, sel) == [s \in sel |-> slots[s]]

\* The sub-channels the scheduler may take: sets, one per selected slot.
DoNrSlAllocation(slots, sel) ==
    LET chosen == Selected(slots, sel)
        num == GetAvailSbChInfo(chosen)
    IN UNION { {[s \in sel |-> Span(start[s], len)] :
                   start \in {f \in [sel -> SbCh] : \A s \in sel :
                       f[s] \in RandSelSbChStart(chosen[s], num, len)}} :
               len \in 1 .. num }

Init ==
    /\ now = FirstSlot
    /\ sensingData = << >>
    /\ heard = {}
    /\ txOpps = Idle
    /\ alloc = << >>

\* Nothing is said of what follows an undefined access.
Defined == txOpps.kind /= "undefined"

RecentlyHeard == {e \in heard : now + 1 - e.at <= SensWindLen}

\* PhyPscchPduReceived: an SCI 1-A is decoded in the current slot.
HearSci(u) ==
    LET e == [at |-> now, src |-> u] IN
    /\ Defined
    /\ IsSidelinkSlot(now)
    /\ e \notin heard
    /\ sensingData' = DoReceiveSensingData(sensingData, e)
    /\ heard' = heard \cup {e}
    /\ UNCHANGED <<now, txOpps, alloc>>

\* The next slot is no sidelink slot: the sidelink part of the MAC does not run.
OtherSlot ==
    /\ Defined /\ now < LastSlot
    /\ ~IsSidelinkSlot(now + 1)
    /\ now' = now + 1
    /\ heard' = RecentlyHeard
    /\ txOpps' = Idle
    /\ alloc' = << >>
    /\ UNCHANGED sensingData

\* A sidelink slot in which no destination needs resources.
SidelinkSlot ==
    /\ Defined /\ now < LastSlot
    /\ IsSidelinkSlot(now + 1)
    /\ now' = now + 1
    /\ heard' = RecentlyHeard
    /\ sensingData' = UpdateSensingWindow(sensingData, now + 1)
    /\ txOpps' = Idle
    /\ alloc' = << >>

\* A sidelink slot in which resources are selected.  The scheduler allocates
\* nothing when there are no candidates or the RLC buffer is empty.
SelectingSlot ==
    /\ Defined /\ now < LastSlot
    /\ IsSidelinkSlot(now + 1)
    /\ now' = now + 1
    /\ heard' = RecentlyHeard
    /\ sensingData' = UpdateSensingWindow(sensingData, now + 1)
    /\ txOpps' = GetNrSlTxOpportunities(sensingData', now + 1)
    /\ \/ alloc' = << >>
       \/ /\ DOMAIN txOpps'.slots /= {}
          /\ \E sel \in RandomlySelectSlots(txOpps'.slots) :
                alloc' \in DoNrSlAllocation(txOpps'.slots, sel)

Next ==
    \/ \E u \in Senders : HearSci(u)
    \/ OtherSlot
    \/ SidelinkSlot
    \/ SelectingSlot

Spec == Init /\ [][Next]_vars

-----------------------------------------------------------------------------
(***************************************************************************)
(* Type invariant: the sensing data is a list of SCIs heard in slots that   *)
(* have passed, in the order of the slots, which is what lets               *)
(* UpdateSensingWindow stop at the first entry inside the window.           *)
(***************************************************************************)
TypeOK ==
    /\ now \in FirstSlot .. LastSlot
    /\ sensingData \in Seq(Entry)
    /\ \A i, j \in DOMAIN sensingData :
          i <= j => sensingData[i].at <= sensingData[j].at
    /\ heard \subseteq Entry
    /\ txOpps.kind \in {"idle", "offered", "undefined"}
    /\ DOMAIN txOpps.slots \subseteq (now + T1) .. (now + T2)
    /\ DOMAIN alloc \subseteq DOMAIN txOpps.slots

(***************************************************************************)
(* UpdateSensingWindow keeps what the sensing window covers: an SCI heard   *)
(* at most SensWindLen slots ago is still in m_sensingData.                 *)
(***************************************************************************)
WindowKept ==
    \A e \in heard : now - e.at <= SensWindLen => e \in ToSet(sensingData)

(***************************************************************************)
(* UpdateSensingWindow skips every other entry and runs in sidelink slots   *)
(* only, yet an outdated entry does not survive for long: it outlives the   *)
(* window by fewer sidelink slots than there are SCIs in a slot.            *)
(***************************************************************************)
StaleIsShortLived ==
    \A e \in ToSet(sensingData) :
        Cardinality({s \in e.at + SensWindLen + 1 .. now : IsSidelinkSlot(s)})
            < Cardinality(Senders)

(***************************************************************************)
(* The transmissions a sender announces for the slot s when its reservation *)
(* goes on: any number of periods after the SCI that was heard.             *)
(***************************************************************************)
Announced(e, s) ==
    UNION {Span(Sci[e.src].tx[k].start, Sci[e.src].len) :
              k \in {j \in DOMAIN Sci[e.src].tx :
                        \E i \in 0 .. LastSlot :
                            s = e.at + i * Sci[e.src].rsvp + Sci[e.src].tx[j].gap}}

\* The SCIs of the sensing window [n - T0, n - Tproc0), one period back at most.
InWindow ==
    {e \in heard : now - e.at \in Tproc0 + 1 .. Sci[e.src].rsvp}

(***************************************************************************)
(* Sensing serves its purpose: the scheduler takes no sub-channel in which  *)
(* a sender heard within the sensing window has announced a transmission,   *)
(* unless every sub-channel of that slot is announced (the case the         *)
(* scheduler treats as free).                                               *)
(***************************************************************************)
AnnouncedIsAvoided ==
    \A s \in DOMAIN alloc :
        LET taken == UNION {Announced(e, s) : e \in InWindow}
        IN alloc[s] \cap taken = {} \/ taken = SbCh

(***************************************************************************)
(* A candidate whose sub-channels are all taken by transmissions received   *)
(* with more than 0 dBm, which no threshold of GetNrSlTxOpportunities       *)
(* exceeds, is not offered.                                                 *)
(***************************************************************************)
StrongIsExcluded ==
    \A s \in DOMAIN txOpps.slots :
        SbCh /= UNION {Announced(e, s) : e \in {d \in InWindow : Sci[d.src].rsrp > 0}}

\* The SCIs the selection is based on, outdated ones that are still listed too.
Heeded == {e \in ToSet(sensingData) : now - e.at > Tproc0}

(***************************************************************************)
(* Sensing excludes no more than it has to: once the threshold loop of      *)
(* GetNrSlTxOpportunities has settled, a slot of the selection window that  *)
(* is not offered has every sub-channel announced, in the slot itself or in *)
(* one of its own repetitions, by the SCIs that were sensed, and one of     *)
(* those transmissions was received above the initial threshold.            *)
(***************************************************************************)
FreeIsOffered ==
    txOpps.kind = "offered" /\ DOMAIN txOpps.slots /= {} =>
        \A c \in GetNrSlCommOpportunities(now) \ DOMAIN txOpps.slots :
            LET Meets(e) == UNION {Announced(e, c + i * PRsvpTx) : i \in 0 .. CResel - 1}
            IN /\ SbCh = UNION {Meets(e) : e \in Heeded}
               /\ \E e \in Heeded : Meets(e) /= {} /\ Sci[e.src].rsrp > ThresRsrp

(***************************************************************************)
(* The random draw of RandSelSbChStart ends: whatever slots are selected    *)
(* and however many sub-channels up to the common number are assigned,      *)
(* every slot has a start that is accepted.                                 *)
(***************************************************************************)
DrawEnds ==
    DOMAIN txOpps.slots /= {} =>
        \A sel \in RandomlySelectSlots(txOpps.slots) :
            LET num == GetAvailSbChInfo(Selected(txOpps.slots, sel)) IN
            \A len \in 1 .. num : \A s \in sel :
                RandSelSbChStart(txOpps.slots[s], num, len) /= {}

(***************************************************************************)
(* Trimming the copy of the sensing data to [n - T0, n - Tproc0) is defined *)
(* whatever has been heard.                                                 *)
(***************************************************************************)
TrimIsDefined == txOpps.kind /= "undefined"

(***************************************************************************)
(* The comment at the maximum threshold: no candidate is left only when     *)
(* all available slots overlap with the sensed transmissions.               *)
(***************************************************************************)
NoneMeansAllOverlap ==
    txOpps.kind = "offered" /\ DOMAIN txOpps.slots = {} =>
        \A c \in GetNrSlCommOpportunities(now) :
            SbCh = UNION {Announced(e, c) : e \in ToSet(sensingData)}
=============================================================================
