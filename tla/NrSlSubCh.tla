----------------------------- MODULE NrSlSubCh -----------------------------
(***************************************************************************)
(* The sub-channels that NrSlUeMacSchedulerSimple assigns in the slots it   *)
(* has selected.  A slot is known by the set of its sub-channels that the   *)
(* UE MAC found occupied; `slots' maps each selected slot to that set.      *)
(***************************************************************************)
EXTENDS Integers, FiniteSets, FiniteSetsExt

CONSTANT TotalSubCh        \* number of sub-channels of the pool

ASSUME TotalSubChAssumption == TotalSubCh \in Nat \ {0}

SbCh == 0 .. TotalSubCh - 1

Span(start, len) == start .. start + len - 1

\* A slot in which every sub-channel is occupied counts as entirely free.
Avail(occupied) == IF SbCh \subseteq occupied THEN SbCh ELSE SbCh \ occupied

\* The longest run of neighbouring indexes.
LongestRun(avail) ==
    Max({len \in 1 .. TotalSubCh : \E s \in avail : Span(s, len) \subseteq avail})

\* Mutant: the largest of the runs is taken.
GetAvailSbChInfoMax(slots) ==
    Max({TotalSubCh} \cup {LongestRun(Avail(slots[s])) : s \in DOMAIN slots})

\* Contiguous sub-channels that every selected slot can offer.
GetAvailSbChInfo(slots) ==
    Min({TotalSubCh} \cup {LongestRun(Avail(slots[s])) : s \in DOMAIN slots})

(***************************************************************************)
(* The starts that end the random draw for one slot: the run that begins    *)
(* there has `len' available sub-channels.  When every slot is entirely     *)
(* available and one sub-channel is asked for, any index will do.           *)
(***************************************************************************)
RandSelSbChStart(occupied, numSubCh, len) ==
    IF numSubCh = TotalSubCh /\ len = 1
    THEN SbCh
    ELSE {s \in Avail(occupied) : Span(s, len) \subseteq Avail(occupied)}
=============================================================================
