--------------------------- MODULE NrSlOranProofs ---------------------------
(***************************************************************************)
(* Proofs about NrSlOran, for any number of destinations, processes, slots *)
(* and retransmissions, and any messages of the xApp.                      *)
(***************************************************************************)
EXTENDS NrSlOran, FiniteSetTheorems, TLAPS

----------------------------------------------------------------------------
(* The inductive invariant                                                 *)

\* Sets of allocations, what the xApp's grants look like while they wait for
\* their slots, and m_grantInfoXapp.
Allocations == UNION {[S -> Alloc] : S \in SUBSET Slots}

XappGrants ==
    [slResoReselCounter : {1}, nSelected : {NSelected}, tbTxCounter : {TbTxCounter},
     nrSlHarqId : HarqIds \cup {NoHarqId}, slotAllocations : Allocations]

Stores == UNION {[D -> XappGrants] : D \in SUBSET Dst}

Types ==
    /\ phase \in {"idle", "select", "transmit"}
    /\ todo \in SUBSET Dst
    /\ now \in 0..SimTime
    /\ xapp \in Stores
    /\ DOMAIN grantInfo \in SUBSET Dst
    /\ used \in SUBSET Dst
    /\ halted \in BOOLEAN

\* A process is free or belongs to a destination.
PoolOK(hq) ==
    /\ \A i, j \in 1..Len(hq.ids) : hq.ids[i] = hq.ids[j] => i = j
    /\ \A h \in HarqIds : IF IsHarqIdAvaiable(hq, h) THEN hq.pkt[h] = EmptyEntry
                          ELSE hq.pkt[h].dstL2Id \in Dst

Processes == harq \in HarqType /\ PoolOK(harq)

\* The grants of m_grantInfo that the transmission loop has still to visit.
Extracted ==
    IF phase = "select" THEN DOMAIN grantInfo ELSE IF phase = "transmit" THEN todo ELSE {}

\* Such a grant is as the xApp made it, has an allocation of its destination
\* for the current slot and, for a retransmission, a process of it.
Ready(d, g) ==
    /\ g \in XappGrants
    /\ now \in DOMAIN g.slotAllocations
    /\ g.slotAllocations[now].dstL2Id = d
    /\ g.slotAllocations[now].ndi \/ BelongsTo(harq, g.nrSlHarqId, d)

Pending == \A d \in Extracted : d \in DOMAIN grantInfo /\ Ready(d, grantInfo[d])

IInv == Types /\ Processes /\ Pending

----------------------------------------------------------------------------
(* Numbers and functions                                                   *)

\* A set of naturals that is not empty has a least element.
LEMMA Least ==
    ASSUME NEW T, T \subseteq Nat, T # {}
    PROVE  \E x \in T : \A y \in T : x <= y
  <1> DEFINE R == OpToRel(<, Nat)
  <1>1. \A a, b \in Nat : a < b => <<a, b>> \in R
    BY DEF OpToRel
  <1>2. IsWellFoundedOn(R, Nat)
    BY NatLessThanWellFounded
  <1> HIDE DEF R
  <1>3. PICK x \in T : \A y \in T : ~ (<<y, x>> \in R)
    BY <1>2, WFMin
  <1>4. \A y \in T : ~ (y < x)
    BY <1>1, <1>3
  <1>5. \A y \in T : x \in Int /\ y \in Int
    OBVIOUS
  <1>6. \A y \in T : x <= y
    BY <1>4, <1>5
  <1> QED
    BY <1>6

\* Induction over the natural numbers, as a property of sets.
LEMMA SetInduction ==
    ASSUME NEW S, 0 \in S, \A n \in Nat : n \in S => n + 1 \in S
    PROVE  Nat \subseteq S
  <1> DEFINE T == {n \in Nat : n \notin S}
  <1> SUFFICES ASSUME T # {} PROVE FALSE
    OBVIOUS
  <1>1. PICK x \in T : \A y \in T : x <= y
    BY Least
  <1>2. x # 0 /\ x - 1 \in Nat /\ x - 1 \notin T
    BY <1>1
  <1> QED
    BY <1>2

\* Sets of allocations and stores are functions over some of the slots and
\* some of the destinations.
LEMMA AllocationsAre ==
    \A a : a \in Allocations <=> (DOMAIN a \subseteq Slots /\ a \in [DOMAIN a -> Alloc])
  BY DEF Allocations

\* Likewise for m_grantInfoXapp.
LEMMA StoresAre ==
    \A x : x \in Stores <=> (DOMAIN x \subseteq Dst /\ x \in [DOMAIN x -> XappGrants])
  BY DEF Stores

\* Begin is the first slot of a set of allocations.
LEMMA FirstSlot ==
    ASSUME NEW a \in Allocations, DOMAIN a # {}
    PROVE  Begin(a) \in DOMAIN a /\ \A s \in DOMAIN a : Begin(a) <= s
  <1>1. DOMAIN a \subseteq Nat
    BY AllocationsAre, XappAssumption DEF Slots
  <1>2. \E x \in DOMAIN a : \A y \in DOMAIN a : x <= y
    BY <1>1, Least
  <1> QED
    BY <1>2 DEF Begin, Min

\* What emplace leaves in a map.
LEMMA Emplaced ==
    ASSUME NEW f, NEW k, NEW v
    PROVE  /\ DOMAIN Emplace(f, k, v) = DOMAIN f \cup {k}
           /\ \A x \in DOMAIN f : Emplace(f, k, v)[x] = f[x]
           /\ k \notin DOMAIN f => Emplace(f, k, v)[k] = v
  BY DEF Emplace

\* An allocation more is a set of allocations.
LEMMA EmplaceAllocation ==
    ASSUME NEW a \in Allocations, NEW s \in Slots, NEW v \in Alloc
    PROVE  Emplace(a, s, v) \in Allocations
  BY AllocationsAre DEF Emplace

\* A grant more is a store.
LEMMA EmplaceGrant ==
    ASSUME NEW x \in Stores, NEW d \in Dst, NEW g \in XappGrants
    PROVE  Emplace(x, d, g) \in Stores
  BY StoresAre DEF Emplace

\* What is left after allocations were erased.
LEMMA WithoutAllocation ==
    ASSUME NEW a \in Allocations, NEW S
    PROVE  /\ Without(a, S) \in Allocations
           /\ DOMAIN Without(a, S) = DOMAIN a \ S
           /\ \A s \in DOMAIN a \ S : Without(a, S)[s] = a[s]
  BY AllocationsAre DEF Without

\* A grant whose allocations or process are changed.
LEMMA ChangedGrant ==
    ASSUME NEW g \in XappGrants, NEW a \in Allocations, NEW h \in HarqIds
    PROVE  /\ [g EXCEPT !.slotAllocations = a] \in XappGrants
           /\ [g EXCEPT !.slotAllocations = a].slotAllocations = a
           /\ [g EXCEPT !.nrSlHarqId = h] \in XappGrants
           /\ [g EXCEPT !.nrSlHarqId = h].slotAllocations = g.slotAllocations
           /\ [g EXCEPT !.nrSlHarqId = h].nrSlHarqId = h
  BY DEF XappGrants

\* One pass of the loop of V2xE2Scheduling keeps m_grantInfoXapp a store.
LEMMA StoreTyped ==
    ASSUME NEW x \in Stores, NEW g \in XappGrants, NEW s \in DOMAIN g.slotAllocations
    PROVE  StoreAllocation(x, g, s) \in Stores
  <1> DEFINE a == g.slotAllocations[s]
             d == a.dstL2Id
             later == {t \in Slots : s < t}
             old == x[d].slotAllocations
             e == [x[d] EXCEPT !.slotAllocations = Emplace(Without(old, later), s, a)]
             f == g.slotAllocations[Begin(g.slotAllocations)].dstL2Id
  <1>1. g.slotAllocations \in Allocations
    BY DEF XappGrants
  <1>2. s \in Slots /\ a \in Alloc /\ d \in Dst
    BY <1>1, AllocationsAre DEF Alloc
  <1>3. CASE d \in DOMAIN x
    <2>1. x[d] \in XappGrants
      BY <1>3, StoresAre
    <2>2. old \in Allocations
      BY <2>1 DEF XappGrants
    <2>3. e \in XappGrants
      BY <1>2, <2>1, <2>2, EmplaceAllocation, WithoutAllocation DEF XappGrants
    <2>4. StoreAllocation(x, g, s) = [x EXCEPT ![d] = e]
      BY <1>3 DEF StoreAllocation
    <2> HIDE DEF e, d
    <2> QED
      BY <2>3, <2>4, <1>3, StoresAre
  <1>4. CASE d \notin DOMAIN x
    <2>1. Begin(g.slotAllocations) \in DOMAIN g.slotAllocations
      BY <1>1, FirstSlot
    <2>2. f \in Dst
      BY <1>1, <2>1, AllocationsAre DEF Alloc
    <2>3. StoreAllocation(x, g, s) = Emplace(x, f, g)
      BY <1>4 DEF StoreAllocation
    <2> HIDE DEF f
    <2> QED
      BY <2>2, <2>3, EmplaceGrant
  <1> QED
    BY <1>3, <1>4

\* The passes of the loop, one per slot that the message may have: there is
\* such a sequence of stores, and V2xE2Scheduling returns its last one.
Passes(p, x, g, n) ==
    /\ p \in [0..n -> Stores]
    /\ p[0] = x
    /\ \A s \in 1..n : p[s] = IF s \in DOMAIN g.slotAllocations
                             THEN StoreAllocation(p[s - 1], g, s) ELSE p[s - 1]

\* The loop can be run for any number of slots.
LEMMA PassesExist ==
    ASSUME NEW x \in Stores, NEW g \in XappGrants
    PROVE  \A n \in Nat : \E p : Passes(p, x, g, n)
  <1> DEFINE S == {n \in Nat : \E p : Passes(p, x, g, n)}
  <1>1. 0 \in S
    <2>1. Passes([s \in 0..0 |-> x], x, g, 0)
      BY DEF Passes
    <2> QED
      BY <2>1
  <1>2. ASSUME NEW n \in Nat, n \in S PROVE n + 1 \in S
    <2>1. PICK p : Passes(p, x, g, n)
      BY <1>2
    <2> DEFINE v == IF n + 1 \in DOMAIN g.slotAllocations
                    THEN StoreAllocation(p[n], g, n + 1) ELSE p[n]
               q == [s \in 0..(n + 1) |-> IF s = n + 1 THEN v ELSE p[s]]
    <2>2. p[n] \in Stores
      BY <2>1 DEF Passes
    <2>3. v \in Stores
      BY <2>2, StoreTyped
    <2> HIDE DEF v
    <2>4. q \in [0..(n + 1) -> Stores] /\ q[0] = x
      BY <2>1, <2>3 DEF Passes
    <2>5. \A s \in 1..n : q[s] = p[s] /\ q[s - 1] = p[s - 1]
      BY <2>1
    <2>6. q[n + 1] = v /\ q[n] = p[n] /\ (n + 1) - 1 = n
      OBVIOUS
    <2> HIDE DEF q
    <2>7. \A s \in 1..(n + 1) : q[s] = IF s \in DOMAIN g.slotAllocations
                                     THEN StoreAllocation(q[s - 1], g, s) ELSE q[s - 1]
      <3> TAKE s \in 1..(n + 1)
      <3>1. CASE s = n + 1
        BY <2>6, <3>1 DEF v
      <3>2. CASE s # n + 1
        <4>1. s \in 1..n
          BY <3>2
        <4> QED
          BY <2>1, <2>5, <4>1 DEF Passes
      <3> QED
        BY <3>1, <3>2
    <2>8. Passes(q, x, g, n + 1)
      BY <2>4, <2>7 DEF Passes
    <2> QED
      BY <2>8
  <1> HIDE DEF S
  <1>3. Nat \subseteq S
    BY <1>1, <1>2, SetInduction
  <1> QED
    BY <1>3 DEF S

\* V2xE2Scheduling is what its loop leaves.
LEMMA SchedulingUnfolds ==
    ASSUME NEW x \in Stores, NEW g \in XappGrants
    PROVE  \E p : Passes(p, x, g, SimTime) /\ V2xE2Scheduling(x, g) = p[SimTime]
  <1> DEFINE F(p) == [s \in 0..SimTime |->
                         IF s = 0 THEN x
                         ELSE IF s \in DOMAIN g.slotAllocations
                              THEN StoreAllocation(p[s - 1], g, s)
                              ELSE p[s - 1]]
             pass == CHOOSE p : p = F(p)
  <1>1. SimTime \in Nat
    BY XappAssumption
  <1>2. PICK p : Passes(p, x, g, SimTime)
    BY <1>1, PassesExist
  <1>3. p = F(p)
    BY <1>1, <1>2 DEF Passes
  <1>4. pass = F(pass)
    BY <1>3
  <1>5. V2xE2Scheduling(x, g) = pass[SimTime]
    BY DEF V2xE2Scheduling
  <1> HIDE DEF pass
  <1>6. Passes(pass, x, g, SimTime)
    <2> DEFINE S == {n \in Nat : n <= SimTime => pass[n] \in Stores}
    <2>1. 0 \in S
      BY <1>1, <1>4
    <2>2. ASSUME NEW n \in Nat, n \in S PROVE n + 1 \in S
      <3> SUFFICES ASSUME n + 1 <= SimTime PROVE pass[n + 1] \in Stores
        OBVIOUS
      <3>1. pass[n] \in Stores
        BY <1>1, <2>2
      <3>2. pass[n + 1] = IF n + 1 \in DOMAIN g.slotAllocations
                          THEN StoreAllocation(pass[n], g, n + 1) ELSE pass[n]
        BY <1>1, <1>4
      <3> QED
        BY <3>1, <3>2, StoreTyped
    <2>3. Nat \subseteq S
      BY <2>1, <2>2, SetInduction
    <2>4. \A s \in 0..SimTime : pass[s] \in Stores
      BY <1>1, <2>3
    <2> QED
      BY <1>1, <1>4, <2>4 DEF Passes
  <1> QED
    BY <1>5, <1>6

----------------------------------------------------------------------------
(* The HARQ entity                                                         *)

\* Process ids are numbers and NoHarqId is none of them.
LEMMA HarqIdsFacts ==
    HarqIds \subseteq Nat /\ NoHarqId \notin HarqIds /\ 0 \in HarqIds
  BY ProcessAssumption DEF HarqIds, NoHarqId

\* Assigning the first free process.
LEMMA HarqTake ==
    ASSUME NEW hq \in HarqType, PoolOK(hq), Len(hq.ids) > 0, NEW d \in Dst
    PROVE  LET h == NextHarqId(hq)
               q == AssignNrSlHarqProcessId(hq, d)
           IN  /\ h \in HarqIds /\ q \in HarqType /\ PoolOK(q)
               /\ q.ids = Tail(hq.ids) /\ hq.pkt[h] = EmptyEntry
               /\ ~IsHarqIdAvaiable(q, h)
               /\ q.pkt[h].dstL2Id = d
               /\ q.pkt[h].lcidList = {} /\ q.pkt[h].pktBurst = 0
               /\ \A k \in HarqIds \ {h} : /\ q.pkt[k] = hq.pkt[k]
                                           /\ IsHarqIdAvaiable(q, k) <=> IsHarqIdAvaiable(hq, k)
  <1> DEFINE h == NextHarqId(hq)
             q == AssignNrSlHarqProcessId(hq, d)
             ids == hq.ids
             L == Len(ids)
  <1>1. ids \in Seq(HarqIds) /\ hq.pkt \in [HarqIds -> HarqEntries]
    BY DEF HarqType
  <1>2. L \in Nat /\ L > 0 /\ ids # <<>>
    BY <1>1
  <1>3. h = ids[1] /\ h \in HarqIds
    BY <1>1, <1>2 DEF NextHarqId
  <1>4. /\ Tail(ids) \in Seq(HarqIds) /\ Len(Tail(ids)) = L - 1
        /\ \A k \in 1..(L - 1) : Tail(ids)[k] = ids[k + 1]
    BY <1>1, <1>2
  <1>5. /\ q.ids = Tail(ids) /\ q.pkt = [hq.pkt EXCEPT ![h].dstL2Id = d]
        /\ q = [ids |-> q.ids, pkt |-> q.pkt]
    BY DEF AssignNrSlHarqProcessId
  <1>6. IsHarqIdAvaiable(hq, h)
    BY <1>2, <1>3 DEF IsHarqIdAvaiable
  <1>7. hq.pkt[h] = EmptyEntry
    BY <1>3, <1>6 DEF PoolOK
  <1> HIDE DEF h, q
  <1>8. /\ q.pkt[h].dstL2Id = d /\ q.pkt[h].lcidList = {} /\ q.pkt[h].pktBurst = 0
        /\ q.pkt[h] \in HarqEntries
    <2>1. q.pkt[h] = [EmptyEntry EXCEPT !.dstL2Id = d]
      BY <1>1, <1>3, <1>5, <1>7
    <2>2. q.pkt[h] = [dstL2Id |-> d, lcidList |-> {}, pktBurst |-> 0]
      BY <2>1 DEF EmptyEntry
    <2> QED
      BY <2>2 DEF HarqEntries
  <1>9. \A k \in HarqIds : k # h => q.pkt[k] = hq.pkt[k]
    BY <1>1, <1>5
  <1>10. q.pkt \in [HarqIds -> HarqEntries]
    <2>1. q.pkt = [k \in HarqIds |-> q.pkt[k]]
      BY <1>1, <1>5
    <2>2. \A k \in HarqIds : q.pkt[k] \in HarqEntries
      BY <1>1, <1>8, <1>9
    <2> QED
      BY <2>1, <2>2
  <1>11. q \in HarqType
    BY <1>4, <1>5, <1>10 DEF HarqType
  <1>12. \A i, j \in 1..L : ids[i] = ids[j] => i = j
    BY DEF PoolOK
  <1>13. \A i, j \in 1..(L - 1) : q.ids[i] = q.ids[j] => i = j
    <2>1. \A i \in 1..(L - 1) : i + 1 \in 1..L
      BY <1>2
    <2>2. \A i, j \in 1..(L - 1) : q.ids[i] = q.ids[j] => i + 1 = j + 1
      BY <1>4, <1>5, <1>12, <2>1
    <2> QED
      BY <1>2, <2>2
  <1>14. ~IsHarqIdAvaiable(q, h)
    <2> SUFFICES ASSUME NEW i \in 1..(L - 1), q.ids[i] = h PROVE FALSE
      BY <1>4, <1>5 DEF IsHarqIdAvaiable
    <2>1. i + 1 \in 1..L /\ 1 \in 1..L /\ ids[i + 1] = ids[1]
      BY <1>2, <1>3, <1>4, <1>5
    <2>2. i + 1 = 1
      BY <1>12, <2>1
    <2> QED
      BY <2>2
  <1>15. \A k \in HarqIds : k # h => (IsHarqIdAvaiable(q, k) <=> IsHarqIdAvaiable(hq, k))
    <2> TAKE k \in HarqIds
    <2> HAVE k # h
    <2>1. ASSUME IsHarqIdAvaiable(q, k) PROVE IsHarqIdAvaiable(hq, k)
      <3>1. PICK i \in 1..(L - 1) : q.ids[i] = k
        BY <1>4, <1>5, <2>1 DEF IsHarqIdAvaiable
      <3>2. i + 1 \in 1..L /\ ids[i + 1] = k
        BY <1>2, <1>4, <1>5, <3>1
      <3> QED
        BY <3>2 DEF IsHarqIdAvaiable
    <2>2. ASSUME IsHarqIdAvaiable(hq, k) PROVE IsHarqIdAvaiable(q, k)
      <3>1. PICK i \in 1..L : ids[i] = k
        BY <2>2 DEF IsHarqIdAvaiable
      <3>2. i # 1
        BY <1>3, <3>1
      <3>3. i - 1 \in 1..(L - 1) /\ (i - 1) + 1 = i
        BY <1>2, <3>2
      <3>4. q.ids[i - 1] = k
        BY <1>4, <1>5, <3>1, <3>3
      <3> QED
        BY <1>4, <1>5, <3>3, <3>4 DEF IsHarqIdAvaiable
    <2> QED
      BY <2>1, <2>2
  <1>16. \A k \in HarqIds : IF IsHarqIdAvaiable(q, k) THEN q.pkt[k] = EmptyEntry
                            ELSE q.pkt[k].dstL2Id \in Dst
    <2> TAKE k \in HarqIds
    <2>1. CASE k = h
      BY <1>8, <1>14, <2>1
    <2>2. CASE k # h
      BY <1>9, <1>15, <2>2 DEF PoolOK
    <2> QED
      BY <2>1, <2>2
  <1>17. PoolOK(q)
    BY <1>4, <1>5, <1>13, <1>16 DEF PoolOK
  <1> QED
    BY <1>3, <1>5, <1>7, <1>8, <1>9, <1>11, <1>14, <1>15, <1>17 DEF h, q

\* Adding a packet to a process that is taken.
LEMMA HarqAdd ==
    ASSUME NEW hq \in HarqType, PoolOK(hq), NEW h \in HarqIds, ~IsHarqIdAvaiable(hq, h),
           NEW lc \in Nat
    PROVE  LET q == AddPacket(hq, h, lc)
           IN  /\ q \in HarqType /\ PoolOK(q) /\ q.ids = hq.ids
               /\ q.pkt[h].dstL2Id = hq.pkt[h].dstL2Id
               /\ q.pkt[h].lcidList = hq.pkt[h].lcidList \cup {lc}
               /\ q.pkt[h].pktBurst = hq.pkt[h].pktBurst + 1
               /\ \A k \in HarqIds \ {h} : q.pkt[k] = hq.pkt[k]
  <1> DEFINE q == AddPacket(hq, h, lc)
             e == hq.pkt[h]
             f == [dstL2Id  |-> e.dstL2Id, lcidList |-> e.lcidList \cup {lc},
                   pktBurst |-> e.pktBurst + 1]
  <1>1. hq.ids \in Seq(HarqIds) /\ hq.pkt \in [HarqIds -> HarqEntries]
    BY DEF HarqType
  <1>2. e \in HarqEntries
    BY <1>1
  <1>3. f \in HarqEntries
    BY <1>2 DEF HarqEntries
  <1>4. /\ f.dstL2Id = e.dstL2Id /\ f.lcidList = e.lcidList \cup {lc}
        /\ f.pktBurst = e.pktBurst + 1
    OBVIOUS
  <1>5. q.ids = hq.ids /\ q.pkt = [hq.pkt EXCEPT ![h] = f] /\ q = [ids |-> q.ids, pkt |-> q.pkt]
    BY DEF AddPacket
  <1> HIDE DEF f, q
  <1>6. /\ q.pkt[h] = f /\ q.pkt \in [HarqIds -> HarqEntries]
        /\ \A k \in HarqIds : k # h => q.pkt[k] = hq.pkt[k]
    BY <1>1, <1>3, <1>5
  <1>7. q \in HarqType
    BY <1>1, <1>5, <1>6 DEF HarqType
  <1>8. \A k \in HarqIds : IsHarqIdAvaiable(q, k) <=> IsHarqIdAvaiable(hq, k)
    BY <1>5 DEF IsHarqIdAvaiable
  <1>9. \A k \in HarqIds : IF IsHarqIdAvaiable(q, k) THEN q.pkt[k] = EmptyEntry
                           ELSE q.pkt[k].dstL2Id \in Dst
    <2> TAKE k \in HarqIds
    <2>1. CASE k = h
      BY <1>4, <1>6, <1>8, <2>1 DEF PoolOK
    <2>2. CASE k # h
      BY <1>6, <1>8, <2>2 DEF PoolOK
    <2> QED
      BY <2>1, <2>2
  <1>10. PoolOK(q)
    BY <1>5, <1>9 DEF PoolOK
  <1> QED
    BY <1>4, <1>5, <1>6, <1>7, <1>10 DEF q

\* The release of a process of a destination.
LEMMA HarqRelease ==
    ASSUME NEW hq \in HarqType, PoolOK(hq), NEW d \in Dst, NEW h, BelongsTo(hq, h, d)
    PROVE  LET q == RecvNrSlHarqFeedback(hq, h)
           IN  /\ q \in HarqType /\ PoolOK(q)
               /\ q.ids = Append(hq.ids, h)
               /\ IsHarqIdAvaiable(q, h)
               /\ \A k \in HarqIds \ {h} : /\ q.pkt[k] = hq.pkt[k]
                                           /\ IsHarqIdAvaiable(q, k) <=> IsHarqIdAvaiable(hq, k)
  <1> DEFINE q == RecvNrSlHarqFeedback(hq, h)
             ids == hq.ids
             L == Len(ids)
  <1>0. h \in HarqIds /\ hq.pkt[h].dstL2Id = d
    BY DEF BelongsTo
  <1>1. ids \in Seq(HarqIds) /\ hq.pkt \in [HarqIds -> HarqEntries] /\ L \in Nat
    BY DEF HarqType
  <1>2. /\ q.ids = Append(ids, h) /\ q.pkt = [hq.pkt EXCEPT ![h] = EmptyEntry]
        /\ q = [ids |-> q.ids, pkt |-> q.pkt]
    BY DEF RecvNrSlHarqFeedback
  <1> HIDE DEF q
  <1>3. /\ q.ids \in Seq(HarqIds) /\ Len(q.ids) = L + 1 /\ q.ids[L + 1] = h
        /\ \A k \in 1..L : q.ids[k] = ids[k]
    BY <1>0, <1>1, <1>2
  <1>4. EmptyEntry \in HarqEntries /\ EmptyEntry.dstL2Id = NoDst
    BY DEF EmptyEntry, HarqEntries
  <1>5. /\ q.pkt \in [HarqIds -> HarqEntries] /\ q.pkt[h] = EmptyEntry
        /\ \A k \in HarqIds : k # h => q.pkt[k] = hq.pkt[k]
    BY <1>0, <1>1, <1>2, <1>4
  <1>6. q \in HarqType
    BY <1>2, <1>3, <1>5 DEF HarqType
  <1>8. ~IsHarqIdAvaiable(hq, h)
    BY <1>0, <1>4, DstAssumption DEF PoolOK
  <1>9. IsHarqIdAvaiable(q, h)
    <2>1. L + 1 \in 1..(L + 1)
      BY <1>1
    <2> QED
      BY <1>3, <2>1 DEF IsHarqIdAvaiable
  <1>10. \A k \in HarqIds : k # h => (IsHarqIdAvaiable(q, k) <=> IsHarqIdAvaiable(hq, k))
    <2>1. \A i \in 1..(L + 1) : i \in 1..L \/ i = L + 1
      BY <1>1
    <2>2. \A i \in 1..L : i \in 1..(L + 1)
      BY <1>1
    <2> QED
      BY <1>3, <2>1, <2>2 DEF IsHarqIdAvaiable
  <1>11. \A i, j \in 1..(L + 1) : q.ids[i] = q.ids[j] => i = j
    <2>1. \A i \in 1..(L + 1) : i \in 1..L \/ i = L + 1
      BY <1>1
    <2>2. \A i \in 1..L : q.ids[i] # h
      BY <1>3, <1>8 DEF IsHarqIdAvaiable
    <2>3. \A i, j \in 1..L : q.ids[i] = q.ids[j] => i = j
      BY <1>3 DEF PoolOK
    <2> QED
      BY <1>3, <2>1, <2>2, <2>3
  <1>12. \A k \in HarqIds : IF IsHarqIdAvaiable(q, k) THEN q.pkt[k] = EmptyEntry
                            ELSE q.pkt[k].dstL2Id \in Dst
    <2> TAKE k \in HarqIds
    <2>1. CASE k = h
      BY <1>5, <1>9, <2>1
    <2>2. CASE k # h
      BY <1>5, <1>10, <2>2 DEF PoolOK
    <2> QED
      BY <2>1, <2>2
  <1>13. PoolOK(q)
    BY <1>3, <1>11, <1>12 DEF PoolOK
  <1> QED
    BY <1>2, <1>5, <1>6, <1>9, <1>10, <1>13 DEF q

\* New data for a destination: a process that was free is taken and filled
\* and, without retransmissions, released at once.  No process of another
\* destination is touched.
LEMMA HarqNew ==
    ASSUME NEW hq \in HarqType, PoolOK(hq), Len(hq.ids) > 0, NEW d \in Dst, NEW txed \in BOOLEAN
    PROVE  LET h == NextHarqId(hq)
               assigned == AssignNrSlHarqProcessId(hq, d)
               filled   == IF txed THEN AddPacket(assigned, h, LcId) ELSE assigned
           IN  /\ h \in HarqIds
               /\ filled \in HarqType /\ PoolOK(filled)
               /\ filled.ids = Tail(hq.ids)
               /\ BelongsTo(filled, h, d)
               /\ txed => OnePduPerLc(filled, h)
               /\ \A k \in HarqIds, e \in Dst : BelongsTo(hq, k, e) => BelongsTo(filled, k, e)
               /\ \A k \in HarqIds : IsHarqIdAvaiable(hq, k) => k = h \/ IsHarqIdAvaiable(filled, k)
  <1> DEFINE h == NextHarqId(hq)
             assigned == AssignNrSlHarqProcessId(hq, d)
             added == AddPacket(assigned, h, LcId)
             filled == IF txed THEN added ELSE assigned
  <1>1. /\ h \in HarqIds /\ assigned \in HarqType /\ PoolOK(assigned)
        /\ assigned.ids = Tail(hq.ids) /\ hq.pkt[h] = EmptyEntry
        /\ ~IsHarqIdAvaiable(assigned, h)
        /\ assigned.pkt[h].dstL2Id = d
        /\ assigned.pkt[h].lcidList = {} /\ assigned.pkt[h].pktBurst = 0
        /\ \A k \in HarqIds \ {h} : /\ assigned.pkt[k] = hq.pkt[k]
                                    /\ IsHarqIdAvaiable(assigned, k) <=> IsHarqIdAvaiable(hq, k)
    BY HarqTake
  <1> HIDE DEF h, assigned
  <1>2. /\ added \in HarqType /\ PoolOK(added) /\ added.ids = assigned.ids
        /\ added.pkt[h].dstL2Id = assigned.pkt[h].dstL2Id
        /\ added.pkt[h].lcidList = assigned.pkt[h].lcidList \cup {LcId}
        /\ added.pkt[h].pktBurst = assigned.pkt[h].pktBurst + 1
        /\ \A k \in HarqIds \ {h} : added.pkt[k] = assigned.pkt[k]
    <2>1. LcId \in Nat
      BY DEF LcId
    <2> QED
      BY <1>1, <2>1, HarqAdd
  <1> HIDE DEF added
  <1>3. /\ filled \in HarqType /\ PoolOK(filled)
        /\ filled.ids = Tail(hq.ids)
        /\ filled.pkt[h].dstL2Id = d
        /\ \A k \in HarqIds \ {h} : filled.pkt[k] = hq.pkt[k]
    BY <1>1, <1>2
  <1>4. ASSUME txed PROVE OnePduPerLc(filled, h)
    <2>1. filled.pkt[h].lcidList = {LcId} /\ filled.pkt[h].pktBurst = 1
      BY <1>1, <1>2, <1>4
    <2> QED
      BY <2>1, FS_Singleton DEF OnePduPerLc
  <1>5. \A k \in HarqIds, e \in Dst : BelongsTo(hq, k, e) => BelongsTo(filled, k, e)
    <2> SUFFICES ASSUME NEW k \in HarqIds, NEW e \in Dst, BelongsTo(hq, k, e)
                 PROVE  BelongsTo(filled, k, e)
      OBVIOUS
    <2>1. k # h
      BY <1>1, DstAssumption DEF BelongsTo, EmptyEntry
    <2> QED
      BY <1>3, <2>1 DEF BelongsTo
  <1>6. \A k \in HarqIds : IsHarqIdAvaiable(hq, k) => k = h \/ IsHarqIdAvaiable(filled, k)
    <2>0. assigned.ids = filled.ids
      BY <1>1, <1>3
    <2> HIDE DEF filled
    <2>1. \A k \in HarqIds : IsHarqIdAvaiable(assigned, k) <=> IsHarqIdAvaiable(filled, k)
      BY <2>0 DEF IsHarqIdAvaiable
    <2> QED
      BY <1>1, <2>1
  <1> HIDE DEF filled
  <1> QED
    BY <1>1, <1>3, <1>4, <1>5, <1>6 DEF h, filled, assigned, added, BelongsTo

----------------------------------------------------------------------------
(* The inductive invariant holds                                           *)

\* The invariant holds initially.
LEMMA InitIInv == Init => IInv
  <1> SUFFICES ASSUME Init PROVE IInv
    OBVIOUS
  <1>1. Types
    <2>1. xapp \in Stores
      <3>1. DOMAIN xapp = {} /\ xapp \in [{} -> XappGrants]
        BY DEF Init
      <3> QED
        BY <3>1, StoresAre
    <2>2. grantInfo = <<>>
      BY DEF Init
    <2>3. DOMAIN grantInfo = {}
      BY <2>2
    <2>4. phase \in {"idle", "select", "transmit"} /\ halted \in BOOLEAN
      BY DEF Init
    <2>5. todo \in SUBSET Dst /\ used \in SUBSET Dst /\ now = 0
      BY DEF Init
    <2> QED
      BY <2>1, <2>3, <2>4, <2>5, XappAssumption DEF Types
  <1>2. Processes
    <2> DEFINE n == NumSidelinkProcess
               s == [i \in 1..n |-> i - 1]
    <2>1. n \in Nat /\ n > 0
      BY ProcessAssumption
    <2>2. s \in Seq(HarqIds) /\ Len(s) = n /\ \A i \in 1..n : s[i] = i - 1
      BY <2>1 DEF HarqIds
    <2>3. harq.ids = s /\ harq.pkt = [h \in HarqIds |-> EmptyEntry]
          /\ harq = [ids |-> harq.ids, pkt |-> harq.pkt]
      BY DEF Init, InitHarqBuffer
    <2> HIDE DEF s
    <2>4. EmptyEntry \in HarqEntries
      BY DEF EmptyEntry, HarqEntries
    <2>5. harq \in HarqType
      BY <2>2, <2>3, <2>4 DEF HarqType
    <2>6. \A h \in HarqIds : IsHarqIdAvaiable(harq, h)
      <3> TAKE h \in HarqIds
      <3>1. h + 1 \in 1..n /\ (h + 1) - 1 = h
        BY <2>1 DEF HarqIds
      <3> QED
        BY <2>2, <2>3, <3>1 DEF IsHarqIdAvaiable
    <2>7. \A i, j \in 1..Len(harq.ids) : harq.ids[i] = harq.ids[j] => i = j
      BY <2>1, <2>2, <2>3
    <2> QED
      BY <2>3, <2>5, <2>6, <2>7 DEF Processes, PoolOK
  <1>3. Pending
    BY DEF Init, Pending, Extracted
  <1> QED
    BY <1>1, <1>2, <1>3 DEF IInv

\* A message of the xApp is a grant.
LEMMA MessageTyped ==
    ASSUME NEW order \in Orders, NEW allocs \in MergedAllocations(order)
    PROVE  /\ allocs \in Allocations
           /\ XappGrant(allocs) \in XappGrants
           /\ XappGrant(allocs).slotAllocations = allocs
  <1>1. order \in [Dst -> SUBSET Slots]
    BY DEF Orders
  <1>2. UNION {order[d] : d \in Dst} \subseteq Slots
    BY <1>1
  <1>3. allocs \in [UNION {order[d] : d \in Dst} -> Alloc]
    BY DEF MergedAllocations
  <1>4. allocs \in Allocations
    BY <1>2, <1>3, AllocationsAre
  <1> QED
    BY <1>4 DEF XappGrant, XappGrants

\* A message of the xApp keeps the invariant.
LEMMA ReceiveIInv == ASSUME IInv, Receive PROVE IInv'
  <1>1. PICK order \in Orders : \E allocs \in MergedAllocations(order) :
            xapp' = V2xE2Scheduling(xapp, XappGrant(allocs))
    BY DEF Receive
  <1>2. PICK allocs \in MergedAllocations(order) :
            xapp' = V2xE2Scheduling(xapp, XappGrant(allocs))
    BY <1>1
  <1> DEFINE g == XappGrant(allocs)
  <1>3. g \in XappGrants /\ xapp \in Stores
    BY MessageTyped DEF IInv, Types
  <1> HIDE DEF g
  <1>4. PICK p : Passes(p, xapp, g, SimTime) /\ V2xE2Scheduling(xapp, g) = p[SimTime]
    BY <1>3, SchedulingUnfolds
  <1>5. xapp' \in Stores
    BY <1>2, <1>4, XappAssumption DEF Passes, g
  <1>6. UNCHANGED <<phase, todo, now, grantInfo, harq, used, halted>>
    BY DEF Receive
  <1>7. Types'
    BY <1>5, <1>6 DEF IInv, Types
  <1>8. Processes'
    BY <1>6 DEF IInv, Processes
  <1>9. Pending'
    BY <1>6 DEF IInv, Pending, Extracted, Ready
  <1> QED
    BY <1>7, <1>8, <1>9 DEF IInv

\* The start of a slot keeps the invariant.
LEMMA SlotIndicationIInv == ASSUME IInv, SlotIndication PROVE IInv'
  <1>1. /\ now < SimTime /\ now' = now + 1
        /\ grantInfo' = <<>> /\ used' = {}
        /\ \/ phase' = "select" /\ todo' = Dst
           \/ phase' = "transmit" /\ todo' = {}
        /\ UNCHANGED <<xapp, harq, halted>>
    BY DEF SlotIndication
  <1>2. DOMAIN grantInfo' = {}
    BY <1>1
  <1>3. Types'
    BY <1>1, <1>2, XappAssumption DEF IInv, Types
  <1>4. Processes'
    BY <1>1 DEF IInv, Processes
  <1>5. Pending'
    BY <1>1, <1>2 DEF Pending, Extracted
  <1> QED
    BY <1>3, <1>4, <1>5 DEF IInv

\* The grant that Select puts into m_grantInfo is ready, and what it leaves in
\* m_grantInfoXapp is a grant.
LEMMA SelectedGrant ==
    ASSUME IInv, NEW d \in DOMAIN xapp, now \in DOMAIN xapp[d].slotAllocations
    PROVE  LET a  == xapp[d].slotAllocations[now]
               hs == GetDestinationHarqMap(harq, a.dstL2Id)
               g  == IF a.ndi \/ hs = {} THEN xapp[d]
                     ELSE [xapp[d] EXCEPT !.nrSlHarqId = Min(hs)]
           IN  /\ a \in Alloc
               /\ g \in XappGrants /\ g.slotAllocations = xapp[d].slotAllocations
               /\ a.ndi \/ hs # {} => Ready(a.dstL2Id, g)
               /\ [g EXCEPT !.slotAllocations = Without(@, {now})] \in XappGrants
               /\ [g EXCEPT !.slotAllocations = Without(@, {now})].slotAllocations
                     = Without(xapp[d].slotAllocations, {now})
  <1> DEFINE a  == xapp[d].slotAllocations[now]
             hs == GetDestinationHarqMap(harq, a.dstL2Id)
             g  == IF a.ndi \/ hs = {} THEN xapp[d]
                   ELSE [xapp[d] EXCEPT !.nrSlHarqId = Min(hs)]
             w == Without(xapp[d].slotAllocations, {now})
  <1>1. xapp[d] \in XappGrants /\ xapp[d].slotAllocations \in Allocations
    BY StoresAre DEF IInv, Types, XappGrants
  <1>2. a \in Alloc
    BY <1>1, AllocationsAre
  <1>3. hs # {} => Min(hs) \in HarqIds /\ harq.pkt[Min(hs)].dstL2Id = a.dstL2Id
    <2> HAVE hs # {}
    <2>1. hs \subseteq HarqIds /\ \A h \in hs : harq.pkt[h].dstL2Id = a.dstL2Id
      BY DEF GetDestinationHarqMap
    <2> HIDE DEF hs
    <2>2. \E x \in hs : \A y \in hs : x <= y
      BY <2>1, HarqIdsFacts, Least
    <2>3. Min(hs) \in hs
      BY <2>2 DEF Min
    <2> QED
      BY <2>1, <2>3
  <1>4. g \in XappGrants /\ g.slotAllocations = xapp[d].slotAllocations
    <2> HIDE DEF hs, a
    <2>1. CASE a.ndi \/ hs = {}
      BY <1>1, <2>1
    <2>2. CASE ~(a.ndi \/ hs = {})
      BY <1>1, <1>3, <2>2, ChangedGrant
    <2> QED
      BY <2>1, <2>2
  <1>5. a.ndi \/ hs # {} => Ready(a.dstL2Id, g)
    <2> HAVE a.ndi \/ hs # {}
    <2>1. a.ndi \/ BelongsTo(harq, g.nrSlHarqId, a.dstL2Id)
      <3> SUFFICES ASSUME ~a.ndi PROVE BelongsTo(harq, g.nrSlHarqId, a.dstL2Id)
        OBVIOUS
      <3> HIDE DEF hs, a
      <3>1. g = [xapp[d] EXCEPT !.nrSlHarqId = Min(hs)]
        OBVIOUS
      <3>2. g.nrSlHarqId = Min(hs)
        BY <1>1, <1>3, <3>1, ChangedGrant
      <3> QED
        BY <1>3, <3>2 DEF BelongsTo
    <2> HIDE DEF g
    <2> QED
      BY <1>4, <2>1 DEF Ready
  <1> HIDE DEF g
  <1>6. w \in Allocations
    BY <1>1, WithoutAllocation
  <1>7. [g EXCEPT !.slotAllocations = Without(@, {now})] = [g EXCEPT !.slotAllocations = w]
    BY <1>4
  <1>8. /\ [g EXCEPT !.slotAllocations = w] \in XappGrants
        /\ [g EXCEPT !.slotAllocations = w].slotAllocations = w
    BY <1>4, <1>6 DEF XappGrants
  <1> QED
    BY <1>2, <1>4, <1>5, <1>7, <1>8 DEF g

\* Looking up the grant of a destination keeps the invariant.
LEMMA SelectIInv == ASSUME IInv, NEW d \in Dst, Select(d) PROVE IInv'
  <1>1. /\ phase = "select" /\ todo' = todo \ {d}
        /\ UNCHANGED <<phase, now, harq, used, halted>>
    BY DEF Select
  <1>2. CASE d \in DOMAIN xapp /\ now \in DOMAIN xapp[d].slotAllocations
    <2> DEFINE a  == xapp[d].slotAllocations[now]
               hs == GetDestinationHarqMap(harq, a.dstL2Id)
               g  == IF a.ndi \/ hs = {} THEN xapp[d]
                     ELSE [xapp[d] EXCEPT !.nrSlHarqId = Min(hs)]
               r == [g EXCEPT !.slotAllocations = Without(@, {now})]
    <2>1. /\ a \in Alloc /\ r \in XappGrants
          /\ a.ndi \/ hs # {} => Ready(a.dstL2Id, g)
      BY <1>2, SelectedGrant
    <2>2. /\ grantInfo' = IF a.ndi \/ hs # {} THEN Emplace(grantInfo, a.dstL2Id, g) ELSE grantInfo
          /\ xapp' = [xapp EXCEPT ![d] = r]
      BY <1>2 DEF Select
    <2> HIDE DEF r, g, hs, a
    <2>3. xapp' \in Stores
      BY <1>2, <2>1, <2>2, StoresAre DEF IInv, Types
    <2>4. a.dstL2Id \in Dst
      BY <2>1 DEF Alloc
    <2>5. DOMAIN grantInfo' \in SUBSET Dst
      <3>1. DOMAIN grantInfo \in SUBSET Dst
        BY DEF IInv, Types
      <3>2. CASE a.ndi \/ hs # {}
        <4>1. DOMAIN grantInfo' = DOMAIN grantInfo \cup {a.dstL2Id}
          BY <2>2, <3>2 DEF Emplace
        <4> QED
          BY <2>4, <3>1, <4>1
      <3>3. CASE ~(a.ndi \/ hs # {})
        BY <2>2, <3>1, <3>3
      <3> QED
        BY <3>2, <3>3
    <2>6. Types'
      BY <1>1, <2>3, <2>5 DEF IInv, Types
    <2>7. Pending'
      <3>1. ASSUME NEW e \in DOMAIN grantInfo' PROVE Ready(e, grantInfo'[e])
        <4>1. \A x \in DOMAIN grantInfo : Ready(x, grantInfo[x])
          BY <1>1 DEF IInv, Pending, Extracted
        <4>2. CASE a.ndi \/ hs # {}
          <5>1. grantInfo' = Emplace(grantInfo, a.dstL2Id, g)
            BY <2>2, <4>2
          <5>2. CASE e \in DOMAIN grantInfo
            BY <4>1, <5>1, <5>2 DEF Emplace
          <5>3. CASE e \notin DOMAIN grantInfo
            <6>1. e = a.dstL2Id /\ grantInfo'[e] = g
              BY <3>1, <5>1, <5>3 DEF Emplace
            <6> QED
              BY <2>1, <4>2, <6>1
          <5> QED
            BY <5>2, <5>3
        <4>3. CASE ~(a.ndi \/ hs # {})
          BY <2>2, <3>1, <4>1, <4>3
        <4> QED
          BY <4>2, <4>3
      <3>2. \A e \in DOMAIN grantInfo' : Ready(e, grantInfo[e])'
        BY <1>1, <3>1 DEF Ready
      <3>3. Extracted' = DOMAIN grantInfo'
        BY <1>1 DEF Extracted
      <3> QED
        BY <3>2, <3>3 DEF Pending
    <2> QED
      BY <1>1, <2>6, <2>7 DEF IInv, Processes
  <1>3. CASE ~(d \in DOMAIN xapp /\ now \in DOMAIN xapp[d].slotAllocations)
    <2>1. UNCHANGED <<xapp, grantInfo>>
      BY <1>3 DEF Select
    <2>2. Types'
      BY <1>1, <2>1 DEF IInv, Types
    <2>3. Pending'
      BY <1>1, <2>1 DEF IInv, Pending, Extracted, Ready
    <2> QED
      BY <1>1, <2>1, <2>2, <2>3 DEF IInv, Processes
  <1> QED
    BY <1>2, <1>3

\* What stays ready when the slot stays and no process of the destination is
\* released.
LEMMA StillReady ==
    ASSUME NEW d, NEW g, Ready(d, g), now' = now,
           BelongsTo(harq, g.nrSlHarqId, d) => BelongsTo(harq', g.nrSlHarqId, d)
    PROVE  Ready(d, g)'
  BY DEF Ready

\* The transmission of destination d, whatever becomes of its own process.
LEMMA TransmitIInv ==
    ASSUME IInv, NEW d \in Dst, phase = "transmit",
           todo' = todo \ {d}, used' = used \cup {d},
           DOMAIN grantInfo' = DOMAIN grantInfo,
           \A e \in DOMAIN grantInfo \ {d} : grantInfo'[e] = grantInfo[e],
           Processes',
           \A k \in HarqIds, e \in Dst \ {d} : BelongsTo(harq, k, e) => BelongsTo(harq', k, e),
           UNCHANGED <<phase, now, xapp, received, halted>>
    PROVE  IInv'
  <1>1. Types'
    BY DEF IInv, Types
  <1>2. ASSUME NEW e \in todo' PROVE e \in DOMAIN grantInfo' /\ Ready(e, grantInfo[e])'
    <2>1. e \in todo /\ e # d /\ e \in Dst
      BY <1>2 DEF IInv, Types
    <2>2. e \in DOMAIN grantInfo /\ Ready(e, grantInfo[e]) /\ grantInfo'[e] = grantInfo[e]
      BY <2>1 DEF IInv, Pending, Extracted
    <2>3. \A k : BelongsTo(harq, k, e) => BelongsTo(harq', k, e)
      BY <2>1 DEF BelongsTo
    <2> QED
      BY <2>2, <2>3 DEF Ready
  <1>3. Pending'
    BY <1>2 DEF Pending, Extracted
  <1> QED
    BY <1>1, <1>3 DEF IInv

\* What the HARQ entity is after new data was sent to d.
LEMMA NewDataProcesses ==
    ASSUME NEW hq \in HarqType, PoolOK(hq), Len(hq.ids) > 0, NEW d \in Dst,
           NEW txed \in BOOLEAN, NEW q,
           LET h == NextHarqId(hq)
               assigned == AssignNrSlHarqProcessId(hq, d)
               filled   == IF txed THEN AddPacket(assigned, h, LcId) ELSE assigned
           IN  q = IF NSelected = 1 THEN RecvNrSlHarqFeedback(filled, h) ELSE filled
    PROVE  /\ q \in HarqType /\ PoolOK(q)
           /\ \A k \in HarqIds, e \in Dst \ {d} : BelongsTo(hq, k, e) => BelongsTo(q, k, e)
           /\ Len(q.ids) >= Len(hq.ids) - 1
           /\ NSelected = 1 => \A k \in HarqIds : IsHarqIdAvaiable(hq, k) => IsHarqIdAvaiable(q, k)
  <1> DEFINE h == NextHarqId(hq)
             assigned == AssignNrSlHarqProcessId(hq, d)
             filled   == IF txed THEN AddPacket(assigned, h, LcId) ELSE assigned
             freed == RecvNrSlHarqFeedback(filled, h)
  <1>1. /\ h \in HarqIds
        /\ filled \in HarqType /\ PoolOK(filled)
        /\ filled.ids = Tail(hq.ids)
        /\ BelongsTo(filled, h, d)
        /\ \A k \in HarqIds, e \in Dst : BelongsTo(hq, k, e) => BelongsTo(filled, k, e)
        /\ \A k \in HarqIds : IsHarqIdAvaiable(hq, k) => k = h \/ IsHarqIdAvaiable(filled, k)
    BY HarqNew
  <1>2. q = IF NSelected = 1 THEN freed ELSE filled
    OBVIOUS
  <1> HIDE DEF h, assigned, filled
  <1>3. /\ freed \in HarqType /\ PoolOK(freed)
        /\ freed.ids = Append(filled.ids, h)
        /\ IsHarqIdAvaiable(freed, h)
        /\ \A k \in HarqIds \ {h} : /\ freed.pkt[k] = filled.pkt[k]
                                    /\ IsHarqIdAvaiable(freed, k) <=> IsHarqIdAvaiable(filled, k)
    BY <1>1, HarqRelease
  <1> HIDE DEF freed
  <1>4. hq.ids \in Seq(HarqIds) /\ filled.ids \in Seq(HarqIds)
    BY <1>1 DEF HarqType
  <1>5. Len(filled.ids) = Len(hq.ids) - 1 /\ Len(freed.ids) = Len(hq.ids)
    BY <1>1, <1>3, <1>4
  <1>6. \A k \in HarqIds, e \in Dst \ {d} : BelongsTo(filled, k, e) => BelongsTo(freed, k, e)
    BY <1>1, <1>3 DEF BelongsTo
  <1>7. \A k \in HarqIds : IsHarqIdAvaiable(hq, k) => IsHarqIdAvaiable(freed, k)
    BY <1>1, <1>3
  <1>8. Len(hq.ids) \in Nat /\ Len(hq.ids) >= Len(hq.ids) - 1
    BY <1>4
  <1>9. CASE NSelected = 1
    <2>1. q = freed
      BY <1>2, <1>9
    <2> QED
      BY <1>1, <1>3, <1>5, <1>6, <1>7, <1>8, <2>1
  <1>10. CASE ~(NSelected = 1)
    <2>1. q = filled
      BY <1>2, <1>10
    <2>2. Len(q.ids) >= Len(hq.ids) - 1
      BY <1>5, <1>8, <2>1
    <2> QED
      BY <1>1, <1>10, <2>1, <2>2, Zenon
  <1> QED
    BY <1>9, <1>10

\* The grant of a destination that the transmission loop visits.
LEMMA Visited ==
    ASSUME IInv, NEW d \in todo, phase = "transmit"
    PROVE  /\ d \in Dst /\ d \in DOMAIN grantInfo
           /\ Ready(d, grantInfo[d]) /\ grantInfo[d] \in XappGrants
           /\ grantInfo[d].nSelected = NSelected
           /\ grantInfo[d].slotAllocations \in Allocations
           /\ now \in DOMAIN grantInfo[d].slotAllocations
  <1>1. d \in Dst
    BY DEF IInv, Types
  <1>2. d \in DOMAIN grantInfo /\ Ready(d, grantInfo[d]) /\ grantInfo[d] \in XappGrants
    BY DEF IInv, Pending, Extracted, Ready
  <1> QED
    BY <1>1, <1>2 DEF XappGrants, Ready

\* An abort changes nothing else.
LEMMA AbortIInv == ASSUME IInv, Abort PROVE IInv'
  <1>1. Types'
    BY DEF Abort, IInv, Types
  <1> QED
    BY <1>1 DEF Abort, IInv, Processes, Pending, Extracted, Ready

\* New data is sent, unless no process is free.
LEMMA TransmitNewSteps ==
    ASSUME IInv, NEW d \in Dst, TransmitNew(d)
    PROVE  \/ Abort /\ Len(harq.ids) = 0
           \/ /\ Len(harq.ids) > 0
              /\ phase = "transmit" /\ d \in todo
              /\ todo' = todo \ {d} /\ used' = used \cup {d}
              /\ DOMAIN grantInfo' = DOMAIN grantInfo
              /\ \A e \in DOMAIN grantInfo \ {d} : grantInfo'[e] = grantInfo[e]
              /\ harq' \in HarqType /\ PoolOK(harq')
              /\ \A k \in HarqIds, e \in Dst \ {d} :
                    BelongsTo(harq, k, e) => BelongsTo(harq', k, e)
              /\ Len(harq'.ids) >= Len(harq.ids) - 1
              /\ NSelected = 1 =>
                    \A k \in HarqIds : IsHarqIdAvaiable(harq, k) => IsHarqIdAvaiable(harq', k)
              /\ UNCHANGED <<phase, now, xapp, received, halted>>
  <1>0. phase = "transmit" /\ d \in todo
    BY DEF TransmitNew
  <1> DEFINE g == grantInfo[d]
             h == NextHarqId(harq)
             assigned == AssignNrSlHarqProcessId(harq, d)
             F(txed)   == IF txed THEN AddPacket(assigned, h, LcId) ELSE assigned
             P(txed) == GetNumAvaiableHarqIds(harq) > 0 /\ (txed => OnePduPerLc(F(txed), h))
  <1>1. PICK txed \in BOOLEAN :
         \/ ~P(txed) /\ Abort
         \/ /\ P(txed)
            /\ todo' = todo \ {d}
            /\ grantInfo' = [grantInfo EXCEPT ![d] = AfterTx(g, 1, h)]
            /\ harq' = IF g.nSelected = 1 THEN RecvNrSlHarqFeedback(F(txed), h) ELSE F(txed)
            /\ used' = used \cup {d}
            /\ UNCHANGED <<phase, now, xapp, received, halted>>
    BY DEF TransmitNew
  <1>2. harq \in HarqType /\ PoolOK(harq)
    BY DEF IInv, Processes
  <1>3. harq.ids \in Seq(HarqIds)
    BY <1>2 DEF HarqType
  <1>4. Len(harq.ids) \in Nat
    BY <1>3
  <1>5. CASE Len(harq.ids) = 0
    <2>1. ~P(txed)
      BY <1>5 DEF GetNumAvaiableHarqIds
    <2> HIDE DEF P
    <2> QED
      BY <1>1, <1>5, <2>1
  <1>6. CASE Len(harq.ids) > 0
    <2>1. txed => OnePduPerLc(F(txed), h)
      BY <1>2, <1>6, HarqNew
    <2>2. P(txed)
      BY <1>6, <2>1 DEF GetNumAvaiableHarqIds
    <2> HIDE DEF P
    <2>3. /\ todo' = todo \ {d}
          /\ grantInfo' = [grantInfo EXCEPT ![d] = AfterTx(g, 1, h)]
          /\ harq' = IF g.nSelected = 1 THEN RecvNrSlHarqFeedback(F(txed), h) ELSE F(txed)
          /\ used' = used \cup {d}
          /\ UNCHANGED <<phase, now, xapp, received, halted>>
      BY <1>1, <2>2
    <2>4. g.nSelected = NSelected
      BY <1>0, Visited
    <2>5. harq' = IF NSelected = 1 THEN RecvNrSlHarqFeedback(F(txed), h) ELSE F(txed)
      BY <2>3, <2>4
    <2>6. /\ harq' \in HarqType /\ PoolOK(harq')
          /\ \A k \in HarqIds, e \in Dst \ {d} : BelongsTo(harq, k, e) => BelongsTo(harq', k, e)
          /\ Len(harq'.ids) >= Len(harq.ids) - 1
          /\ NSelected = 1 =>
                \A k \in HarqIds : IsHarqIdAvaiable(harq, k) => IsHarqIdAvaiable(harq', k)
      BY <1>2, <1>6, <2>5, NewDataProcesses
    <2>7. /\ DOMAIN grantInfo' = DOMAIN grantInfo
          /\ \A e \in DOMAIN grantInfo \ {d} : grantInfo'[e] = grantInfo[e]
      BY <2>3
    <2> QED
      BY <1>0, <1>6, <2>3, <2>6, <2>7
  <1> QED
    BY <1>4, <1>5, <1>6

\* A retransmission is sent, from a process of its destination, unless blind
\* retransmissions are off.
LEMMA TransmitAgainSteps ==
    ASSUME IInv, NEW d \in Dst, TransmitAgain(d)
    PROVE  /\ \E k \in HarqIds : BelongsTo(harq, k, d)
           /\ \/ Abort /\ ~EnableBlindReTx
              \/ /\ phase = "transmit" /\ d \in todo
                 /\ todo' = todo \ {d} /\ used' = used \cup {d}
                 /\ DOMAIN grantInfo' = DOMAIN grantInfo
                 /\ \A e \in DOMAIN grantInfo \ {d} : grantInfo'[e] = grantInfo[e]
                 /\ harq' \in HarqType /\ PoolOK(harq')
                 /\ \A k \in HarqIds, e \in Dst \ {d} :
                       BelongsTo(harq, k, e) => BelongsTo(harq', k, e)
                 /\ Len(harq'.ids) >= Len(harq.ids)
                 /\ UNCHANGED <<phase, now, xapp, received, halted>>
  <1> DEFINE g == grantInfo[d]
             h == g.nrSlHarqId
             n == g.tbTxCounter + 1
             freed == RecvNrSlHarqFeedback(harq, h)
  <1>1. /\ phase = "transmit" /\ d \in todo
        /\ ~g.slotAllocations[now].ndi
        /\ \/ ~(BelongsTo(harq, h, d) /\ EnableBlindReTx) /\ Abort
           \/ /\ todo' = todo \ {d}
              /\ grantInfo' = [grantInfo EXCEPT ![d] = AfterTx(g, n, h)]
              /\ harq' = IF n = g.nSelected THEN freed ELSE harq
              /\ used' = used \cup {d}
              /\ UNCHANGED <<phase, now, xapp, received, halted>>
    BY DEF TransmitAgain
  <1>2. BelongsTo(harq, h, d)
    BY <1>1, Visited DEF Ready
  <1>3. h \in HarqIds
    BY <1>2 DEF BelongsTo
  <1>4. harq \in HarqType /\ PoolOK(harq)
    BY DEF IInv, Processes
  <1>5. /\ freed \in HarqType /\ PoolOK(freed)
        /\ freed.ids = Append(harq.ids, h)
        /\ \A k \in HarqIds \ {h} : freed.pkt[k] = harq.pkt[k]
    BY <1>2, <1>4, HarqRelease
  <1> HIDE DEF freed, h, n
  <1>6. harq.ids \in Seq(HarqIds) /\ Len(harq.ids) \in Nat
    BY <1>4 DEF HarqType
  <1>7. Len(freed.ids) >= Len(harq.ids) /\ Len(harq.ids) >= Len(harq.ids)
    BY <1>3, <1>5, <1>6
  <1>8. \A k \in HarqIds, e \in Dst \ {d} : BelongsTo(harq, k, e) => BelongsTo(freed, k, e)
    BY <1>2, <1>5 DEF BelongsTo
  <1>9. CASE Abort /\ ~EnableBlindReTx
    BY <1>2, <1>3, <1>9
  <1>10. CASE /\ todo' = todo \ {d}
              /\ grantInfo' = [grantInfo EXCEPT ![d] = AfterTx(g, n, h)]
              /\ harq' = IF n = g.nSelected THEN freed ELSE harq
              /\ used' = used \cup {d}
              /\ UNCHANGED <<phase, now, xapp, received, halted>>
    <2>1. /\ DOMAIN grantInfo' = DOMAIN grantInfo
          /\ \A e \in DOMAIN grantInfo \ {d} : grantInfo'[e] = grantInfo[e]
      BY <1>10
    <2>2. harq' = freed \/ harq' = harq
      BY <1>10
    <2>3. /\ harq' \in HarqType /\ PoolOK(harq')
          /\ \A k \in HarqIds, e \in Dst \ {d} : BelongsTo(harq, k, e) => BelongsTo(harq', k, e)
          /\ Len(harq'.ids) >= Len(harq.ids)
      BY <1>4, <1>5, <1>7, <1>8, <2>2
    <2> QED
      BY <1>1, <1>2, <1>3, <1>10, <2>1, <2>3
  <1> QED
    BY <1>1, <1>2, <1>9, <1>10

\* Every step keeps the invariant.
LEMMA NextIInv == IInv /\ [Next]_vars => IInv'
  <1> SUFFICES ASSUME IInv, [Next]_vars PROVE IInv'
    OBVIOUS
  <1>1. CASE Receive
    BY <1>1, ReceiveIInv
  <1>2. CASE SlotIndication
    BY <1>2, SlotIndicationIInv
  <1>3. CASE SelectDone
    <2>1. /\ phase = "select" /\ phase' = "transmit" /\ todo' = DOMAIN grantInfo
          /\ UNCHANGED <<now, xapp, grantInfo, harq, used, received, halted>>
      BY <1>3 DEF SelectDone
    <2>2. Types'
      BY <2>1 DEF IInv, Types
    <2>3. Pending'
      BY <2>1 DEF IInv, Pending, Extracted, Ready
    <2> QED
      BY <2>1, <2>2, <2>3 DEF IInv, Processes
  <1>4. CASE TransmitDone
    <2>1. phase' = "idle" /\ UNCHANGED <<todo, now, xapp, grantInfo, harq, used, received, halted>>
      BY <1>4 DEF TransmitDone
    <2>2. Types'
      BY <2>1 DEF IInv, Types
    <2>3. Pending'
      BY <2>1 DEF Pending, Extracted
    <2> QED
      BY <2>1, <2>2, <2>3 DEF IInv, Processes
  <1>5. CASE UNCHANGED vars
    BY <1>5 DEF vars, IInv, Types, Processes, Pending, Extracted, Ready
  <1>6. CASE Ended
    BY <1>5, <1>6 DEF Ended
  <1>7. ASSUME NEW d \in Dst, Select(d) PROVE IInv'
    BY <1>7, SelectIInv
  <1>8. ASSUME NEW d \in Dst, NothingDue(d) PROVE IInv'
    <2>1. /\ phase = "transmit" /\ todo' = todo \ {d}
          /\ UNCHANGED <<phase, now, xapp, grantInfo, harq, used, received, halted>>
      BY <1>8 DEF NothingDue
    <2>2. Types'
      BY <2>1 DEF IInv, Types
    <2>3. Pending'
      BY <2>1 DEF IInv, Pending, Extracted, Ready
    <2> QED
      BY <2>1, <2>2, <2>3 DEF IInv, Processes
  <1>9. ASSUME NEW d \in Dst, TransmitNew(d) PROVE IInv'
    <2>1. CASE Abort
      BY <2>1, AbortIInv
    <2>2. CASE ~Abort
      BY <1>9, <2>2, TransmitNewSteps, TransmitIInv DEF Processes
    <2> QED
      BY <2>1, <2>2
  <1>10. ASSUME NEW d \in Dst, TransmitAgain(d) PROVE IInv'
    <2>1. CASE Abort
      BY <2>1, AbortIInv
    <2>2. CASE ~Abort
      BY <1>10, <2>2, TransmitAgainSteps, TransmitIInv DEF Processes
    <2> QED
      BY <2>1, <2>2
  <1> QED
    BY <1>1, <1>2, <1>3, <1>4, <1>5, <1>6, <1>7, <1>8, <1>9, <1>10 DEF Next

\* The inductive invariant holds in every configuration.
THEOREM Invariance == Spec => []IInv
  <1>1. Init => IInv
    BY InitIInv
  <1>2. IInv /\ [Next]_vars => IInv'
    BY NextIInv
  <1> QED
    BY <1>1, <1>2, PTL DEF Spec

\* V2xE2Scheduling and DoNrSlSlotIndication: whatever the xApp orders, in time
\* or late, with any retransmissions, no process is lost or shared, also when
\* the slot handler aborts.
THEOREM PoolSafe == Spec => []PoolConsistent
  <1>1. IInv => PoolConsistent
    BY DEF IInv, Processes, PoolOK, PoolConsistent
  <1> QED
    BY <1>1, Invariance, PTL

----------------------------------------------------------------------------
(* Aborts                                                                  *)

\* The only step that halts is one that finds no free process.
LEMMA HaltingStep ==
    ASSUME IInv, EnableBlindReTx, ~halted, [Next]_vars, halted'
    PROVE  /\ \E d \in Dst : TransmitNew(d) /\ Abort
           /\ \E d \in Dst : phase = "transmit" /\ d \in todo
           /\ Len(harq.ids) = 0 /\ harq' = harq
  <1>1. ASSUME NEW d \in Dst, TransmitNew(d)
        PROVE  /\ phase = "transmit" /\ d \in todo /\ Len(harq.ids) = 0 /\ harq' = harq
               /\ TransmitNew(d) /\ Abort
    <2>1. phase = "transmit" /\ d \in todo
      BY <1>1 DEF TransmitNew
    <2>2. Abort
      BY <1>1, TransmitNewSteps
    <2> QED
      BY <1>1, <2>1, <2>2, TransmitNewSteps DEF Abort
  <1>2. ASSUME NEW d \in Dst, TransmitAgain(d) PROVE FALSE
    BY <1>2, TransmitAgainSteps
  <1>3. ~Receive /\ ~SlotIndication /\ ~SelectDone /\ ~TransmitDone /\ ~Ended /\ ~UNCHANGED vars
    BY DEF Receive, SlotIndication, SelectDone, TransmitDone, Ended, vars
  <1>4. \A d \in Dst : ~Select(d) /\ ~NothingDue(d)
    BY DEF Select, NothingDue
  <1> QED
    BY <1>1, <1>2, <1>3, <1>4 DEF Next

\* A step after an abort changes nothing.
LEMMA HaltedStep ==
    ASSUME halted, [Next]_vars PROVE UNCHANGED vars
  BY DEF Next, Receive, SlotIndication, SelectDone, TransmitDone, Ended, Select, NothingDue,
         TransmitNew, TransmitAgain

\* A process was free when the slot began, and is until one has been taken.
FreeAtFirst ==
    /\ phase = "select" => used = {} /\ Len(harq.ids) > 0
    /\ phase = "transmit" /\ todo # {} /\ used = {} => Len(harq.ids) > 0

\* Every step keeps the process free that was free when the slot began.
LEMMA NextFreeAtFirst ==
    ASSUME IInv, FreeAtFirst, [Next]_vars PROVE FreeAtFirst'
  <1>1. ASSUME NEW d \in Dst, TransmitNew(d) \/ TransmitAgain(d) PROVE FreeAtFirst'
    <2>1. CASE Abort
      BY <2>1 DEF Abort, FreeAtFirst
    <2>2. CASE ~Abort
      <3>1. phase' = "transmit" /\ used' = used \cup {d}
        BY <1>1, <2>2 DEF TransmitNew, TransmitAgain
      <3> QED
        BY <3>1 DEF FreeAtFirst
    <2> QED
      BY <2>1, <2>2
  <1>2. CASE SlotIndication
    <2>1. /\ harq' = harq /\ used' = {}
          /\ IF GetNumAvaiableHarqIds(harq) > 0
             THEN phase' = "select" /\ todo' = Dst
             ELSE phase' = "transmit" /\ todo' = {}
      BY <1>2 DEF SlotIndication
    <2> QED
      BY <2>1 DEF FreeAtFirst, GetNumAvaiableHarqIds
  <1>3. CASE SelectDone
    BY <1>3 DEF SelectDone, FreeAtFirst
  <1>4. CASE Receive \/ TransmitDone \/ Ended \/ UNCHANGED vars
    BY <1>4 DEF Receive, TransmitDone, Ended, vars, FreeAtFirst
  <1>5. ASSUME NEW d \in Dst, Select(d) \/ NothingDue(d) PROVE FreeAtFirst'
    BY <1>5 DEF Select, NothingDue, FreeAtFirst
  <1> QED
    BY <1>1, <1>2, <1>3, <1>4, <1>5 DEF Next

\* The aborts of the slot handler: with blind retransmissions only one of them
\* can be reached, that of new data for a destination when another destination
\* has taken the last free process in the same slot.  A retransmission always
\* names a process of its destination and a TB has one PDU per logical channel,
\* whatever the xApp orders.
THEOREM AbortIsExhaustion ==
    ASSUME EnableBlindReTx PROVE Spec => []AbortForWantOfProcess
  <1>1. Init => AbortForWantOfProcess /\ FreeAtFirst
    BY DEF Init, AbortForWantOfProcess, FreeAtFirst
  <1>2. IInv /\ FreeAtFirst /\ AbortForWantOfProcess /\ [Next]_vars => AbortForWantOfProcess'
    <2> SUFFICES ASSUME IInv, FreeAtFirst, AbortForWantOfProcess, [Next]_vars, halted'
                 PROVE  AbortForWantOfProcess'
      BY DEF AbortForWantOfProcess
    <2>1. CASE halted
      <3>1. UNCHANGED vars
        BY <2>1, HaltedStep
      <3> QED
        BY <3>1 DEF AbortForWantOfProcess, NoFreeProcess, Due, vars
    <2>2. CASE ~halted
      <3>1. PICK d \in Dst : TransmitNew(d) /\ Abort
        BY <2>2, HaltingStep
      <3>2. /\ phase = "transmit" /\ d \in todo
            /\ Due(grantInfo[d]) /\ grantInfo[d].slotAllocations[now].ndi
        BY <3>1 DEF TransmitNew
      <3>3. Len(harq.ids) = 0
        BY <2>2, HaltingStep
      <3>4. used # {}
        BY <3>2, <3>3 DEF FreeAtFirst
      <3>5. UNCHANGED <<phase, todo, now, grantInfo, harq, used>>
        BY <3>1 DEF Abort
      <3>6. NoFreeProcess'
        BY <3>3, <3>5 DEF NoFreeProcess, GetNumAvaiableHarqIds
      <3>7. /\ phase' = "transmit" /\ used' # {} /\ d \in todo'
            /\ Due(grantInfo[d])' /\ grantInfo'[d].slotAllocations[now'].ndi
        BY <3>2, <3>4, <3>5 DEF Due
      <3> QED
        BY <3>6, <3>7 DEF AbortForWantOfProcess
    <2> QED
      BY <2>1, <2>2
  <1>3. IInv /\ FreeAtFirst /\ [Next]_vars => FreeAtFirst'
    BY NextFreeAtFirst
  <1> QED
    BY <1>1, <1>2, <1>3, Invariance, PTL DEF Spec

\* Every process is taken and no grant of the slot is left to use.
Starved ==
    /\ NoFreeProcess
    /\ phase = "idle" \/ (phase = "transmit" /\ todo = {} /\ used = {})

\* DoNrSlSlotIndication looks for a free process before it looks for the grants
\* of the slot, retransmissions included: a vehicle whose processes are all taken
\* at the end of a slot keeps them and transmits no more, in every configuration
\* and whatever the xApp orders.
THEOREM StarvationIsFinal == Spec => StarvedForGood
  <1>1. Starved /\ [Next]_vars => Starved'
    <2> SUFFICES ASSUME Starved, [Next]_vars PROVE Starved'
      OBVIOUS
    <2>1. CASE Receive \/ TransmitDone \/ Ended \/ UNCHANGED vars
      BY <2>1 DEF Receive, TransmitDone, Ended, vars, Starved, NoFreeProcess
    <2>2. CASE SlotIndication
      <3>1. GetNumAvaiableHarqIds(harq) = 0 /\ ~(0 > 0)
        BY DEF Starved, NoFreeProcess
      <3>2. /\ phase' = "transmit" /\ todo' = {} /\ used' = {} /\ harq' = harq
        BY <2>2, <3>1 DEF SlotIndication
      <3> QED
        BY <3>1, <3>2 DEF Starved, NoFreeProcess
    <2>3. ~SelectDone /\ \A d \in Dst : /\ ~Select(d) /\ ~NothingDue(d)
                                       /\ ~TransmitNew(d) /\ ~TransmitAgain(d)
      BY DEF Starved, SelectDone, Select, NothingDue, TransmitNew, TransmitAgain
    <2> QED
      BY <2>1, <2>2, <2>3 DEF Next
  <1>2. phase = "idle" /\ NoFreeProcess => Starved
    BY DEF Starved
  <1>3. Starved => NoFreeProcess /\ (phase = "idle" \/ used = {})
    BY DEF Starved
  <1> QED
    BY <1>1, <1>2, <1>3, PTL DEF Spec, StarvedForGood

\* Without retransmissions every process is free after every step.
AllFree == \A h \in HarqIds : IsHarqIdAvaiable(harq, h)

\* Then one is free for new data, and none belongs to a destination.
LEMMA AllFreeHasOne ==
    ASSUME IInv, AllFree
    PROVE  Len(harq.ids) > 0 /\ \A d \in Dst, h \in HarqIds : ~BelongsTo(harq, h, d)
  <1>1. harq.ids \in Seq(HarqIds)
    BY DEF IInv, Processes, HarqType
  <1>2. PICK i \in 1..Len(harq.ids) : harq.ids[i] = 0
    BY HarqIdsFacts DEF AllFree, IsHarqIdAvaiable
  <1>3. \A h \in HarqIds : harq.pkt[h].dstL2Id = NoDst
    BY DEF IInv, Processes, PoolOK, AllFree, EmptyEntry
  <1> QED
    BY <1>1, <1>2, <1>3, DstAssumption DEF BelongsTo

\* All processes are free initially.
LEMMA InitAllFree == Init => AllFree
  <1> SUFFICES ASSUME Init, NEW h \in HarqIds PROVE IsHarqIdAvaiable(harq, h)
    BY DEF AllFree
  <1> DEFINE n == NumSidelinkProcess
             s == [i \in 1..n |-> i - 1]
  <1>1. n \in Nat /\ n > 0
    BY ProcessAssumption
  <1>2. Len(s) = n /\ \A i \in 1..n : s[i] = i - 1
    BY <1>1
  <1>3. harq.ids = s
    BY DEF Init, InitHarqBuffer
  <1> HIDE DEF s
  <1>4. h + 1 \in 1..n /\ (h + 1) - 1 = h
    BY <1>1 DEF HarqIds
  <1> QED
    BY <1>2, <1>3, <1>4 DEF IsHarqIdAvaiable

\* Every step keeps them free.
LEMMA NextAllFree ==
    ASSUME IInv, NSelected = 1, AllFree, [Next]_vars PROVE AllFree'
  <1>1. ASSUME NEW d \in Dst, TransmitNew(d) PROVE AllFree'
    <2>1. CASE Abort
      BY <2>1 DEF Abort, AllFree
    <2>2. CASE ~Abort
      <3>1. \A k \in HarqIds : IsHarqIdAvaiable(harq, k) => IsHarqIdAvaiable(harq', k)
        BY <1>1, <2>2, TransmitNewSteps
      <3> QED
        BY <3>1 DEF AllFree
    <2> QED
      BY <2>1, <2>2
  <1>2. ASSUME NEW d \in Dst, TransmitAgain(d) PROVE AllFree'
    BY <1>2, TransmitAgainSteps, AllFreeHasOne
  <1>3. ASSUME harq' = harq PROVE AllFree'
    BY <1>3 DEF AllFree
  <1>4. CASE Receive \/ SlotIndication \/ SelectDone \/ TransmitDone \/ Ended \/ UNCHANGED vars
    BY <1>3, <1>4 DEF Receive, SlotIndication, SelectDone, TransmitDone, Ended, vars
  <1>5. ASSUME NEW d \in Dst, Select(d) \/ NothingDue(d) PROVE AllFree'
    BY <1>3, <1>5 DEF Select, NothingDue
  <1> QED
    BY <1>1, <1>2, <1>4, <1>5 DEF Next

\* One destination: a process was found free before its grant was looked up.
OneFree == phase = "select" \/ (phase = "transmit" /\ todo # {}) => Len(harq.ids) > 0

\* With one destination every step keeps a process free for it.
LEMMA NextOneFree ==
    ASSUME IInv, NEW d0, Dst = {d0}, OneFree, [Next]_vars PROVE OneFree'
  <1>1. ASSUME NEW d \in Dst, TransmitNew(d) PROVE OneFree'
    <2>1. CASE Abort
      BY <2>1 DEF Abort, OneFree
    <2>2. CASE ~Abort
      <3>1. phase' = "transmit" /\ todo' = todo \ {d}
        BY <1>1, <2>2, TransmitNewSteps
      <3>2. todo' = {}
        BY <3>1 DEF IInv, Types
      <3> QED
        BY <3>1, <3>2 DEF OneFree
    <2> QED
      BY <2>1, <2>2
  <1>2. ASSUME NEW d \in Dst, TransmitAgain(d) PROVE OneFree'
    <2>1. CASE Abort
      BY <2>1 DEF Abort, OneFree
    <2>2. CASE ~Abort
      <3>1. phase' = "transmit" /\ todo' = todo \ {d}
        BY <1>2, <2>2, TransmitAgainSteps
      <3>2. todo' = {}
        BY <3>1 DEF IInv, Types
      <3> QED
        BY <3>1, <3>2 DEF OneFree
    <2> QED
      BY <2>1, <2>2
  <1>3. CASE SlotIndication
    <2>1. /\ harq' = harq
          /\ IF GetNumAvaiableHarqIds(harq) > 0
             THEN phase' = "select" /\ todo' = Dst
             ELSE phase' = "transmit" /\ todo' = {}
      BY <1>3 DEF SlotIndication
    <2> QED
      BY <2>1 DEF OneFree, GetNumAvaiableHarqIds
  <1>4. CASE SelectDone
    BY <1>4 DEF SelectDone, OneFree
  <1>5. CASE Receive \/ TransmitDone \/ Ended \/ UNCHANGED vars
    BY <1>5 DEF Receive, TransmitDone, Ended, vars, OneFree
  <1>6. ASSUME NEW d \in Dst, Select(d) \/ NothingDue(d) PROVE OneFree'
    BY <1>6 DEF Select, NothingDue, OneFree
  <1> QED
    BY <1>1, <1>2, <1>3, <1>4, <1>5, <1>6 DEF Next

\* Every destination takes at most one process in a slot.
Budget ==
    LET w == Cardinality(Dst)
    IN  IF phase = "idle" THEN Len(harq.ids) + w * now >= NumSidelinkProcess
        ELSE /\ now > 0
             /\ phase = "select" => Len(harq.ids) + w * (now - 1) >= NumSidelinkProcess
             /\ phase = "transmit" =>
                  Len(harq.ids) + w * (now - 1) + Cardinality(Dst \ todo) >= NumSidelinkProcess

\* The arithmetic of the budget.
LEMMA Counting ==
    ASSUME IInv
    PROVE  /\ Cardinality(Dst) \in Nat /\ now \in Nat /\ Len(harq.ids) \in Nat
           /\ Cardinality(Dst \ todo) \in Nat
           /\ \A d \in todo : /\ Cardinality(Dst \ (todo \ {d})) = Cardinality(Dst \ todo) + 1
                              /\ Cardinality(Dst \ todo) < Cardinality(Dst)
           /\ todo = {} => Cardinality(Dst \ todo) = Cardinality(Dst)
           /\ Cardinality(Dst) * (now + 1) = Cardinality(Dst) * now + Cardinality(Dst)
           /\ Cardinality(Dst) * now = Cardinality(Dst) * (now - 1) + Cardinality(Dst)
           /\ Cardinality(Dst) * now \in Nat /\ Cardinality(Dst) * (now - 1) \in Int
           /\ Cardinality(Dst) * now <= Cardinality(Dst) * SimTime
           /\ Cardinality(Dst) * SimTime \in Nat
  <1> DEFINE w == Cardinality(Dst)
  <1>1. w \in Nat
    BY DstAssumption, FS_CardinalityType
  <1>2. now \in Nat /\ SimTime \in Nat /\ now <= SimTime /\ todo \in SUBSET Dst
    BY XappAssumption DEF IInv, Types
  <1>3. harq.ids \in Seq(HarqIds)
    BY DEF IInv, Processes, HarqType
  <1>4. Len(harq.ids) \in Nat
    BY <1>3
  <1>5. \A T \in SUBSET Dst : IsFiniteSet(T) /\ Cardinality(T) \in Nat /\ Cardinality(T) <= w
    BY DstAssumption, FS_Subset, FS_CardinalityType
  <1>6. Cardinality(Dst \ todo) \in Nat
    BY <1>5
  <1>7. ASSUME NEW d \in todo
        PROVE  /\ Cardinality(Dst \ (todo \ {d})) = Cardinality(Dst \ todo) + 1
               /\ Cardinality(Dst \ todo) < Cardinality(Dst)
    <2> DEFINE T == Dst \ todo
    <2>1. Dst \ (todo \ {d}) = T \cup {d} /\ d \notin T /\ T \cup {d} \in SUBSET Dst
      BY <1>2
    <2>2. Cardinality(T \cup {d}) = Cardinality(T) + 1
      BY <1>5, <2>1, FS_AddElement
    <2>3. Cardinality(T \cup {d}) <= w
      BY <1>5, <2>1
    <2> QED
      BY <1>1, <1>6, <2>1, <2>2, <2>3
  <1>8. todo = {} => Dst \ todo = Dst
    OBVIOUS
  <1> HIDE DEF w
  <1>9. /\ w * (now + 1) = w * now + w /\ w * now = w * (now - 1) + w
        /\ w * now \in Nat /\ w * (now - 1) \in Int /\ w * now <= w * SimTime
        /\ w * SimTime \in Nat
    BY <1>1, <1>2
  <1> QED
    BY <1>1, <1>2, <1>4, <1>6, <1>7, <1>8, <1>9 DEF w

\* Every step stays within the budget.
LEMMA NextBudget ==
    ASSUME IInv, Budget, [Next]_vars PROVE Budget'
  <1> DEFINE w == Cardinality(Dst)
             L == Len(harq.ids)
             N == NumSidelinkProcess
             c == Cardinality(Dst \ todo)
  <1>1. /\ w \in Nat /\ now \in Nat /\ L \in Nat /\ c \in Nat /\ N \in Nat
        /\ w * (now + 1) = w * now + w /\ w * now = w * (now - 1) + w
        /\ w * now \in Nat /\ w * (now - 1) \in Int
        /\ todo = {} => c = w
        /\ \A d \in todo : Cardinality(Dst \ (todo \ {d})) = c + 1
    <2>1. N \in Nat
      BY ProcessAssumption
    <2> HIDE DEF N
    <2> QED
      BY <2>1, Counting
  <1>2. ASSUME NEW d \in todo, phase = "transmit", todo' = todo \ {d},
               UNCHANGED <<phase, now>>, Len(harq'.ids) \in Nat, Len(harq'.ids) >= L - 1
        PROVE  Budget'
    <2>1. now > 0 /\ L + w * (now - 1) + c >= N
      BY <1>2 DEF Budget
    <2>2. Cardinality(Dst \ todo') = c + 1
      BY <1>1, <1>2
    <2>3. Len(harq'.ids) + w * (now - 1) + Cardinality(Dst \ todo') >= N
      <3> DEFINE v == w * (now - 1)
                 m == Len(harq'.ids)
                 b == Cardinality(Dst \ todo')
      <3>1. m \in Nat /\ m >= L - 1 /\ L + v + c >= N /\ b = c + 1
        BY <1>2, <2>1, <2>2
      <3>2. v \in Int /\ L \in Nat /\ c \in Nat /\ N \in Nat
        BY <1>1
      <3> HIDE DEF w, L, c, N, v, m, b
      <3>3. m + v + b >= N
        BY <3>1, <3>2
      <3> QED
        BY <3>3 DEF v, m, b
    <2> QED
      BY <1>2, <2>1, <2>3 DEF Budget
  <1>3. Len(harq'.ids) \in Nat
    <2>1. harq'.ids \in Seq(HarqIds)
      BY NextIInv DEF IInv, Processes, HarqType
    <2> QED
      BY <2>1
  <1>4. ASSUME NEW d \in Dst, TransmitNew(d) PROVE Budget'
    <2>1. CASE Abort
      BY <2>1 DEF Abort, Budget
    <2>2. CASE ~Abort
      BY <1>2, <1>3, <1>4, <2>2, TransmitNewSteps
    <2> QED
      BY <2>1, <2>2
  <1>5. ASSUME NEW d \in Dst, TransmitAgain(d) PROVE Budget'
    <2>1. CASE Abort
      BY <2>1 DEF Abort, Budget
    <2>2. CASE ~Abort
      <3>1. /\ phase = "transmit" /\ d \in todo /\ todo' = todo \ {d}
            /\ Len(harq'.ids) >= L /\ UNCHANGED <<phase, now>>
        BY <1>5, <2>2, TransmitAgainSteps
      <3>2. PICK m \in Nat : m = Len(harq'.ids)
        BY <1>3, Zenon
      <3>3. PICK l \in Nat : l = L
        BY <1>1, Zenon
      <3>4. m >= l
        BY <3>1, <3>2, <3>3, Zenon
      <3>5. m >= l - 1
        BY <3>4
      <3>6. Len(harq'.ids) >= L - 1
        BY <3>2, <3>3, <3>5, Zenon
      <3> QED
        BY <1>2, <1>3, <3>1, <3>6, Zenon
    <2> QED
      BY <2>1, <2>2
  <1>6. ASSUME NEW d \in Dst, NothingDue(d) PROVE Budget'
    <2>1. /\ phase = "transmit" /\ d \in todo /\ todo' = todo \ {d}
          /\ UNCHANGED <<phase, now, harq>>
      BY <1>6 DEF NothingDue
    <2>2. Len(harq'.ids) >= L - 1
      BY <1>1, <2>1
    <2> QED
      BY <1>2, <1>3, <2>1, <2>2
  <1>7. CASE SlotIndication
    <2>1. /\ phase = "idle" /\ now' = now + 1 /\ harq' = harq
          /\ phase' \in {"select", "transmit"}
      BY <1>7 DEF SlotIndication
    <2>2. L + w * now >= N
      BY <2>1 DEF Budget
    <2>3. now' > 0 /\ now' - 1 = now
      BY <1>1, <2>1
    <2>4. Cardinality(Dst \ todo') \in Nat
      BY NextIInv, DstAssumption, FS_Subset, FS_CardinalityType DEF IInv, Types
    <2>5. Len(harq'.ids) + w * (now' - 1) >= N
      BY <2>1, <2>2, <2>3
    <2>6. Len(harq'.ids) + w * (now' - 1) + Cardinality(Dst \ todo') >= N
      <3>1. w * (now' - 1) \in Nat
        BY <1>1, <2>3
      <3> HIDE DEF w, N
      <3> QED
        BY <1>1, <1>3, <2>4, <2>5, <3>1
    <2> QED
      BY <2>1, <2>3, <2>5, <2>6 DEF Budget
  <1>8. CASE SelectDone
    <2>1. /\ phase = "select" /\ phase' = "transmit" /\ UNCHANGED <<now, harq>>
      BY <1>8 DEF SelectDone
    <2>2. now > 0 /\ L + w * (now - 1) >= N
      BY <2>1 DEF Budget
    <2>3. Cardinality(Dst \ todo') \in Nat
      BY NextIInv, DstAssumption, FS_Subset, FS_CardinalityType DEF IInv, Types
    <2>4. L + w * (now - 1) + Cardinality(Dst \ todo') >= N
      <3> HIDE DEF w, N, L
      <3> QED
        BY <1>1, <2>2, <2>3
    <2> QED
      BY <2>1, <2>2, <2>4 DEF Budget
  <1>9. CASE TransmitDone
    <2>1. phase = "transmit" /\ phase' = "idle" /\ todo = {} /\ UNCHANGED <<now, harq>>
      BY <1>9 DEF TransmitDone
    <2>2. L + w * (now - 1) + c >= N
      BY <2>1 DEF Budget
    <2>3. L + w * now >= N
      <3>1. c = w
        BY <1>1, <2>1
      <3> HIDE DEF w, N, L, c
      <3> QED
        BY <1>1, <2>2, <3>1
    <2> QED
      BY <2>1, <2>3 DEF Budget
  <1>10. ASSUME NEW d \in Dst, Select(d) PROVE Budget'
    <2>1. phase = "select" /\ UNCHANGED <<phase, now, harq>>
      BY <1>10 DEF Select
    <2> QED
      BY <2>1 DEF Budget
  <1>11. CASE Receive \/ Ended \/ UNCHANGED vars
    <2>1. UNCHANGED <<phase, now, harq, todo>>
      BY <1>11 DEF Receive, Ended, vars
    <2> QED
      BY <2>1 DEF Budget
  <1> QED
    BY <1>4, <1>5, <1>6, <1>7, <1>8, <1>9, <1>10, <1>11 DEF Next

\* Processes enough that none is ever missed: no process outlives its slot, or
\* there is one destination, or there is a process for every slot of every
\* destination.
ProcessesEnough ==
    \/ NSelected = 1
    \/ \E d \in Dst : Dst = {d}
    \/ NumSidelinkProcess >= Cardinality(Dst) * SimTime

\* The slot handler of a vehicle with processes enough reaches no abort,
\* whatever an xApp orders and whenever its messages come.
THEOREM NoAbort ==
    ASSUME EnableBlindReTx, ProcessesEnough PROVE Spec => []NeverAborts
  <1> DEFINE Room == phase = "transmit" /\ todo # {} => Len(harq.ids) > 0
  <1>0. Init => NeverAborts
    BY DEF Init, NeverAborts
  <1>1. IInv /\ Room /\ NeverAborts /\ [Next]_vars => NeverAborts'
    <2> SUFFICES ASSUME IInv, Room, NeverAborts, [Next]_vars, ~NeverAborts' PROVE FALSE
      OBVIOUS
    <2>1. ~halted /\ halted'
      BY NextIInv DEF NeverAborts, IInv, Types
    <2> QED
      BY <2>1, HaltingStep
  <1>2. CASE NSelected = 1
    <2>1. IInv /\ AllFree => Room
      BY AllFreeHasOne
    <2>2. IInv /\ AllFree /\ [Next]_vars => AllFree'
      BY <1>2, NextAllFree
    <2> HIDE DEF Room
    <2> QED
      BY <1>0, <1>1, <2>1, <2>2, InitAllFree, Invariance, PTL DEF Spec
  <1>3. ASSUME NEW d \in Dst, Dst = {d} PROVE Spec => []NeverAborts
    <2>1. OneFree => Room
      BY DEF OneFree
    <2>2. IInv /\ OneFree /\ [Next]_vars => OneFree'
      BY <1>3, NextOneFree
    <2>3. Init => OneFree
      BY DEF Init, OneFree
    <2> HIDE DEF Room
    <2> QED
      BY <1>0, <1>1, <2>1, <2>2, <2>3, Invariance, PTL DEF Spec
  <1>4. CASE NumSidelinkProcess >= Cardinality(Dst) * SimTime
    <2>1. IInv /\ Budget => Room
      <3> SUFFICES ASSUME IInv, Budget, phase = "transmit", todo # {}
                   PROVE  Len(harq.ids) > 0
        OBVIOUS
      <3> DEFINE w == Cardinality(Dst)
                 v == w * (now - 1)
                 u == w * now
                 m == w * SimTime
                 c == Cardinality(Dst \ todo)
                 L == Len(harq.ids)
      <3>1. /\ w \in Nat /\ L \in Nat /\ c \in Nat /\ v \in Int /\ u \in Nat /\ m \in Nat
            /\ u = v + w /\ u <= m /\ c < w
        BY Counting
      <3>2. L + v + c >= NumSidelinkProcess
        BY DEF Budget
      <3>3. NumSidelinkProcess >= m /\ NumSidelinkProcess \in Nat
        BY <1>4, ProcessAssumption
      <3> HIDE DEF w, v, u, m, c, L
      <3>4. L > 0
        BY <3>1, <3>2, <3>3
      <3> QED
        BY <3>4 DEF L
    <2>2. IInv /\ Budget /\ [Next]_vars => Budget'
      BY NextBudget
    <2>3. Init => Budget
      <3> SUFFICES ASSUME Init PROVE Len(harq.ids) + Cardinality(Dst) * now >= NumSidelinkProcess
        BY DEF Init, Budget
      <3>1. NumSidelinkProcess \in Nat /\ now = 0
        BY ProcessAssumption DEF Init
      <3>2. harq.ids = [i \in 1..NumSidelinkProcess |-> i - 1]
        BY DEF Init, InitHarqBuffer
      <3>3. Len(harq.ids) = NumSidelinkProcess
        BY <3>1, <3>2
      <3>4. Cardinality(Dst) * now = 0
        BY <3>1, DstAssumption, FS_CardinalityType
      <3> QED
        BY <3>1, <3>3, <3>4
    <2> HIDE DEF Room
    <2> QED
      BY <1>0, <1>1, <2>1, <2>2, <2>3, Invariance, PTL DEF Spec
  <1> QED
    BY <1>2, <1>3, <1>4 DEF ProcessesEnough

----------------------------------------------------------------------------
(* The schedule of the xApp                                                *)

\* The slots that a store has for a destination in its own grant.
SlotsOf(x, d) == IF d \in DOMAIN x THEN DOMAIN x[d].slotAllocations ELSE {}

\* Every grant has slots of its own destination, all for new data.
OwnSlots(x) ==
    \A k \in DOMAIN x : \A s \in DOMAIN x[k].slotAllocations :
        x[k].slotAllocations[s].dstL2Id = k /\ x[k].slotAllocations[s].ndi

\* They are ahead, or of the current slot and about to be looked up.
Ahead ==
    \A d \in Dst : \A s \in SlotsOf(xapp, d) :
        s > now \/ (s = now /\ phase = "select" /\ d \in todo)

\* The grants of the current slot: they begin with it, and are used once.
Current ==
    /\ \A d \in Extracted : \A s \in DOMAIN grantInfo[d].slotAllocations : now <= s
    /\ phase = "select" => used = {}
    /\ phase = "transmit" => DOMAIN grantInfo = todo \cup used /\ todo \cap used = {}
    /\ phase = "idle" => DOMAIN grantInfo \subseteq used

RInv == OwnSlots(xapp) /\ Ahead /\ Current /\ AllFree

\* Scheduled, as a function of the state.
ScheduledIn(x, n, ph, gi, us) ==
    [d \in Dst |->
        {s \in UNION {{s \in DOMAIN x[k].slotAllocations :
                          x[k].slotAllocations[s].dstL2Id = d} : k \in DOMAIN x} :
             s > n \/ (s = n /\ ph # "idle")}
        \cup {s \in {n} : d \in DOMAIN gi /\ d \notin us}]

\* With slots of the own destination and ahead, no condition is needed.
LEMMA ScheduledIs ==
    ASSUME NEW x \in Stores, OwnSlots(x), NEW n, NEW ph, NEW gi, NEW us,
           \A d \in Dst : \A s \in SlotsOf(x, d) : s > n \/ (s = n /\ ph # "idle")
    PROVE  ScheduledIn(x, n, ph, gi, us)
              = [d \in Dst |-> SlotsOf(x, d) \cup {s \in {n} : d \in DOMAIN gi /\ d \notin us}]
  <1> SUFFICES ASSUME NEW d \in Dst
               PROVE  {s \in UNION {{s \in DOMAIN x[k].slotAllocations :
                                       x[k].slotAllocations[s].dstL2Id = d} : k \in DOMAIN x} :
                          s > n \/ (s = n /\ ph # "idle")} = SlotsOf(x, d)
    BY DEF ScheduledIn
  <1> DEFINE St == UNION {{s \in DOMAIN x[k].slotAllocations :
                             x[k].slotAllocations[s].dstL2Id = d} : k \in DOMAIN x}
  <1>1. St = SlotsOf(x, d)
    <2>1. ASSUME NEW s \in St PROVE s \in SlotsOf(x, d)
      <3>1. PICK k \in DOMAIN x : s \in DOMAIN x[k].slotAllocations
                                  /\ x[k].slotAllocations[s].dstL2Id = d
        BY <2>1
      <3>2. k = d
        BY <3>1 DEF OwnSlots
      <3> QED
        BY <3>1, <3>2 DEF SlotsOf
    <2>2. ASSUME NEW s \in SlotsOf(x, d) PROVE s \in St
      <3>1. d \in DOMAIN x /\ s \in DOMAIN x[d].slotAllocations
        BY <2>2 DEF SlotsOf
      <3>2. x[d].slotAllocations[s].dstL2Id = d
        BY <3>1 DEF OwnSlots
      <3> QED
        BY <3>1, <3>2
    <2> QED
      BY <2>1, <2>2
  <1> HIDE DEF St
  <1>2. \A s \in St : s > n \/ (s = n /\ ph # "idle")
    BY <1>1
  <1>3. {s \in St : s > n \/ (s = n /\ ph # "idle")} = St
    BY <1>2
  <1> QED
    BY <1>1, <1>3 DEF St

\* A message for one destination.  After the passes up to slot n the grant of
\* that destination has, up to slot n, the old slots before the message and
\* the slots of the message; nothing else changes.
LEMMA PassSlots ==
    ASSUME NEW x \in Stores, OwnSlots(x), NEW g \in XappGrants, NEW d \in Dst,
           \A s \in DOMAIN g.slotAllocations :
               g.slotAllocations[s].dstL2Id = d /\ g.slotAllocations[s].ndi,
           DOMAIN g.slotAllocations # {},
           NEW p, Passes(p, x, g, SimTime)
    PROVE  /\ OwnSlots(p[SimTime])
           /\ \A e \in Dst \ {d} : SlotsOf(p[SimTime], e) = SlotsOf(x, e)
           /\ SlotsOf(p[SimTime], d)
                 = {s \in SlotsOf(x, d) : \A t \in DOMAIN g.slotAllocations : s < t}
                      \cup DOMAIN g.slotAllocations
  <1> DEFINE A == DOMAIN g.slotAllocations
             Pre == {s \in SlotsOf(x, d) : \A t \in A : s < t}
             UpTo(n) == \A s \in Slots : s <= n => s \notin A
             Good(n) ==
                /\ OwnSlots(p[n])
                /\ \A e \in Dst \ {d} : SlotsOf(p[n], e) = SlotsOf(x, e)
                /\ UpTo(n) => p[n] = x
                /\ ~UpTo(n) =>
                     /\ d \in DOMAIN p[n]
                     /\ \A s \in SlotsOf(p[n], d) : s \in Pre \cup A
                     /\ \A s \in Pre \cup A : s <= n => s \in SlotsOf(p[n], d)
                     /\ \A s \in Pre : s \in SlotsOf(p[n], d)
             S == {n \in Nat : n <= SimTime => Good(n)}
  <1>1. SimTime \in Nat /\ Slots \subseteq Nat /\ \A s \in Slots : 1 <= s /\ s <= SimTime
    BY XappAssumption DEF Slots
  <1>2. /\ p \in [0..SimTime -> Stores] /\ p[0] = x
        /\ \A s \in 1..SimTime : p[s] = IF s \in A THEN StoreAllocation(p[s - 1], g, s)
                                        ELSE p[s - 1]
    BY DEF Passes
  <1>3. g.slotAllocations \in Allocations
    BY DEF XappGrants
  <1>4. A \subseteq Slots /\ \A s \in A : g.slotAllocations[s] \in Alloc
    BY <1>3, AllocationsAre
  <1>5. SlotsOf(x, d) \subseteq Slots
    BY StoresAre, AllocationsAre DEF SlotsOf, XappGrants
  <1>6. Begin(g.slotAllocations) \in A /\ \A s \in A : Begin(g.slotAllocations) <= s
    BY <1>3, FirstSlot
  <1>7. 0 \in S
    <2>1. UpTo(0)
      BY <1>1
    <2> HIDE DEF UpTo
    <2> QED
      BY <1>2, <2>1
  <1>8. ASSUME NEW n \in Nat, n \in S PROVE n + 1 \in S
    <2> SUFFICES ASSUME n + 1 <= SimTime PROVE Good(n + 1)
      OBVIOUS
    <2>1. Good(n) /\ n + 1 \in 1..SimTime /\ n \in 0..SimTime /\ (n + 1) - 1 = n
      BY <1>1, <1>8
    <2>2. \A s \in Slots : s <= n + 1 <=> s <= n \/ s = n + 1
      BY <1>1
    <2>3. CASE n + 1 \notin A
      <3>1. p[n + 1] = p[n]
        BY <1>2, <2>1, <2>3
      <3>2. UpTo(n + 1) <=> UpTo(n)
        BY <2>2, <2>3
      <3>3. \A s \in Pre \cup A : s <= n + 1 => s <= n \/ s \in Pre
        BY <1>4, <2>2, <2>3
      <3> HIDE DEF UpTo, Pre
      <3> QED
        BY <2>1, <3>1, <3>2, <3>3
    <2>4. CASE n + 1 \in A
      <3> DEFINE s0 == n + 1
                 a == g.slotAllocations[s0]
                 y == p[n]
                 z == p[s0]
      <3>1. ~UpTo(n + 1)
        BY <1>4, <2>4
      <3>2. z = StoreAllocation(y, g, s0) /\ y \in Stores
        BY <1>2, <2>1, <2>4
      <3>3. a.dstL2Id = d /\ a.ndi
        BY <2>4
      <3>4. s0 \in Slots /\ s0 \in Nat
        BY <1>4, <2>4
      <3>5. CASE d \in DOMAIN y
        <4> DEFINE old == y[d].slotAllocations
                   w == Without(old, {t \in Slots : s0 < t})
                   new == Emplace(w, s0, a)
        <4>1. y[d] \in XappGrants /\ old \in Allocations
          BY <3>2, <3>5, StoresAre DEF XappGrants
        <4>2. DOMAIN old \subseteq Slots
          BY <4>1, AllocationsAre
        <4>3. z = [y EXCEPT ![d].slotAllocations = new]
          BY <3>2, <3>3, <3>5 DEF StoreAllocation
        <4>4. DOMAIN w = {t \in DOMAIN old : t <= s0} /\ \A t \in DOMAIN w : w[t] = old[t]
          <5>1. DOMAIN w = DOMAIN old \ {t \in Slots : s0 < t} /\ \A t \in DOMAIN w : w[t] = old[t]
            BY DEF Without
          <5>2. \A t \in Slots : ~(s0 < t) <=> t <= s0
            BY <1>1, <3>4
          <5> HIDE DEF w
          <5> QED
            BY <4>2, <5>1, <5>2
        <4>5. /\ DOMAIN new = DOMAIN w \cup {s0}
              /\ \A t \in DOMAIN w : new[t] = w[t]
              /\ s0 \notin DOMAIN w => new[s0] = a
          BY DEF Emplace
        <4> HIDE DEF w, new
        <4>6. DOMAIN z = DOMAIN y /\ z[d].slotAllocations = new
              /\ \A e \in DOMAIN y \ {d} : z[e] = y[e]
          <5>1. z = [y EXCEPT ![d] = [y[d] EXCEPT !.slotAllocations = new]]
            BY <4>3
          <5>2. [y[d] EXCEPT !.slotAllocations = new].slotAllocations = new
            BY <4>1 DEF XappGrants
          <5> QED
            BY <3>5, <5>1, <5>2
        <4> HIDE DEF z
        <4>7. OwnSlots(z)
          <5> SUFFICES ASSUME NEW k \in DOMAIN z, NEW s \in DOMAIN z[k].slotAllocations
                       PROVE  z[k].slotAllocations[s].dstL2Id = k /\ z[k].slotAllocations[s].ndi
            BY DEF OwnSlots
          <5>1. OwnSlots(y)
            BY <2>1
          <5>2. CASE k # d
            BY <4>6, <5>1, <5>2 DEF OwnSlots
          <5>3. CASE k = d /\ s \in DOMAIN w
            <6>1. z[k].slotAllocations[s] = old[s] /\ s \in DOMAIN old
              BY <4>4, <4>5, <4>6, <5>3
            <6> QED
              BY <3>5, <5>1, <5>3, <6>1 DEF OwnSlots
          <5>4. CASE k = d /\ s \notin DOMAIN w
            <6>1. s = s0 /\ z[k].slotAllocations[s] = a
              BY <4>5, <4>6, <5>4
            <6> QED
              BY <3>3, <5>4, <6>1
          <5> QED
            BY <5>2, <5>3, <5>4
        <4>8. \A e \in Dst \ {d} : SlotsOf(z, e) = SlotsOf(x, e)
          <5>1. \A e \in Dst \ {d} : SlotsOf(z, e) = SlotsOf(y, e)
            BY <4>6 DEF SlotsOf
          <5> QED
            BY <2>1, <5>1
        <4>9. SlotsOf(z, d) = {t \in SlotsOf(y, d) : t <= s0} \cup {s0}
          BY <3>5, <4>4, <4>5, <4>6 DEF SlotsOf
        <4>10. d \in DOMAIN z
          BY <3>5, <4>6
        <4>11. CASE UpTo(n)
          <5>1. y = x
            BY <2>1, <4>11
          <5>2. \A t \in A : s0 <= t
            <6> SUFFICES ASSUME NEW t \in A PROVE s0 <= t
              OBVIOUS
            <6>1. t \in Slots /\ t \in Nat /\ ~(t <= n)
              BY <1>1, <1>4, <4>11
            <6> QED
              BY <6>1
          <5>3. \A t \in SlotsOf(x, d) : t <= s0 => t = s0 \/ t \in Pre
            <6> SUFFICES ASSUME NEW t \in SlotsOf(x, d), t <= s0, t # s0, NEW u \in A PROVE t < u
              OBVIOUS
            <6>1. t \in Nat /\ u \in Nat /\ s0 <= u
              BY <1>1, <1>4, <1>5, <5>2
            <6> HIDE DEF s0
            <6> QED
              BY <3>4, <6>1
          <5>4. \A t \in Pre : t \in SlotsOf(x, d) /\ t <= s0
            <6> SUFFICES ASSUME NEW t \in Pre PROVE t <= s0
              OBVIOUS
            <6>1. t < s0 /\ t \in Nat
              BY <1>1, <1>5, <2>4
            <6> HIDE DEF s0
            <6> QED
              BY <3>4, <6>1
          <5>5. \A t \in A : t <= s0 => t = s0
            <6> SUFFICES ASSUME NEW t \in A, t <= s0 PROVE t = s0
              OBVIOUS
            <6>1. t \in Nat /\ s0 <= t
              BY <1>1, <1>4, <5>2
            <6> HIDE DEF s0
            <6> QED
              BY <3>4, <6>1
          <5> HIDE DEF Pre, s0, A, UpTo
          <5>6. \A s \in SlotsOf(z, d) : s \in Pre \cup A
            BY <2>4, <4>9, <5>1, <5>3 DEF s0
          <5>7. \A s \in Pre : s \in SlotsOf(z, d)
            BY <4>9, <5>1, <5>4
          <5>8. \A s \in Pre \cup A : s <= s0 => s \in SlotsOf(z, d)
            BY <4>9, <5>5, <5>7
          <5> QED
            BY <3>1, <4>7, <4>8, <4>10, <5>6, <5>7, <5>8 DEF z, s0
        <4>12. CASE ~UpTo(n)
          <5>1. /\ \A s \in SlotsOf(y, d) : s \in Pre \cup A
                /\ \A s \in Pre \cup A : s <= n => s \in SlotsOf(y, d)
                /\ \A s \in Pre : s \in SlotsOf(y, d)
            BY <2>1, <4>12
          <5>2. \A t \in Pre : t <= s0
            <6> SUFFICES ASSUME NEW t \in Pre PROVE t <= s0
              OBVIOUS
            <6>1. t < s0 /\ t \in Nat
              BY <1>1, <1>5, <2>4
            <6> HIDE DEF s0
            <6> QED
              BY <3>4, <6>1
          <5>3. \A t \in A : t <= s0 => t <= n \/ t = s0
            BY <1>4, <2>2
          <5>4. s0 \in A
            BY <2>4
          <5> HIDE DEF Pre, s0, A, UpTo
          <5>6. \A s \in SlotsOf(z, d) : s \in Pre \cup A
            BY <4>9, <5>1, <5>4
          <5>7. \A s \in Pre : s \in SlotsOf(z, d)
            BY <4>9, <5>1, <5>2
          <5>8. \A s \in Pre \cup A : s <= s0 => s \in SlotsOf(z, d)
            BY <4>9, <5>1, <5>3, <5>7
          <5> QED
            BY <3>1, <4>7, <4>8, <4>10, <5>6, <5>7, <5>8 DEF z, s0
        <4> QED
          BY <4>11, <4>12
      <3>6. CASE d \notin DOMAIN y
        <4>1. UpTo(n) /\ y = x
          BY <2>1, <3>6
        <4>2. z = Emplace(y, d, g)
          <5>1. g.slotAllocations[Begin(g.slotAllocations)].dstL2Id = d
            BY <1>6
          <5> QED
            BY <3>2, <3>3, <3>6, <5>1 DEF StoreAllocation
        <4>3. DOMAIN z = DOMAIN y \cup {d} /\ z[d] = g /\ \A e \in DOMAIN y : z[e] = y[e]
          BY <3>6, <4>2 DEF Emplace
        <4> HIDE DEF z
        <4>4. SlotsOf(z, d) = A /\ \A e \in Dst \ {d} : SlotsOf(z, e) = SlotsOf(y, e)
          BY <4>3 DEF SlotsOf
        <4>5. Pre = {}
          BY <3>6, <4>1 DEF SlotsOf
        <4>6. OwnSlots(z)
          <5>1. OwnSlots(y)
            BY <2>1
          <5> SUFFICES ASSUME NEW k \in DOMAIN z, NEW s \in DOMAIN z[k].slotAllocations
                       PROVE  z[k].slotAllocations[s].dstL2Id = k /\ z[k].slotAllocations[s].ndi
            BY DEF OwnSlots
          <5>2. CASE k \in DOMAIN y
            BY <4>3, <5>1, <5>2 DEF OwnSlots
          <5>3. CASE k \notin DOMAIN y
            BY <4>3, <5>3
          <5> QED
            BY <5>2, <5>3
        <4>7. d \in DOMAIN z
          BY <4>3
        <4> HIDE DEF Pre, A, UpTo
        <4> QED
          BY <3>1, <4>1, <4>4, <4>5, <4>6, <4>7 DEF z
      <3> QED
        BY <3>5, <3>6
    <2> QED
      BY <2>3, <2>4
  <1> HIDE DEF S, Good
  <1>9. SimTime \in S
    BY <1>1, <1>7, <1>8, SetInduction
  <1>10. Good(SimTime)
    BY <1>1, <1>9 DEF S
  <1>11. ~UpTo(SimTime)
    BY <1>1, <1>4
  <1>12. \A s \in Pre \cup A : s <= SimTime
    BY <1>1, <1>4, <1>5
  <1> HIDE DEF UpTo, A, Pre
  <1>13. SlotsOf(p[SimTime], d) = Pre \cup A
    BY <1>10, <1>11, <1>12 DEF Good
  <1> QED
    BY <1>10, <1>13 DEF Good, A, Pre

\* One message, for one destination and ahead of time, does to the schedule
\* what Reschedule does.
LEMMA ReceiveReschedules ==
    ASSUME IInv, RInv, NSelected = 1, MaxDstPerMessage = 1, ~AllowLate, Receive
    PROVE  /\ OwnSlots(xapp')
           /\ \A e \in Dst : \A s \in SlotsOf(xapp', e) : s > now
           /\ \E new \in [Dst -> SUBSET ((now + 1)..SimTime)] :
                 /\ received' = {r \in (0..SimTime) \X Dst : r[1] \in new[r[2]]}
                 /\ \A e \in Dst : SlotsOf(xapp', e)
                       = {s \in SlotsOf(xapp, e) : \A t \in new[e] : s < t} \cup new[e]
  <1>1. PICK order \in Orders :
           /\ \A d \in Dst : \A s \in order[d] : s > now
           /\ \E allocs \in MergedAllocations(order) :
                 /\ xapp' = V2xE2Scheduling(xapp, XappGrant(allocs))
                 /\ received' = {<<s, allocs[s].dstL2Id>> : s \in DOMAIN allocs}
    BY DEF Receive
  <1>2. PICK allocs \in MergedAllocations(order) :
           /\ xapp' = V2xE2Scheduling(xapp, XappGrant(allocs))
           /\ received' = {<<s, allocs[s].dstL2Id>> : s \in DOMAIN allocs}
    BY <1>1
  <1> DEFINE g == XappGrant(allocs)
             T == {e \in Dst : order[e] # {}}
  <1>3. g \in XappGrants /\ g.slotAllocations = allocs /\ allocs \in Allocations
    BY MessageTyped
  <1>4. order \in [Dst -> SUBSET Slots] /\ Cardinality(T) = 1
    BY DEF Orders
  <1>5. PICK d \in Dst : T = {d}
    <2>1. IsFiniteSet(T)
      BY DstAssumption, FS_Subset
    <2>2. PICK y : T = {y}
      BY <1>4, <2>1, FS_Singleton
    <2> QED
      BY <2>2
  <1>6. order[d] # {} /\ \A e \in Dst \ {d} : order[e] = {}
    BY <1>5
  <1>7. DOMAIN allocs = order[d]
    <2>1. DOMAIN allocs = UNION {order[e] : e \in Dst}
      BY DEF MergedAllocations
    <2> QED
      BY <1>6, <2>1
  <1>8. \A s \in order[d] : allocs[s].dstL2Id = d /\ allocs[s].ndi
    <2> TAKE s \in order[d]
    <2>1. /\ allocs[s] \in Alloc /\ s \in order[allocs[s].dstL2Id]
          /\ allocs[s].ndi = (Cardinality({t \in order[allocs[s].dstL2Id] : t < s}) % NSelected = 0)
      BY <1>7 DEF MergedAllocations
    <2>2. allocs[s].dstL2Id = d
      BY <1>6, <2>1 DEF Alloc
    <2>3. Cardinality({t \in order[d] : t < s}) \in Nat
      <3>1. order[d] \subseteq Slots /\ IsFiniteSet(Slots)
        BY <1>4, FS_Interval, XappAssumption DEF Slots
      <3>2. {t \in order[d] : t < s} \subseteq Slots
        BY <3>1
      <3> QED
        BY <3>1, <3>2, FS_Subset, FS_CardinalityType
    <2>4. Cardinality({t \in order[d] : t < s}) % NSelected = 0
      BY <2>3
    <2> QED
      BY <2>1, <2>2, <2>4
  <1>9. xapp \in Stores /\ OwnSlots(xapp)
    BY DEF IInv, Types, RInv
  <1> HIDE DEF g, T
  <1>10. PICK p : Passes(p, xapp, g, SimTime) /\ V2xE2Scheduling(xapp, g) = p[SimTime]
    BY <1>3, <1>9, SchedulingUnfolds
  <1>11. xapp' = p[SimTime]
    BY <1>2, <1>10 DEF g
  <1>12. /\ OwnSlots(xapp')
         /\ \A e \in Dst \ {d} : SlotsOf(xapp', e) = SlotsOf(xapp, e)
         /\ SlotsOf(xapp', d)
               = {s \in SlotsOf(xapp, d) : \A t \in order[d] : s < t} \cup order[d]
    BY <1>3, <1>6, <1>7, <1>8, <1>9, <1>10, <1>11, PassSlots
  <1>13. phase = "idle"
    BY DEF Receive
  <1>14. \A e \in Dst : \A s \in SlotsOf(xapp, e) : s > now
    BY <1>13 DEF RInv, Ahead
  <1>15. \A e \in Dst : \A s \in SlotsOf(xapp', e) : s > now
    BY <1>1, <1>12, <1>14
  <1>16. order \in [Dst -> SUBSET ((now + 1)..SimTime)]
    <2>1. now \in Nat /\ SimTime \in Nat
      BY XappAssumption DEF IInv, Types
    <2>2. \A e \in Dst : order[e] \in SUBSET ((now + 1)..SimTime)
      BY <1>1, <1>4, <2>1 DEF Slots
    <2> QED
      BY <1>4, <2>2
  <1>17. \A e \in Dst : SlotsOf(xapp', e)
                       = {s \in SlotsOf(xapp, e) : \A t \in order[e] : s < t} \cup order[e]
    <2> TAKE e \in Dst
    <2>1. CASE e = d
      BY <1>12, <2>1
    <2>2. CASE e # d
      BY <1>6, <1>12, <2>2
    <2> QED
      BY <2>1, <2>2
  <1>18. received' = {r \in (0..SimTime) \X Dst : r[1] \in order[r[2]]}
    <2>1. received' = {<<s, d>> : s \in order[d]}
      BY <1>2, <1>7, <1>8
    <2>2. \A s \in order[d] : s \in 0..SimTime
      BY <1>4, XappAssumption DEF Slots
    <2>3. \A r \in (0..SimTime) \X Dst : r[1] \in order[r[2]] <=> r[2] = d /\ r[1] \in order[d]
      BY <1>6
    <2> QED
      BY <2>1, <2>2, <2>3
  <1> QED
    BY <1>12, <1>15, <1>16, <1>17, <1>18

\* The slots of the schedule that the state stands for.
Left(x, gi, us, n) ==
    [d \in Dst |-> SlotsOf(x, d) \cup {s \in {n} : d \in DOMAIN gi /\ d \notin us}]

\* They are what the refinement mapping says, before a step and after it.
LEMMA ScheduledNow ==
    ASSUME IInv, RInv PROVE Scheduled = Left(xapp, grantInfo, used, now)
  <1>1. xapp \in Stores /\ OwnSlots(xapp)
    BY DEF IInv, Types, RInv
  <1>2. \A d \in Dst : \A s \in SlotsOf(xapp, d) : s > now \/ (s = now /\ phase # "idle")
    BY DEF RInv, Ahead
  <1>3. Scheduled = ScheduledIn(xapp, now, phase, grantInfo, used)
    BY DEF Scheduled, ScheduledIn, Stored
  <1> QED
    BY <1>1, <1>2, <1>3, ScheduledIs DEF Left

\* The same after a step.
LEMMA ScheduledNext ==
    ASSUME IInv', RInv' PROVE Scheduled' = Left(xapp', grantInfo', used', now')
  <1>1. xapp' \in Stores /\ OwnSlots(xapp')
    BY DEF IInv, Types, RInv
  <1>2. \A d \in Dst : \A s \in SlotsOf(xapp', d) : s > now' \/ (s = now' /\ phase' # "idle")
    BY DEF RInv, Ahead
  <1>3. Scheduled' = ScheduledIn(xapp', now', phase', grantInfo', used')
    BY DEF Scheduled, ScheduledIn, Stored
  <1> QED
    BY <1>1, <1>2, <1>3, ScheduledIs DEF Left

\* RInv holds initially.
LEMMA InitRInv == Init => RInv
  <1> SUFFICES ASSUME Init PROVE RInv
    OBVIOUS
  <1>1. xapp = <<>> /\ grantInfo = <<>> /\ phase = "idle"
    BY DEF Init
  <1>2. DOMAIN xapp = {} /\ DOMAIN grantInfo = {}
    BY <1>1
  <1>3. OwnSlots(xapp) /\ Ahead
    BY <1>2 DEF OwnSlots, Ahead, SlotsOf
  <1>4. Current
    BY <1>1, <1>2 DEF Current, Extracted
  <1> QED
    BY <1>3, <1>4, InitAllFree DEF RInv

\* Each step keeps RInv and is a step of the abstract schedule.
AbstractVars == <<now, Scheduled, received, used>>

Refines == RInv' /\ [Abstract!Next]_AbstractVars

\* A step that leaves the slots of all destinations as they are.
LEMMA Stutters ==
    ASSUME IInv, RInv, IInv', RInv',
           UNCHANGED <<now, received, used>>,
           Left(xapp', grantInfo', used', now') = Left(xapp, grantInfo, used, now)
    PROVE  Refines
  BY ScheduledNow, ScheduledNext DEF Refines, AbstractVars

\* A message is a step Reschedule.
LEMMA ReceiveRefines ==
    ASSUME IInv, RInv, IInv', NSelected = 1, MaxDstPerMessage = 1, ~AllowLate, Receive
    PROVE  Refines
  <1>1. /\ phase = "idle" /\ UNCHANGED <<phase, todo, now, grantInfo, harq, used, halted>>
    BY DEF Receive
  <1>2. OwnSlots(xapp') /\ \A e \in Dst : \A s \in SlotsOf(xapp', e) : s > now
    BY ReceiveReschedules
  <1>3. PICK new \in [Dst -> SUBSET ((now + 1)..SimTime)] :
           /\ received' = {r \in (0..SimTime) \X Dst : r[1] \in new[r[2]]}
           /\ \A e \in Dst : SlotsOf(xapp', e)
                 = {s \in SlotsOf(xapp, e) : \A t \in new[e] : s < t} \cup new[e]
    BY ReceiveReschedules
  <1>4. RInv'
    <2>1. Ahead'
      BY <1>1, <1>2 DEF Ahead
    <2>2. Current'
      BY <1>1 DEF RInv, Current, Extracted
    <2>3. AllFree'
      BY <1>1 DEF RInv, AllFree
    <2> QED
      BY <1>2, <2>1, <2>2, <2>3 DEF RInv
  <1>5. \A e \in Dst : {s \in {now} : e \in DOMAIN grantInfo /\ e \notin used} = {}
    BY <1>1 DEF RInv, Current
  <1>6. \A e \in Dst : Scheduled[e] = SlotsOf(xapp, e)
    BY <1>5, ScheduledNow DEF Left
  <1>7. Scheduled' = [e \in Dst |-> SlotsOf(xapp', e)]
    BY <1>1, <1>4, <1>5, ScheduledNext DEF Left
  <1>8. Scheduled' = [e \in Dst |-> Abstract!Replace(Scheduled[e], new[e])]
    BY <1>3, <1>6, <1>7 DEF Abstract!Replace
  <1>9. Abstract!Reschedule
    BY <1>1, <1>3, <1>8 DEF Abstract!Reschedule
  <1> QED
    BY <1>4, <1>9 DEF Refines, Abstract!Next

\* The start of a slot is a step NextSlot.
LEMMA SlotIndicationRefines ==
    ASSUME IInv, RInv, IInv', SlotIndication
    PROVE  Refines
  <1>1. Len(harq.ids) > 0
    BY AllFreeHasOne DEF RInv
  <1>2. /\ phase = "idle" /\ now < SimTime /\ now' = now + 1
        /\ grantInfo' = <<>> /\ used' = {} /\ received' = {}
        /\ phase' = "select" /\ todo' = Dst
        /\ UNCHANGED <<xapp, harq, halted>>
    BY <1>1 DEF SlotIndication, GetNumAvaiableHarqIds
  <1>3. DOMAIN grantInfo' = {}
    BY <1>2
  <1>4. now \in Nat
    BY XappAssumption DEF IInv, Types
  <1>5. \A d \in Dst : \A s \in SlotsOf(xapp, d) : s \in Nat /\ s > now
    <2>1. \A d \in Dst : \A s \in SlotsOf(xapp, d) : s > now
      BY <1>2 DEF RInv, Ahead
    <2>2. \A d \in Dst : SlotsOf(xapp, d) \subseteq Slots
      BY StoresAre, AllocationsAre DEF IInv, Types, SlotsOf, XappGrants
    <2> QED
      BY <2>1, <2>2, XappAssumption DEF Slots
  <1>6. RInv'
    <2>1. \A d \in Dst : \A s \in SlotsOf(xapp, d) : s > now + 1 \/ s = now + 1
      BY <1>4, <1>5
    <2>2. Ahead'
      BY <1>2, <2>1 DEF Ahead
    <2>3. Current'
      BY <1>2, <1>3 DEF Current, Extracted
    <2>4. AllFree' /\ OwnSlots(xapp')
      BY <1>2 DEF RInv, AllFree
    <2> QED
      BY <2>2, <2>3, <2>4 DEF RInv
  <1>7. \A e \in Dst : {s \in {now} : e \in DOMAIN grantInfo /\ e \notin used} = {}
    BY <1>2 DEF RInv, Current
  <1>8. Scheduled = [e \in Dst |-> SlotsOf(xapp, e)]
    BY <1>7, ScheduledNow DEF Left
  <1>9. Scheduled' = [e \in Dst |-> SlotsOf(xapp, e)]
    BY <1>2, <1>3, <1>6, ScheduledNext DEF Left
  <1>10. \A d \in Dst : now \notin Scheduled[d]
    BY <1>4, <1>5, <1>8
  <1>11. Abstract!NextSlot
    BY <1>2, <1>8, <1>9, <1>10 DEF Abstract!NextSlot
  <1> QED
    BY <1>6, <1>11 DEF Refines, Abstract!Next

\* The look-up moves the current slot from the xApp's grant to m_grantInfo.
LEMMA SelectRefines ==
    ASSUME IInv, RInv, IInv', NEW d \in Dst, Select(d)
    PROVE  Refines
  <1>1. /\ phase = "select" /\ d \in todo /\ todo' = todo \ {d}
        /\ UNCHANGED <<phase, now, harq, used, received, halted>>
    BY DEF Select
  <1>2. used = {} /\ OwnSlots(xapp) /\ AllFree
    BY <1>1 DEF RInv, Current
  <1>3. AllFree'
    BY <1>1, <1>2 DEF AllFree
  <1>4. CASE d \in DOMAIN xapp /\ now \in DOMAIN xapp[d].slotAllocations
    <2> DEFINE a  == xapp[d].slotAllocations[now]
               hs == GetDestinationHarqMap(harq, a.dstL2Id)
               r == [xapp[d] EXCEPT !.slotAllocations = Without(@, {now})]
               w == Without(xapp[d].slotAllocations, {now})
    <2>1. a.ndi /\ a.dstL2Id = d
      BY <1>2, <1>4 DEF OwnSlots
    <2>2. /\ grantInfo' = Emplace(grantInfo, d, xapp[d])
          /\ xapp' = [xapp EXCEPT ![d] = r]
      BY <1>4, <2>1 DEF Select
    <2>3. xapp[d] \in XappGrants /\ xapp[d].slotAllocations \in Allocations
      BY <1>4, StoresAre DEF IInv, Types, XappGrants
    <2>4. /\ DOMAIN w = DOMAIN xapp[d].slotAllocations \ {now}
          /\ \A s \in DOMAIN w : w[s] = xapp[d].slotAllocations[s]
      BY DEF Without
    <2>5. r.slotAllocations = w
      BY <2>3 DEF XappGrants
    <2> HIDE DEF r, w
    <2>6. /\ DOMAIN xapp' = DOMAIN xapp /\ xapp'[d].slotAllocations = w
          /\ \A e \in DOMAIN xapp \ {d} : xapp'[e] = xapp[e]
      BY <1>4, <2>2, <2>5
    <2>7. OwnSlots(xapp')
      <3> SUFFICES ASSUME NEW k \in DOMAIN xapp', NEW s \in DOMAIN xapp'[k].slotAllocations
                   PROVE  /\ xapp'[k].slotAllocations[s].dstL2Id = k
                          /\ xapp'[k].slotAllocations[s].ndi
        BY DEF OwnSlots
      <3>1. CASE k = d
        BY <1>2, <1>4, <2>4, <2>6, <3>1 DEF OwnSlots
      <3>2. CASE k # d
        BY <1>2, <2>6, <3>2 DEF OwnSlots
      <3> QED
        BY <3>1, <3>2
    <2>8. /\ SlotsOf(xapp', d) = SlotsOf(xapp, d) \ {now} /\ now \in SlotsOf(xapp, d)
          /\ \A e \in Dst \ {d} : SlotsOf(xapp', e) = SlotsOf(xapp, e)
      BY <1>4, <2>4, <2>6 DEF SlotsOf
    <2>9. Ahead'
      <3> SUFFICES ASSUME NEW e \in Dst, NEW s \in SlotsOf(xapp', e)
                   PROVE  s > now \/ (s = now /\ phase = "select" /\ e \in todo')
        BY <1>1 DEF Ahead
      <3>1. s \in SlotsOf(xapp, e) /\ (e = d => s # now)
        BY <2>8
      <3>2. s > now \/ (s = now /\ phase = "select" /\ e \in todo)
        BY <3>1 DEF RInv, Ahead
      <3> QED
        BY <1>1, <3>1, <3>2
    <2>10. /\ DOMAIN grantInfo' = DOMAIN grantInfo \cup {d}
           /\ \A e \in DOMAIN grantInfo : grantInfo'[e] = grantInfo[e]
           /\ d \notin DOMAIN grantInfo => grantInfo'[d] = xapp[d]
      BY <2>2 DEF Emplace
    <2>11. Current'
      <3>1. \A e \in DOMAIN grantInfo' : \A s \in DOMAIN grantInfo'[e].slotAllocations : now <= s
        <4> SUFFICES ASSUME NEW e \in DOMAIN grantInfo',
                            NEW s \in DOMAIN grantInfo'[e].slotAllocations
                     PROVE  now <= s
          OBVIOUS
        <4>1. CASE e \in DOMAIN grantInfo
          BY <1>1, <2>10, <4>1 DEF RInv, Current, Extracted
        <4>2. CASE e \notin DOMAIN grantInfo
          <5>1. s \in SlotsOf(xapp, d) /\ s \in DOMAIN xapp[d].slotAllocations
            BY <1>4, <2>10, <4>2 DEF SlotsOf
          <5>2. s > now \/ s = now
            BY <5>1 DEF RInv, Ahead
          <5>3. s \in Nat /\ now \in Nat
            BY <2>3, <5>1, AllocationsAre, XappAssumption DEF IInv, Types, Slots
          <5> QED
            BY <5>2, <5>3
        <4> QED
          BY <4>1, <4>2
      <3>2. Extracted' = DOMAIN grantInfo'
        BY <1>1 DEF Extracted
      <3> QED
        BY <1>1, <1>2, <3>1, <3>2 DEF Current
    <2>12. RInv'
      BY <1>3, <2>7, <2>9, <2>11 DEF RInv
    <2>13. \A e \in Dst : SlotsOf(xapp', e) \cup {s \in {now} : e \in DOMAIN grantInfo' /\ e \notin used}
                        = SlotsOf(xapp, e) \cup {s \in {now} : e \in DOMAIN grantInfo /\ e \notin used}
      <3> TAKE e \in Dst
      <3>1. CASE e = d
        BY <1>2, <2>8, <2>10, <3>1
      <3>2. CASE e # d
        BY <2>8, <2>10, <3>2
      <3> QED
        BY <3>1, <3>2
    <2>14. Left(xapp', grantInfo', used', now') = Left(xapp, grantInfo, used, now)
      BY <1>1, <2>13 DEF Left
    <2> QED
      BY <1>1, <2>12, <2>14, Stutters
  <1>5. CASE ~(d \in DOMAIN xapp /\ now \in DOMAIN xapp[d].slotAllocations)
    <2>1. UNCHANGED <<xapp, grantInfo>>
      BY <1>5 DEF Select
    <2>2. now \notin SlotsOf(xapp, d)
      BY <1>5 DEF SlotsOf
    <2>3. Ahead'
      BY <1>1, <2>1, <2>2 DEF RInv, Ahead
    <2>4. Current'
      BY <1>1, <2>1 DEF RInv, Current, Extracted
    <2>5. RInv'
      BY <1>2, <1>3, <2>1, <2>3, <2>4 DEF RInv
    <2> QED
      BY <1>1, <2>1, <2>5, Stutters
  <1> QED
    BY <1>4, <1>5

\* The end of the look-up changes no slot.
LEMMA SelectDoneRefines ==
    ASSUME IInv, RInv, IInv', SelectDone
    PROVE  Refines
  <1>1. /\ phase = "select" /\ todo = {} /\ phase' = "transmit" /\ todo' = DOMAIN grantInfo
        /\ UNCHANGED <<now, xapp, grantInfo, harq, used, received, halted>>
    BY DEF SelectDone
  <1>2. Ahead'
    BY <1>1 DEF RInv, Ahead
  <1>3. Current'
    BY <1>1 DEF RInv, Current, Extracted
  <1>4. RInv'
    BY <1>1, <1>2, <1>3 DEF RInv, AllFree
  <1> QED
    BY <1>1, <1>4, Stutters

\* At the end of the loop no slot is left behind.
LEMMA TransmitDoneRefines ==
    ASSUME IInv, RInv, IInv', TransmitDone
    PROVE  Refines
  <1>1. /\ phase = "transmit" /\ todo = {} /\ phase' = "idle"
        /\ UNCHANGED <<todo, now, xapp, grantInfo, harq, used, received, halted>>
    BY DEF TransmitDone
  <1>2. Ahead'
    BY <1>1 DEF RInv, Ahead
  <1>3. Current'
    BY <1>1 DEF RInv, Current, Extracted
  <1>4. RInv'
    BY <1>1, <1>2, <1>3 DEF RInv, AllFree
  <1> QED
    BY <1>1, <1>4, Stutters

\* Every grant of the loop is due: its first slot is the current one.
LEMMA AlwaysDue ==
    ASSUME IInv, RInv, NEW d \in todo, phase = "transmit" PROVE Due(grantInfo[d])
  <1> DEFINE g == grantInfo[d]
  <1>1. g \in XappGrants /\ g.slotAllocations \in Allocations /\ now \in DOMAIN g.slotAllocations
    BY Visited
  <1>2. g.slResoReselCounter = 1
    BY <1>1 DEF XappGrants
  <1>3. \A s \in DOMAIN g.slotAllocations : now <= s
    BY DEF RInv, Current, Extracted
  <1>4. Begin(g.slotAllocations) \in DOMAIN g.slotAllocations /\ Begin(g.slotAllocations) <= now
    BY <1>1, FirstSlot
  <1>5. DOMAIN g.slotAllocations \subseteq Nat
    BY <1>1, AllocationsAre, XappAssumption DEF Slots
  <1>6. Begin(g.slotAllocations) = now
    BY <1>1, <1>3, <1>4, <1>5
  <1> QED
    BY <1>2, <1>6 DEF Due

\* No retransmission is ever ready.
LEMMA NeverAgain ==
    ASSUME IInv, RInv, NEW d \in Dst PROVE ~TransmitAgain(d)
  BY TransmitAgainSteps, AllFreeHasOne DEF RInv

\* A transmission is a step Use.
LEMMA TransmitNewRefines ==
    ASSUME IInv, RInv, IInv', NSelected = 1, NEW d \in Dst, TransmitNew(d)
    PROVE  Refines
  <1>1. CASE Abort
    <2>1. UNCHANGED <<phase, todo, now, xapp, grantInfo, harq, used, received>>
      BY <1>1 DEF Abort
    <2>2. RInv'
      BY <2>1 DEF RInv, Ahead, Current, Extracted, AllFree
    <2> QED
      BY <2>1, <2>2, Stutters
  <1>2. CASE ~Abort
    <2>1. /\ phase = "transmit" /\ d \in todo
          /\ todo' = todo \ {d} /\ used' = used \cup {d}
          /\ DOMAIN grantInfo' = DOMAIN grantInfo
          /\ \A e \in DOMAIN grantInfo \ {d} : grantInfo'[e] = grantInfo[e]
          /\ \A k \in HarqIds : IsHarqIdAvaiable(harq, k) => IsHarqIdAvaiable(harq', k)
          /\ UNCHANGED <<phase, now, xapp, received, halted>>
      BY <1>2, TransmitNewSteps
    <2>2. DOMAIN grantInfo = todo \cup used /\ todo \cap used = {}
      BY <2>1 DEF RInv, Current
    <2>3. \A e \in Dst : \A s \in SlotsOf(xapp, e) : s > now
      BY <2>1 DEF RInv, Ahead
    <2>4. RInv'
      <3>1. Ahead'
        BY <2>1, <2>3 DEF Ahead
      <3>2. \A e \in todo \ {d} : \A s \in DOMAIN grantInfo'[e].slotAllocations : now <= s
        BY <2>1, <2>2 DEF RInv, Current, Extracted
      <3>3. Current'
        BY <2>1, <2>2, <3>2 DEF Current, Extracted
      <3>4. AllFree' /\ OwnSlots(xapp')
        BY <2>1 DEF RInv, AllFree
      <3> QED
        BY <3>1, <3>3, <3>4 DEF RInv
    <2>5. now \in Nat
      BY XappAssumption DEF IInv, Types
    <2>6. now \notin SlotsOf(xapp, d)
      BY <2>3, <2>5
    <2>7. \A e \in Dst : Scheduled[e] = SlotsOf(xapp, e)
                            \cup {s \in {now} : e \in DOMAIN grantInfo /\ e \notin used}
      BY ScheduledNow DEF Left
    <2>8. Scheduled[d] = SlotsOf(xapp, d) \cup {now}
      BY <2>1, <2>2, <2>7
    <2>9. Scheduled' = [e \in Dst |-> SlotsOf(xapp, e)
                          \cup {s \in {now} : e \in DOMAIN grantInfo /\ e \notin used \cup {d}}]
      BY <2>1, <2>4, ScheduledNext DEF Left
    <2>10. Scheduled = [e \in Dst |-> Scheduled[e]]
      BY ScheduledNow DEF Left
    <2>11. \A e \in Dst : Scheduled'[e] = IF e = d THEN Scheduled[d] \ {now} ELSE Scheduled[e]
      <3> TAKE e \in Dst
      <3>1. CASE e = d
        BY <2>6, <2>8, <2>9, <3>1
      <3>2. CASE e # d
        BY <2>7, <2>9, <3>2
      <3> QED
        BY <3>1, <3>2
    <2>12. Scheduled' = [Scheduled EXCEPT ![d] = @ \ {now}]
      <3> DEFINE A == Scheduled
                 B == Scheduled'
      <3>1. A = [e \in Dst |-> A[e]] /\ B = [e \in Dst |-> B[e]]
        BY <2>9, <2>10
      <3>2. \A e \in Dst : B[e] = IF e = d THEN A[d] \ {now} ELSE A[e]
        BY <2>11
      <3> HIDE DEF A, B
      <3>3. B = [A EXCEPT ![d] = @ \ {now}]
        BY <3>1, <3>2
      <3> QED
        BY <3>3 DEF A, B
    <2>13. Abstract!Use(d)
      BY <2>1, <2>8, <2>12 DEF Abstract!Use
    <2> QED
      BY <2>4, <2>13 DEF Refines, Abstract!Next
  <1> QED
    BY <1>1, <1>2

\* Every step is a step of the schedule or changes nothing of it.
LEMMA NextRefines ==
    ASSUME IInv, RInv, NSelected = 1, MaxDstPerMessage = 1, ~AllowLate, [Next]_vars
    PROVE  Refines
  <1>0. IInv'
    BY NextIInv
  <1>1. CASE UNCHANGED vars
    <2>1. UNCHANGED <<phase, todo, now, xapp, grantInfo, harq, used, received>>
      BY <1>1 DEF vars
    <2>2. RInv'
      BY <2>1 DEF RInv, Ahead, Current, Extracted, AllFree
    <2> QED
      BY <1>0, <2>1, <2>2, Stutters
  <1>2. CASE Ended
    BY <1>1, <1>2 DEF Ended
  <1>3. CASE Receive
    BY <1>0, <1>3, ReceiveRefines
  <1>4. CASE SlotIndication
    BY <1>0, <1>4, SlotIndicationRefines
  <1>5. CASE SelectDone
    BY <1>0, <1>5, SelectDoneRefines
  <1>6. CASE TransmitDone
    BY <1>0, <1>6, TransmitDoneRefines
  <1>7. ASSUME NEW d \in Dst, Select(d) PROVE Refines
    BY <1>0, <1>7, SelectRefines
  <1>8. ASSUME NEW d \in Dst, NothingDue(d) PROVE Refines
    BY <1>8, AlwaysDue DEF NothingDue
  <1>9. ASSUME NEW d \in Dst, TransmitNew(d) PROVE Refines
    BY <1>0, <1>9, TransmitNewRefines
  <1>10. ASSUME NEW d \in Dst, TransmitAgain(d) PROVE Refines
    BY <1>10, NeverAgain
  <1> QED
    BY <1>1, <1>2, <1>3, <1>4, <1>5, <1>6, <1>7, <1>8, <1>9, <1>10 DEF Next

\* V2xE2Scheduling and the slot handler implement the schedule that an xApp
\* may rely on, when its messages are for one destination each, in time and
\* without retransmissions: a new schedule replaces the slots of the old one
\* and no slot goes by unused.
THEOREM ImplementsSchedule ==
    ASSUME NSelected = 1, MaxDstPerMessage = 1, ~AllowLate
    PROVE  Spec => FollowsSchedule
  <1>1. Init => Abstract!Init
    <2> SUFFICES ASSUME Init PROVE Abstract!Init
      OBVIOUS
    <2>1. IInv /\ RInv
      BY InitIInv, InitRInv
    <2>2. xapp = <<>> /\ grantInfo = <<>> /\ now = 0 /\ received = {} /\ used = {}
      BY DEF Init
    <2>3. DOMAIN xapp = {} /\ DOMAIN grantInfo = {}
      BY <2>2
    <2>4. Scheduled = [d \in Dst |-> {}]
      BY <2>1, <2>3, ScheduledNow DEF Left, SlotsOf
    <2> QED
      BY <2>2, <2>4 DEF Abstract!Init
  <1>2. IInv /\ RInv /\ [Next]_vars => RInv' /\ [Abstract!Next]_AbstractVars
    BY NextRefines DEF Refines
  <1>3. Init => RInv
    BY InitRInv
  <1> QED
    BY <1>1, <1>2, <1>3, Invariance, PTL DEF Spec, FollowsSchedule, Abstract!Spec, AbstractVars
=============================================================================
