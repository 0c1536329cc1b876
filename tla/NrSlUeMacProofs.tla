-------------------------- MODULE NrSlUeMacProofs --------------------------
(***************************************************************************)
(* Proofs about NrSlUeMac, for any number of destinations, processes,      *)
(* slots and retransmissions.                                              *)
(***************************************************************************)
EXTENDS NrSlUeMac, FiniteSetTheorems, TLAPS

----------------------------------------------------------------------------
(* The inductive invariants                                                *)

\* Both counters of a grant run down together, and each time the resources
\* are kept the re-selection counter starts again from its first value.
CountersOK(g) ==
    \E m \in Nat :
        g.cReselCounter = g.slResoReselCounter + m * g.prevSlResoReselCounter

\* tbTxCounter stays at one in a grant without retransmissions and is
\* otherwise below nSelected; the counter is not zero while a TB is in flight.
TbOK(g) ==
    /\ g.tbTxCounter <= g.nSelected
    /\ g.nSelected > 1 => g.tbTxCounter < g.nSelected
    /\ InFlight(g) => g.slResoReselCounter # 0

\* The slots of a grant are those of the rest of the current TB followed by
\* those of the next ones, each TB taking nSelected slots.
SlotsOK(g) ==
    LET s == g.slotAllocations
        n == g.nSelected
    IN  /\ g.slResoReselCounter # 0 => s # <<>>
        /\ s # <<>> => /\ n > 0
                       /\ Len(s) = g.cReselCounter * n - Sent(g)
                       /\ s[1].txIdx = Sent(g)
        /\ \A k \in 1..Len(s) : s[k].txIdx < n
        /\ \A k \in 1..(Len(s) - 1) :
             s[k + 1].txIdx = IF s[k].txIdx = n - 1 THEN 0 ELSE s[k].txIdx + 1

\* Slots of the same TB are no further apart than the window is long.
Close(g) ==
    LET s == g.slotAllocations
    IN  \A i, j \in 1..Len(s) :
           i <= j /\ s[j].txIdx - s[i].txIdx = j - i => s[j].sfn - s[i].sfn <= T2 - T1

GrantOK(g) == CountersOK(g) /\ TbOK(g) /\ SlotsOK(g) /\ Close(g)

GrantsOK == \A d \in Dst : GrantOK(grantInfo[d])

\* A logical channel is added before anything is granted to its destination.
OnlyDestinations == \A d \in Dst \ destinations : grantInfo[d].slotAllocations = <<>>

\* The process that is sending a TB of destination d, and what the HARQ entity
\* keeps about these processes.
Owned == [d \in Dst |-> IF InFlight(grantInfo[d]) THEN grantInfo[d].nrSlHarqId ELSE NoHarq]

Accounted(hq, own) ==
    /\ \A i, j \in 1..Len(hq.ids) : hq.ids[i] = hq.ids[j] => i = j
    /\ \A h \in HarqIds :
         IF IsHarqIdAvaiable(hq, h)
         THEN hq.pkt[h] = EmptyEntry
         ELSE \E d \in Dst : hq.pkt[h].dstL2Id = d /\ own[d] = h
    /\ \A d \in Dst : own[d] # NoHarq => BelongsTo(hq, own[d], d)

ProcessNamed == \A d \in Dst : InFlight(grantInfo[d]) => grantInfo[d].nrSlHarqId \in HarqIds

IInv == TypeOK /\ GrantsOK /\ ProcessNamed /\ Accounted(harq, Owned)

\* Slots are in order of time, none before slot b.
SlotsFrom(g, b) ==
    LET s == g.slotAllocations
    IN  /\ \A k \in 1..Len(s) : s[k].sfn >= b
        /\ \A i, j \in 1..Len(s) : i < j => s[i].sfn < s[j].sfn

\* The grant is usable in the transmission loop.
Active(g) == g.slResoReselCounter # 0 \/ g.slotAllocations = <<>>

\* Where the slots of a destination lie and whether its grant is usable, by
\* what the slot handler has done in this slot.
TimingOK(d) ==
    LET g == grantInfo[d]
    IN  /\ phase \in {"idle", "phy"} => SlotsFrom(g, 1)
        /\ phase = "select" => SlotsFrom(g, 0) /\ (d \in todo \/ Active(g))
        /\ phase = "transmit" => IF d \in todo THEN SlotsFrom(g, 0) /\ Active(g)
                                 ELSE SlotsFrom(g, 1)

TimingInv ==
    /\ ~halted
    /\ OnlyDestinations
    /\ phase = "select" => todo \subseteq destinations
    /\ \A d \in Dst : TimingOK(d)

\* The first slot that has not been handled: 1 when the slot handler is done with
\* destination d in the current slot, and 0 before.
Frontier(d) ==
    IF phase \in {"idle", "phy"} \/ (phase = "transmit" /\ d \notin todo) THEN 1 ELSE 0

\* The slots of a grant lie ahead unless the first one was missed, which never
\* happens while a TB is in flight.
Punctual(d) ==
    LET g == grantInfo[d]
        s == g.slotAllocations
    IN  /\ SlotsFrom(g, Frontier(d)) \/ Head(s).sfn < Frontier(d)
        /\ InFlight(g) => SlotsFrom(g, Frontier(d))

\* The slots up to the next SCI 1-A are among the indicated ones.
Announced(g, ind) ==
    LET s == g.slotAllocations
    IN  \A k \in 1..Len(s) : (\A j \in 1..k : ~TxSci1A(s[j])) => s[k].sfn \in ind

\* The process of a TB in flight holds a packet: the grant was not wasted.
Loaded(d) == InFlight(grantInfo[d]) /\ GetPacketBurst(harq, grantInfo[d].nrSlHarqId) > 0

\* A TB is in the burst only between its transmission and the end of the slot.
OnAir(tb) ==
    /\ phase \in {"transmit", "phy"}
    /\ phase = "transmit" => tb.dst \notin todo
    /\ tb.sci1A \/ 0 \in indicated[tb.dst]

IndicationInv ==
    /\ \A d \in Dst : Punctual(d)
    /\ \A d \in Dst : Loaded(d) => Announced(grantInfo[d], indicated[d])
    /\ \A tb \in pssch : OnAir(tb)

----------------------------------------------------------------------------
(* Arithmetic                                                              *)

\* Division with remainder by a positive number.
LEMMA DivMod ==
    ASSUME NEW k \in Nat, NEW n \in Nat, n > 0
    PROVE  /\ k \div n \in Nat /\ k % n \in 0..(n - 1)
           /\ k = n * (k \div n) + (k % n)
  OBVIOUS

\* A product with a positive factor is at least the other factor.
LEMMA MultGrows ==
    ASSUME NEW a \in Nat, NEW b \in Nat, b > 0
    PROVE  a * b \in Nat /\ a * b >= a
  OBVIOUS

\* Products of naturals are naturals.
LEMMA MultNat ==
    ASSUME NEW a \in Nat, NEW b \in Nat
    PROVE  a * b \in Nat
  OBVIOUS

\* Multiplication by a positive number keeps a gap of one as a whole period.
LEMMA MultGap ==
    ASSUME NEW a \in Nat, NEW b \in Nat, NEW p \in Nat, a < b
    PROVE  a * p \in Nat /\ b * p \in Nat /\ b * p >= a * p + p
  <1>1. b - a \in Nat /\ b - a >= 1
    OBVIOUS
  <1>2. (b - a) * p >= p
    BY <1>1
  <1>3. b * p = a * p + (b - a) * p
    OBVIOUS
  <1> QED
    BY <1>2, <1>3

\* The division of k + 1: the remainder grows by one or wraps around.
LEMMA ModSucc ==
    ASSUME NEW k \in Nat, NEW n \in Nat, n > 0
    PROVE  (k + 1) % n = IF k % n = n - 1 THEN 0 ELSE (k % n) + 1
  <1> DEFINE q == k \div n
             r == k % n
             u == (k + 1) \div n
             v == (k + 1) % n
  <1>1. /\ q \in Nat /\ r \in 0..(n - 1) /\ k = n * q + r
        /\ u \in Nat /\ v \in 0..(n - 1) /\ k + 1 = n * u + v
    BY DivMod
  <1>2. n * u + v = n * q + r + 1
    BY <1>1
  <1> HIDE DEF q, r, u, v
  <1>3. ~(u < q)
    <2> SUFFICES ASSUME u < q PROVE FALSE
      OBVIOUS
    <2>1. q * n >= u * n + n
      BY <1>1, MultGap
    <2> QED
      BY <1>1, <1>2, <2>1
  <1>4. ~(q + 1 < u)
    <2> SUFFICES ASSUME q + 1 < u PROVE FALSE
      OBVIOUS
    <2>1. u * n >= (q + 1) * n + n
      BY <1>1, MultGap
    <2>2. (q + 1) * n = q * n + n
      BY <1>1
    <2> QED
      BY <1>1, <1>2, <2>1, <2>2
  <1>5. u = q \/ u = q + 1
    BY <1>1, <1>3, <1>4
  <1>6. CASE u = q
    BY <1>1, <1>2, <1>6 DEF r, v
  <1>7. CASE u = q + 1
    <2>1. n * u = n * q + n
      BY <1>1, <1>7
    <2>2. v + n = r + 1
      BY <1>1, <1>2, <2>1
    <2> QED
      BY <1>1, <2>2 DEF r, v
  <1> QED
    BY <1>5, <1>6, <1>7

\* Two positions of a list cut into rows of n: a later one is in the same row
\* further right, or in a later row.
LEMMA DivModOrder ==
    ASSUME NEW i \in Nat, NEW j \in Nat, i < j, NEW n \in Nat, n > 0
    PROVE  \/ i \div n = j \div n /\ i % n < j % n
           \/ i \div n < j \div n
  <1> DEFINE q == i \div n
             r == i % n
             u == j \div n
             v == j % n
  <1>1. /\ q \in Nat /\ r \in 0..(n - 1) /\ i = n * q + r
        /\ u \in Nat /\ v \in 0..(n - 1) /\ j = n * u + v
    BY DivMod
  <1>2. n * q + r < n * u + v
    BY <1>1
  <1> HIDE DEF q, r, u, v
  <1>3. ~(u < q)
    <2> SUFFICES ASSUME u < q PROVE FALSE
      OBVIOUS
    <2>1. q * n >= u * n + n
      BY <1>1, MultGap
    <2> QED
      BY <1>1, <1>2, <2>1
  <1>4. q = u => r < v
    BY <1>1, <1>2
  <1> QED
    BY <1>1, <1>3, <1>4 DEF q, r, u, v

\* Positions whose distance is that of their columns are in the same row.
LEMMA DivSame ==
    ASSUME NEW i \in Nat, NEW j \in Nat, NEW n \in Nat, n > 0,
           (j % n) - (i % n) = j - i
    PROVE  j \div n = i \div n
  OBVIOUS

\* A small number is its own remainder.
LEMMA ModSmall ==
    ASSUME NEW a \in Nat, NEW b \in Nat, a < b
    PROVE  a % b = a
  OBVIOUS

----------------------------------------------------------------------------
(* Grants                                                                  *)

\* The scheduler returns at least one slot of a non-empty set of
\* opportunities, in order of time.
LEMMA SelectedSlots ==
    ASSUME NEW S \in SUBSET SelectionWindow, S # {}, NEW sel \in RandomlySelectSlots(S)
    PROVE  /\ sel \in Seq(SelectionWindow) /\ Len(sel) > 0
           /\ \A i, j \in 1..Len(sel) : i < j => sel[i] < sel[j]
  <1> DEFINE total == Cardinality(S)
             n     == IF total > MaxTx THEN MaxTx ELSE total
  <1>1. IsFiniteSet(S)
    <2>1. IsFiniteSet(SelectionWindow)
      BY WindowAssumption, FS_Interval DEF SelectionWindow
    <2> QED
      BY <2>1, FS_Subset
  <1>2. total \in Nat /\ total # 0
    BY <1>1, FS_CardinalityType, FS_EmptySet
  <1>3. n \in Nat /\ n > 0
    BY <1>2, PoolAssumption
  <1>4. /\ sel \in [1..n -> S]
        /\ \A i, j \in 1..n : i < j => sel[i] < sel[j]
    BY DEF RandomlySelectSlots
  <1> HIDE DEF n
  <1>5. sel \in [1..n -> SelectionWindow]
    BY <1>4
  <1>6. sel \in Seq(SelectionWindow) /\ Len(sel) = n
    BY <1>3, <1>5
  <1> QED
    BY <1>3, <1>4, <1>6

\* A fresh grant.
LEMMA NewGrant ==
    ASSUME NEW sel \in Seq(SelectionWindow), Len(sel) > 0,
           \A i, j \in 1..Len(sel) : i < j => sel[i] < sel[j],
           NEW c \in ReselCounters
    PROVE  LET g == CreateGrantInfo(sel, c)
           IN  /\ g \in NrSlGrantInfo /\ GrantOK(g) /\ SlotsFrom(g, 0)
               /\ ~InFlight(g) /\ g.slResoReselCounter # 0
  <1> DEFINE g == CreateGrantInfo(sel, c)
             n == Len(sel)
             cResel == CReselFactor * c
             s == g.slotAllocations
             len == cResel * n
  <1>1. n \in Nat /\ n > 0 /\ c \in Nat /\ c > 0 /\ CReselFactor \in Nat /\ CReselFactor > 0
    BY CounterAssumption
  <1>2. cResel \in Nat /\ cResel >= c
    BY <1>1, MultGrows
  <1>3. len \in Nat /\ len >= cResel
    BY <1>1, <1>2, MultGrows
  <1>4. /\ g.cReselCounter = cResel /\ g.slResoReselCounter = c
        /\ g.prevSlResoReselCounter = c /\ g.nSelected = n
        /\ g.tbTxCounter = 0 /\ g.nrSlHarqId = NoHarq
        /\ s = [k \in 1..len |->
                   [sfn   |-> sel[((k - 1) % n) + 1] + ((k - 1) \div n) * ResvPeriod,
                    txIdx |-> (k - 1) % n]]
    BY DEF CreateGrantInfo
  <1>5. \A k \in 1..len : /\ k - 1 \in Nat
                          /\ (k - 1) \div n \in Nat /\ (k - 1) % n \in 0..(n - 1)
    BY <1>1, <1>3, DivMod
  <1>6. \A k \in 1..len :
          /\ sel[((k - 1) % n) + 1] \in T1..T2
          /\ ((k - 1) \div n) * ResvPeriod \in Nat
    <2> SUFFICES ASSUME NEW k \in 1..len
                 PROVE  /\ sel[((k - 1) % n) + 1] \in T1..T2
                        /\ ((k - 1) \div n) * ResvPeriod \in Nat
      OBVIOUS
    <2> DEFINE q == (k - 1) \div n
               r == (k - 1) % n
    <2>1. q \in Nat /\ r \in 0..(n - 1)
      BY <1>5
    <2> HIDE DEF q, r
    <2>2. r + 1 \in 1..n
      BY <1>1, <2>1
    <2>3. sel[r + 1] \in T1..T2
      <3>1. sel[r + 1] \in SelectionWindow
        BY <2>2
      <3> QED
        BY <3>1 DEF SelectionWindow
    <2>4. q * ResvPeriod \in Nat
      BY <2>1, WindowAssumption, MultNat
    <2> QED
      BY <2>3, <2>4 DEF q, r
  <1> HIDE DEF g, n, cResel, len
  <1>7. /\ s \in Seq(SlotAlloc) /\ Len(s) = len
        /\ \A k \in 1..len :
             /\ s[k].txIdx = (k - 1) % n
             /\ s[k].sfn = sel[((k - 1) % n) + 1] + ((k - 1) \div n) * ResvPeriod
             /\ s[k].sfn \in Nat
    <2>1. \A k \in 1..len :
            [sfn   |-> sel[((k - 1) % n) + 1] + ((k - 1) \div n) * ResvPeriod,
             txIdx |-> (k - 1) % n] \in SlotAlloc
      BY <1>1, <1>5, <1>6, WindowAssumption DEF SlotAlloc
    <2>2. s \in [1..len -> SlotAlloc]
      BY <1>4, <2>1
    <2>3. s \in Seq(SlotAlloc) /\ Len(s) = len
      BY <1>3, <2>2
    <2>4. \A k \in 1..len :
            /\ s[k].txIdx = (k - 1) % n
            /\ s[k].sfn = sel[((k - 1) % n) + 1] + ((k - 1) \div n) * ResvPeriod
      BY <1>4
    <2>5. \A k \in 1..len : sel[((k - 1) % n) + 1] + ((k - 1) \div n) * ResvPeriod \in Nat
      BY <1>6, WindowAssumption
    <2> QED
      BY <2>3, <2>4, <2>5
  <1>8. g \in NrSlGrantInfo
    <2>1. g = [cReselCounter |-> cResel, slResoReselCounter |-> c,
               prevSlResoReselCounter |-> c, nSelected |-> n, tbTxCounter |-> 0,
               nrSlHarqId |-> NoHarq, slotAllocations |-> s]
      BY DEF CreateGrantInfo, g, n, cResel
    <2> QED
      BY <1>1, <1>2, <1>7, <2>1 DEF NrSlGrantInfo, NoHarq
  <1>9. ~InFlight(g) /\ Sent(g) = 0
    BY <1>4 DEF InFlight, Sent
  <1>10. CountersOK(g)
    <2>1. PICK m \in Nat : CReselFactor = m + 1
      <3>1. CReselFactor - 1 \in Nat /\ CReselFactor = (CReselFactor - 1) + 1
        BY <1>1
      <3> QED
        BY <3>1
    <2>2. (m + 1) * c = c + m * c
      BY <1>1
    <2> QED
      BY <1>4, <2>1, <2>2 DEF CountersOK, cResel
  <1>11. TbOK(g)
    BY <1>1, <1>4, <1>9 DEF TbOK
  <1>12. SlotsOK(g)
    <2>1. s # <<>> /\ n > 0 /\ len > 0
      BY <1>1, <1>2, <1>3, <1>7
    <2>2. Len(s) = g.cReselCounter * g.nSelected - Sent(g)
      BY <1>1, <1>2, <1>3, <1>4, <1>7, <1>9 DEF len
    <2>3. s[1].txIdx = 0
      <3>1. 0 % n = 0
        BY <1>1
      <3> QED
        BY <1>3, <1>7, <2>1, <3>1
    <2>4. \A k \in 1..Len(s) : s[k].txIdx < n
      <3> SUFFICES ASSUME NEW k \in 1..len PROVE s[k].txIdx < n
        BY <1>7
      <3>1. (k - 1) % n \in 0..(n - 1)
        BY <1>5
      <3>2. s[k].txIdx \in 0..(n - 1)
        BY <1>7, <3>1
      <3> QED
        BY <1>1, <3>2
    <2>5. \A k \in 1..(Len(s) - 1) :
            s[k + 1].txIdx = IF s[k].txIdx = n - 1 THEN 0 ELSE s[k].txIdx + 1
      <3> SUFFICES ASSUME NEW k \in 1..(len - 1)
                   PROVE  s[k + 1].txIdx = IF s[k].txIdx = n - 1 THEN 0 ELSE s[k].txIdx + 1
        BY <1>7
      <3>1. /\ k \in 1..len /\ k + 1 \in 1..len
            /\ (k + 1) - 1 = (k - 1) + 1 /\ k - 1 \in Nat
        BY <1>3
      <3>2. ((k - 1) + 1) % n = IF (k - 1) % n = n - 1 THEN 0 ELSE ((k - 1) % n) + 1
        BY <1>1, <3>1, ModSucc
      <3> QED
        BY <1>7, <3>1, <3>2
    <2> QED
      BY <1>4, <1>9, <2>1, <2>2, <2>3, <2>4, <2>5 DEF SlotsOK
  <1>13. SlotsFrom(g, 0)
    <2>1. ASSUME NEW i \in 1..len, NEW j \in 1..len, i < j
          PROVE  s[i].sfn < s[j].sfn
      <3> DEFINE q == (i - 1) \div n
                 r == (i - 1) % n
                 u == (j - 1) \div n
                 v == (j - 1) % n
      <3>1. /\ q \in Nat /\ r \in 0..(n - 1) /\ u \in Nat /\ v \in 0..(n - 1)
            /\ sel[r + 1] \in T1..T2 /\ sel[v + 1] \in T1..T2
            /\ s[i].sfn = sel[r + 1] + q * ResvPeriod
            /\ s[j].sfn = sel[v + 1] + u * ResvPeriod
        BY <1>5, <1>6, <1>7
      <3>2. (q = u /\ r < v) \/ q < u
        BY <1>1, <1>5, <2>1, DivModOrder
      <3> HIDE DEF q, r, u, v
      <3>3. q * ResvPeriod \in Nat /\ u * ResvPeriod \in Nat
        BY <3>1, WindowAssumption, MultNat
      <3>4. CASE q = u /\ r < v
        <4>1. r + 1 \in 1..n /\ v + 1 \in 1..n /\ r + 1 < v + 1
          BY <1>1, <3>1, <3>4
        <4>2. sel[r + 1] < sel[v + 1]
          BY <4>1 DEF n
        <4> QED
          BY <3>1, <3>3, <3>4, <4>2, WindowAssumption
      <3>5. CASE q < u
        <4>1. u * ResvPeriod >= q * ResvPeriod + ResvPeriod
          BY <3>1, <3>5, MultGap, WindowAssumption
        <4> DEFINE a == sel[r + 1]
                   b == sel[v + 1]
                   x == q * ResvPeriod
                   y == u * ResvPeriod
        <4>2. a \in Int /\ b \in Int /\ a <= T2 /\ b >= T1
          BY <3>1, WindowAssumption
        <4>3. x \in Nat /\ y \in Nat /\ y >= x + ResvPeriod
          BY <3>3, <4>1
        <4> HIDE DEF a, b, x, y
        <4>4. a + x < b + y
          BY <4>2, <4>3, WindowAssumption
        <4> QED
          BY <3>1, <4>4 DEF a, b, x, y
      <3> QED
        BY <3>2, <3>4, <3>5
    <2> QED
      BY <1>7, <2>1 DEF SlotsFrom
  <1>14. Close(g)
    <2>1. ASSUME NEW i \in 1..len, NEW j \in 1..len, i <= j,
                 s[j].txIdx - s[i].txIdx = j - i
          PROVE  s[j].sfn - s[i].sfn <= T2 - T1
      <3> DEFINE q == (i - 1) \div n
                 r == (i - 1) % n
                 u == (j - 1) \div n
                 v == (j - 1) % n
      <3>1. /\ q \in Nat /\ r \in 0..(n - 1) /\ u \in Nat /\ v \in 0..(n - 1)
            /\ sel[r + 1] \in T1..T2 /\ sel[v + 1] \in T1..T2
            /\ s[i].sfn = sel[r + 1] + q * ResvPeriod
            /\ s[j].sfn = sel[v + 1] + u * ResvPeriod
            /\ s[i].txIdx = r /\ s[j].txIdx = v
        BY <1>5, <1>6, <1>7
      <3>2. i - 1 \in Nat /\ j - 1 \in Nat /\ v - r = (j - 1) - (i - 1)
        BY <2>1, <3>1
      <3>3. u = q
        BY <1>1, <3>2, DivSame
      <3> HIDE DEF q, r, u, v
      <3>4. q * ResvPeriod \in Nat
        BY <3>1, WindowAssumption, MultNat
      <3> DEFINE a == sel[r + 1]
                 b == sel[v + 1]
                 x == q * ResvPeriod
      <3>5. a \in T1..T2 /\ b \in T1..T2 /\ x \in Nat /\ s[i].sfn = a + x /\ s[j].sfn = b + x
        BY <3>1, <3>3, <3>4
      <3> HIDE DEF a, b, x
      <3>6. (b + x) - (a + x) <= T2 - T1
        BY <3>5, WindowAssumption
      <3> QED
        BY <3>5, <3>6
    <2> QED
      BY <1>7, <2>1 DEF Close
  <1> QED
    BY <1>1, <1>4, <1>8, <1>9, <1>10, <1>11, <1>12, <1>13, <1>14 DEF GrantOK, g

\* A slot later a grant has the same slots, one slot nearer.
LEMMA LaterGrant ==
    ASSUME NEW g \in NrSlGrantInfo
    PROVE  LET n == [g EXCEPT !.slotAllocations = NextSlot(@)]
           IN  /\ n \in NrSlGrantInfo
               /\ GrantOK(g) => GrantOK(n)
               /\ InFlight(n) <=> InFlight(g)
               /\ n.nrSlHarqId = g.nrSlHarqId /\ n.nSelected = g.nSelected
               /\ n.tbTxCounter = g.tbTxCounter
               /\ n.slResoReselCounter = g.slResoReselCounter
               /\ n.slotAllocations = <<>> <=> g.slotAllocations = <<>>
               /\ SlotsFrom(g, 1) => SlotsFrom(n, 0)
  <1> DEFINE s == g.slotAllocations
             t == NextSlot(s)
             n == [g EXCEPT !.slotAllocations = NextSlot(@)]
  <1>1. s \in Seq(SlotAlloc) /\ Len(s) \in Nat
    BY DEF NrSlGrantInfo
  <1>2. \A k \in 1..Len(s) : s[k].sfn \in Int /\ s[k].txIdx \in Nat
    <2>1. \A k \in 1..Len(s) : s[k] \in SlotAlloc
      BY <1>1
    <2> QED
      BY <2>1 DEF SlotAlloc
  <1>3. \A k \in 1..Len(s) :
          /\ [s[k] EXCEPT !.sfn = IF @ < 0 THEN @ ELSE @ - 1] \in SlotAlloc
          /\ [s[k] EXCEPT !.sfn = IF @ < 0 THEN @ ELSE @ - 1].txIdx = s[k].txIdx
          /\ [s[k] EXCEPT !.sfn = IF @ < 0 THEN @ ELSE @ - 1].sfn =
                IF s[k].sfn < 0 THEN s[k].sfn ELSE s[k].sfn - 1
    <2>1. \A k \in 1..Len(s) : s[k] \in SlotAlloc
      BY <1>1
    <2> QED
      BY <2>1 DEF SlotAlloc
  <1>4. /\ t \in Seq(SlotAlloc) /\ Len(t) = Len(s)
        /\ \A k \in 1..Len(s) :
             /\ t[k].txIdx = s[k].txIdx
             /\ t[k].sfn = IF s[k].sfn < 0 THEN s[k].sfn ELSE s[k].sfn - 1
    <2>1. t \in [1..Len(s) -> SlotAlloc]
      BY <1>3 DEF NextSlot
    <2>2. t \in Seq(SlotAlloc) /\ Len(t) = Len(s)
      BY <1>1, <2>1
    <2> QED
      BY <1>3, <2>2 DEF NextSlot
  <1>5. /\ n \in NrSlGrantInfo
        /\ n.cReselCounter = g.cReselCounter
        /\ n.slResoReselCounter = g.slResoReselCounter
        /\ n.prevSlResoReselCounter = g.prevSlResoReselCounter
        /\ n.nSelected = g.nSelected /\ n.tbTxCounter = g.tbTxCounter
        /\ n.nrSlHarqId = g.nrSlHarqId /\ n.slotAllocations = t
    BY <1>4 DEF NrSlGrantInfo
  <1> HIDE DEF s, t, n
  <1>6. (InFlight(n) <=> InFlight(g)) /\ Sent(n) = Sent(g)
    BY <1>5 DEF InFlight, Sent
  <1>7. t = <<>> <=> s = <<>>
    BY <1>1, <1>4
  <1>8. GrantOK(g) => GrantOK(n)
    <2> SUFFICES ASSUME GrantOK(g) PROVE GrantOK(n)
      OBVIOUS
    <2>1. CountersOK(n)
      BY <1>5 DEF GrantOK, CountersOK
    <2>2. TbOK(n)
      BY <1>5, <1>6 DEF GrantOK, TbOK
    <2>3. SlotsOK(g)
      BY DEF GrantOK
    <2>4. s # <<>> => 1 \in 1..Len(s)
      BY <1>1
    <2>5. \A k \in 1..(Len(s) - 1) : k \in 1..Len(s) /\ k + 1 \in 1..Len(s)
      BY <1>1
    <2>6. SlotsOK(n)
      BY <1>4, <1>5, <1>6, <1>7, <2>3, <2>4, <2>5 DEF SlotsOK, s
    <2>7. Close(n)
      <3>1. ASSUME NEW i \in 1..Len(s), NEW j \in 1..Len(s),
                   i <= j, t[j].txIdx - t[i].txIdx = j - i
            PROVE  t[j].sfn - t[i].sfn <= T2 - T1
        <4>0. s[j].txIdx - s[i].txIdx = j - i
          BY <1>4, <3>1
        <4>1. s[j].sfn - s[i].sfn <= T2 - T1
          BY <3>1, <4>0 DEF GrantOK, Close, s
        <4>2. \A a, b \in Int : b - a <= T2 - T1 =>
                  (IF b < 0 THEN b ELSE b - 1) - (IF a < 0 THEN a ELSE a - 1) <= T2 - T1
          BY WindowAssumption
        <4>3. s[i].sfn \in Int /\ s[j].sfn \in Int
          BY <1>2
        <4> QED
          BY <1>4, <4>1, <4>2, <4>3
      <3> QED
        BY <1>4, <1>5, <3>1 DEF Close
    <2> QED
      BY <2>1, <2>2, <2>6, <2>7 DEF GrantOK
  <1>9. SlotsFrom(g, 1) => SlotsFrom(n, 0)
    <2> SUFFICES ASSUME SlotsFrom(g, 1) PROVE SlotsFrom(n, 0)
      OBVIOUS
    <2>1. /\ \A k \in 1..Len(s) : s[k].sfn >= 1
          /\ \A i, j \in 1..Len(s) : i < j => s[i].sfn < s[j].sfn
      BY DEF SlotsFrom, s
    <2>2. \A k \in 1..Len(s) : t[k].sfn = s[k].sfn - 1 /\ t[k].sfn \in Int
      BY <1>2, <1>4, <2>1
    <2>3. \A k \in 1..Len(t) : t[k].sfn >= 0
      BY <1>2, <1>4, <2>1, <2>2
    <2>4. \A i, j \in 1..Len(t) : i < j => t[i].sfn < t[j].sfn
      BY <1>2, <1>4, <2>1, <2>2
    <2> QED
      BY <1>5, <2>3, <2>4 DEF SlotsFrom
  <1> QED
    BY <1>5, <1>6, <1>7, <1>8, <1>9 DEF n, s

\* A grant whose slots were erased for a re-selection.
LEMMA ErasedGrant ==
    ASSUME NEW g \in NrSlGrantInfo, GrantOK(g), g.slResoReselCounter = 0
    PROVE  LET n == [g EXCEPT !.slotAllocations = <<>>]
           IN  /\ n \in NrSlGrantInfo /\ GrantOK(n) /\ ~InFlight(n) /\ ~InFlight(g)
               /\ n.slotAllocations = <<>>
               /\ \A b \in Int : SlotsFrom(n, b)
  <1> DEFINE n == [g EXCEPT !.slotAllocations = <<>>]
  <1>1. /\ n \in NrSlGrantInfo
        /\ n.cReselCounter = g.cReselCounter
        /\ n.slResoReselCounter = 0 /\ g.slResoReselCounter = 0
        /\ n.prevSlResoReselCounter = g.prevSlResoReselCounter
        /\ n.nSelected = g.nSelected /\ n.tbTxCounter = g.tbTxCounter
        /\ n.slotAllocations = <<>>
    <2> DEFINE e == <<>>
    <2>1. e \in Seq(SlotAlloc)
      OBVIOUS
    <2>2. g \in [cReselCounter : Nat, slResoReselCounter : Nat,
                 prevSlResoReselCounter : Nat, nSelected : Nat, tbTxCounter : Nat,
                 nrSlHarqId : Nat, slotAllocations : Seq(SlotAlloc)]
      BY DEF NrSlGrantInfo
    <2>3. n = [g EXCEPT !.slotAllocations = e]
      OBVIOUS
    <2> HIDE DEF e, n
    <2>4. /\ n \in NrSlGrantInfo
          /\ n.cReselCounter = g.cReselCounter
          /\ n.slResoReselCounter = g.slResoReselCounter
          /\ n.prevSlResoReselCounter = g.prevSlResoReselCounter
          /\ n.nSelected = g.nSelected /\ n.tbTxCounter = g.tbTxCounter
          /\ n.slotAllocations = e
      BY <2>1, <2>2, <2>3 DEF NrSlGrantInfo
    <2> QED
      BY <2>4 DEF e
  <1> HIDE DEF n
  <1>2. ~InFlight(g) /\ ~InFlight(n)
    BY <1>1 DEF GrantOK, TbOK, InFlight
  <1>3. GrantOK(n)
    BY <1>1, <1>2 DEF GrantOK, CountersOK, TbOK, SlotsOK, Close
  <1>4. \A b \in Int : SlotsFrom(n, b)
    BY <1>1 DEF SlotsFrom
  <1> QED
    BY <1>1, <1>2, <1>3, <1>4 DEF n

\* A grant whose resources are kept.
LEMMA KeptGrant ==
    ASSUME NEW g \in NrSlGrantInfo, GrantOK(g), g.slResoReselCounter = 0, MayKeep(g)
    PROVE  LET n == [g EXCEPT !.slResoReselCounter = g.prevSlResoReselCounter]
           IN  /\ n \in NrSlGrantInfo /\ GrantOK(n) /\ ~InFlight(n) /\ ~InFlight(g)
               /\ n.slResoReselCounter # 0
               /\ n.slotAllocations = g.slotAllocations
  <1> DEFINE n == [g EXCEPT !.slResoReselCounter = g.prevSlResoReselCounter]
             p == g.prevSlResoReselCounter
  <1>1. /\ n \in NrSlGrantInfo
        /\ n.cReselCounter = g.cReselCounter /\ g.cReselCounter \in Nat
        /\ n.slResoReselCounter = p /\ p \in Nat
        /\ n.prevSlResoReselCounter = p
        /\ n.nSelected = g.nSelected /\ n.tbTxCounter = g.tbTxCounter
        /\ n.slotAllocations = g.slotAllocations
    BY DEF NrSlGrantInfo
  <1> HIDE DEF n
  <1>2. ~InFlight(g) /\ ~InFlight(n) /\ Sent(n) = Sent(g)
    BY <1>1 DEF GrantOK, TbOK, InFlight, Sent
  <1>3. PICK m \in Nat : g.cReselCounter = 0 + m * p
    BY DEF GrantOK, CountersOK
  <1>4. m > 0 /\ p > 0
    <2>1. m * p > 0
      BY <1>1, <1>3 DEF MayKeep
    <2> QED
      BY <1>1, <2>1
  <1>5. CountersOK(n)
    <2>1. m - 1 \in Nat /\ m * p = p + (m - 1) * p
      BY <1>1, <1>4
    <2>2. m * p \in Nat
      BY <1>1, MultNat
    <2>3. n.cReselCounter = n.slResoReselCounter + (m - 1) * n.prevSlResoReselCounter
      BY <1>1, <1>3, <2>1, <2>2
    <2> QED
      BY <2>1, <2>3 DEF CountersOK
  <1>6. TbOK(n)
    BY <1>1, <1>2 DEF GrantOK, TbOK
  <1>7. SlotsOK(n)
    <2>1. g.slotAllocations # <<>>
      <3>1. Len(g.slotAllocations) > 0
        BY DEF MayKeep
      <3>2. Len(<<>>) = 0
        OBVIOUS
      <3> QED
        BY <3>1, <3>2
    <2>2. SlotsOK(g)
      BY DEF GrantOK
    <2> QED
      BY <1>1, <1>2, <2>1, <2>2, Zenon DEF SlotsOK
  <1>8. Close(n)
    BY <1>1 DEF GrantOK, Close
  <1> QED
    BY <1>1, <1>2, <1>4, <1>5, <1>6, <1>7, <1>8 DEF GrantOK, n

\* A transmission uses the first slot of a grant; n is its number in the TB.
LEMMA UsedGrant ==
    ASSUME NEW g \in NrSlGrantInfo, GrantOK(g), Due(g), NEW h \in Nat
    PROVE  LET n == Sent(g) + 1
               u == AfterTx(g, n, h)
           IN  /\ n \in Nat /\ n <= g.nSelected
               /\ Head(g.slotAllocations).txIdx = Sent(g)
               /\ u \in NrSlGrantInfo /\ GrantOK(u)
               /\ u.nrSlHarqId = h /\ u.nSelected = g.nSelected
               /\ InFlight(u) <=> n # g.nSelected
               /\ n # g.nSelected => u.tbTxCounter = n
               /\ n = g.nSelected => u.tbTxCounter = IF n > 1 THEN 0 ELSE 1
               /\ SlotsFrom(g, 0) => SlotsFrom(u, 1)
  <1> DEFINE n == Sent(g) + 1
             u == AfterTx(g, n, h)
             s == g.slotAllocations
             t == Tail(s)
             N == g.nSelected
             c == g.cReselCounter
             r == g.slResoReselCounter
  <1>1. /\ s \in Seq(SlotAlloc) /\ N \in Nat /\ c \in Nat /\ r \in Nat
        /\ g.tbTxCounter \in Nat /\ g.prevSlResoReselCounter \in Nat
    BY DEF NrSlGrantInfo
  <1>2. s # <<>> /\ r # 0
    BY DEF Due
  <1>3. Len(s) \in Nat /\ Len(s) > 0 /\ Head(s) = s[1]
    BY <1>1, <1>2
  <1>4. /\ t \in Seq(SlotAlloc) /\ Len(t) = Len(s) - 1
        /\ \A k \in 1..Len(t) : t[k] = s[k + 1]
    BY <1>1, <1>2
  <1>5. /\ N > 0 /\ Len(s) = c * N - Sent(g) /\ s[1].txIdx = Sent(g)
        /\ \A k \in 1..Len(s) : s[k].txIdx < N
        /\ \A k \in 1..(Len(s) - 1) :
             s[k + 1].txIdx = IF s[k].txIdx = N - 1 THEN 0 ELSE s[k].txIdx + 1
    BY <1>2, Zenon DEF GrantOK, SlotsOK
  <1>6. Sent(g) \in Nat
    BY <1>1 DEF Sent
  <1>7. n \in Nat /\ n > 0 /\ n <= N
    <2>1. s[1].txIdx < N
      BY <1>3, <1>5
    <2> QED
      BY <1>1, <1>5, <1>6, <2>1
  <1>8. PICK m \in Nat : c = r + m * g.prevSlResoReselCounter
    BY DEF GrantOK, CountersOK
  <1>9. m * g.prevSlResoReselCounter \in Nat
    BY <1>1, MultNat
  <1>10. c - 1 \in Nat /\ r - 1 \in Nat
    <2> DEFINE x == m * g.prevSlResoReselCounter
    <2>1. x \in Nat /\ c = r + x
      BY <1>8, <1>9
    <2> HIDE DEF x, c, r
    <2> QED
      BY <1>1, <1>2, <2>1
  <1>11. /\ u \in NrSlGrantInfo
         /\ u.cReselCounter = IF n = N THEN c - 1 ELSE c
         /\ u.slResoReselCounter = IF n = N THEN r - 1 ELSE r
         /\ u.prevSlResoReselCounter = g.prevSlResoReselCounter
         /\ u.nSelected = N /\ u.nrSlHarqId = h
         /\ u.tbTxCounter = IF n = N /\ n > 1 THEN 0 ELSE n
         /\ u.slotAllocations = t
    BY <1>4, <1>7, <1>10 DEF AfterTx, NrSlGrantInfo
  <1> HIDE DEF n, u, s, t, N, c, r
  <1>12. (InFlight(u) <=> n # N) /\ Sent(u) = IF n = N THEN 0 ELSE n
    BY <1>1, <1>7, <1>11 DEF InFlight, Sent
  <1>13. CountersOK(u)
    <2>1. c - 1 = (r - 1) + m * g.prevSlResoReselCounter
      <3> DEFINE y == m * g.prevSlResoReselCounter
      <3>1. y \in Nat /\ c = r + y
        BY <1>8, <1>9
      <3> HIDE DEF y
      <3>2. c - 1 = (r - 1) + y
        BY <1>1, <3>1
      <3> QED
        BY <3>2 DEF y
    <2>2. CASE n = N
      BY <1>11, <2>1, <2>2 DEF CountersOK
    <2>3. CASE n # N
      BY <1>8, <1>11, <2>3 DEF CountersOK
    <2> QED
      BY <2>2, <2>3
  <1>14. TbOK(u)
    BY <1>1, <1>2, <1>7, <1>11, <1>12 DEF TbOK
  <1>15. SlotsOK(u)
    <2>1. c * N \in Nat /\ (c - 1) * N \in Nat /\ c * N = (c - 1) * N + N
      BY <1>1, <1>10
    <2>2. Len(t) = c * N - n
      BY <1>3, <1>4, <1>5, <1>6, <2>1 DEF n
    <2>3. Len(t) = u.cReselCounter * u.nSelected - Sent(u)
      <3>1. CASE n = N
        BY <1>1, <1>10, <1>11, <1>12, <2>1, <2>2, <3>1
      <3>2. CASE n # N
        BY <1>11, <1>12, <2>2, <3>2
      <3> QED
        BY <3>1, <3>2
    <2>4. u.slResoReselCounter # 0 => Len(t) > 0
      <3>1. CASE n = N
        <4>1. SUFFICES ASSUME r - 1 # 0 PROVE Len(t) > 0
          BY <1>11, <3>1
        <4>2. c - 1 > 0
          BY <1>1, <1>8, <1>9, <1>10, <4>1
        <4>3. N * (c - 1) >= N
          BY <1>1, <1>10, <4>2, MultGrows
        <4> DEFINE y == (c - 1) * N
        <4>4. y \in Nat /\ N * (c - 1) = y /\ c * N = y + N
          BY <1>1, <1>10, <2>1
        <4> HIDE DEF y
        <4>5. Len(t) = y /\ y >= N
          BY <1>1, <2>2, <3>1, <4>3, <4>4
        <4> QED
          BY <1>1, <1>5, <4>4, <4>5
      <3>2. CASE n # N
        <4>1. N * c >= N /\ N * c = c * N
          BY <1>1, <1>10, MultGrows
        <4> QED
          BY <1>1, <1>7, <2>1, <2>2, <3>2, <4>1
      <3> QED
        BY <3>1, <3>2
    <2>5. t # <<>> <=> Len(t) > 0
      BY <1>4
    <2>6. ASSUME Len(t) > 0 PROVE t[1].txIdx = Sent(u)
      <3>1. 1 \in 1..Len(t) /\ 1 \in 1..(Len(s) - 1)
        BY <1>3, <1>4, <2>6
      <3>2. t[1].txIdx = IF s[1].txIdx = N - 1 THEN 0 ELSE s[1].txIdx + 1
        BY <1>4, <1>5, <3>1
      <3> QED
        BY <1>1, <1>5, <1>6, <1>12, <3>2 DEF n
    <2>7. \A k \in 1..Len(t) : t[k].txIdx < N
      <3>1. \A k \in 1..Len(t) : k + 1 \in 1..Len(s)
        BY <1>3, <1>4
      <3> QED
        BY <1>4, <1>5, <3>1
    <2>8. \A k \in 1..(Len(t) - 1) :
            t[k + 1].txIdx = IF t[k].txIdx = N - 1 THEN 0 ELSE t[k].txIdx + 1
      <3>1. \A k \in 1..(Len(t) - 1) :
              k \in 1..Len(t) /\ k + 1 \in 1..Len(t) /\ k + 1 \in 1..(Len(s) - 1)
        BY <1>3, <1>4
      <3> QED
        BY <1>4, <1>5, <3>1
    <2> QED
      BY <1>5, <1>11, <2>3, <2>4, <2>5, <2>6, <2>7, <2>8, Zenon DEF SlotsOK
  <1>16. SlotsFrom(g, 0) => SlotsFrom(u, 1)
    <2> SUFFICES ASSUME SlotsFrom(g, 0) PROVE SlotsFrom(u, 1)
      OBVIOUS
    <2>1. \A k \in 1..Len(s) : s[k].sfn \in Int
      <3>1. \A k \in 1..Len(s) : s[k] \in SlotAlloc
        BY <1>1
      <3> QED
        BY <3>1 DEF SlotAlloc
    <2>2. /\ \A k \in 1..Len(s) : s[k].sfn >= 0
          /\ \A i, j \in 1..Len(s) : i < j => s[i].sfn < s[j].sfn
      BY DEF SlotsFrom, s
    <2>3. \A k \in 1..Len(t) : /\ k + 1 \in 1..Len(s) /\ 1 \in 1..Len(s)
                               /\ 1 < k + 1 /\ t[k] = s[k + 1]
      BY <1>3, <1>4
    <2>4. \A k \in 1..Len(t) : t[k].sfn >= 1
      BY <2>1, <2>2, <2>3
    <2>5. \A i, j \in 1..Len(t) : i < j => t[i].sfn < t[j].sfn
      <3>1. \A i, j \in 1..Len(t) : i < j => i + 1 < j + 1
        BY <1>4
      <3> QED
        BY <2>2, <2>3, <3>1
    <2> QED
      BY <1>11, <2>4, <2>5 DEF SlotsFrom
  <1>17. Close(u)
    <2> SUFFICES ASSUME NEW i \in 1..Len(t), NEW j \in 1..Len(t),
                        i <= j, t[j].txIdx - t[i].txIdx = j - i
                 PROVE  t[j].sfn - t[i].sfn <= T2 - T1
      BY <1>11 DEF Close
    <2>0. Len(t) = Len(s) - 1 /\ Len(s) \in Nat /\ t[i] = s[i + 1] /\ t[j] = s[j + 1]
      BY <1>3, <1>4
    <2>1. /\ i + 1 \in 1..Len(s) /\ j + 1 \in 1..Len(s) /\ i + 1 <= j + 1
          /\ (j + 1) - (i + 1) = j - i
          /\ t[i] = s[i + 1] /\ t[j] = s[j + 1]
      BY <2>0
    <2>2. s[j + 1].sfn - s[i + 1].sfn <= T2 - T1
      BY <2>1 DEF GrantOK, Close, s
    <2> QED
      BY <2>1, <2>2
  <1> QED
    BY <1>3, <1>5, <1>7, <1>11, <1>12, <1>13, <1>14, <1>15, <1>16, <1>17
       DEF GrantOK, n, u, s, N

----------------------------------------------------------------------------
(* The HARQ entity                                                         *)

\* The number of the first process is 0 and NoHarq is not a process.
LEMMA HarqIdsFacts ==
    /\ HarqIds \subseteq Nat /\ NoHarq \in Nat /\ NoHarq \notin HarqIds
    /\ IsFiniteSet(HarqIds) /\ Cardinality(HarqIds) = NumSidelinkProcess
  <1>1. NumSidelinkProcess \in Nat /\ NumSidelinkProcess > 0 /\ NumSidelinkProcess <= 255
    BY ProcessAssumption
  <1>2. HarqIds \subseteq Nat /\ NoHarq \in Nat /\ NoHarq \notin HarqIds
    BY <1>1 DEF HarqIds, NoHarq
  <1>3. /\ IsFiniteSet(0..(NumSidelinkProcess - 1))
        /\ Cardinality(0..(NumSidelinkProcess - 1)) = NumSidelinkProcess
    <2>1. 0 \in Int /\ NumSidelinkProcess - 1 \in Int /\ ~(0 > NumSidelinkProcess - 1)
      BY <1>1
    <2>2. (NumSidelinkProcess - 1) - 0 + 1 = NumSidelinkProcess
      BY <1>1
    <2> QED
      BY <2>1, <2>2, FS_Interval
  <1> QED
    BY <1>2, <1>3 DEF HarqIds

\* Assigning the first free process to a destination that has none.
LEMMA HarqTake ==
    ASSUME NEW hq \in HarqType, NEW own \in [Dst -> Nat], Accounted(hq, own),
           Len(hq.ids) > 0, NEW d \in Dst, own[d] = NoHarq
    PROVE  LET h == NextHarqId(hq)
               q == AssignNrSlHarqProcessId(hq, d)
           IN  /\ h \in HarqIds /\ q \in HarqType
               /\ Accounted(q, [own EXCEPT ![d] = h])
               /\ ~IsHarqIdAvaiable(q, h)
               /\ q.pkt[h].lcidList = {} /\ q.pkt[h].pktBurst = 0
  <1> DEFINE h == NextHarqId(hq)
             q == AssignNrSlHarqProcessId(hq, d)
             ids == hq.ids
             own2 == [own EXCEPT ![d] = h]
             L == Len(ids)
  <1>1. ids \in Seq(HarqIds) /\ hq.pkt \in [HarqIds -> HarqEntries]
    BY DEF HarqType
  <1>2. L \in Nat /\ L > 0 /\ ids # <<>>
    BY <1>1
  <1>3. h = ids[1] /\ h \in HarqIds
    BY <1>1, <1>2 DEF NextHarqId
  <1>4. /\ Tail(ids) \in Seq(HarqIds) /\ Len(Tail(ids)) = L - 1
        /\ \A k \in 1..(L - 1) : Tail(ids)[k] = ids[k + 1]
    BY <1>1, <1>2
  <1>5. q.ids = Tail(ids) /\ q.pkt = [hq.pkt EXCEPT ![h].dstL2Id = d]
    BY DEF AssignNrSlHarqProcessId
  <1>6. IsHarqIdAvaiable(hq, h)
    BY <1>2, <1>3 DEF IsHarqIdAvaiable
  <1>7. hq.pkt[h] = EmptyEntry
    BY <1>3, <1>6 DEF Accounted
  <1> HIDE DEF h, q
  <1>8. /\ q.pkt[h].dstL2Id = d /\ q.pkt[h].lcidList = {} /\ q.pkt[h].pktBurst = 0
        /\ q.pkt[h] \in HarqEntries
    <2>1. q.pkt[h] = [EmptyEntry EXCEPT !.dstL2Id = d]
      BY <1>1, <1>3, <1>5, <1>7
    <2>2. q.pkt[h] = [dstL2Id |-> d, lcidList |-> {}, pktBurst |-> 0]
      BY <2>1 DEF EmptyEntry
    <2> QED
      BY <2>2 DEF HarqEntries
  <1>9. \A k \in HarqIds : k # h => q.pkt[k] = hq.pkt[k]
    BY <1>1, <1>5
  <1>10. q.pkt \in [HarqIds -> HarqEntries]
    <2>1. q.pkt = [k \in HarqIds |-> q.pkt[k]]
      BY <1>1, <1>5
    <2>2. \A k \in HarqIds : q.pkt[k] \in HarqEntries
      BY <1>1, <1>8, <1>9
    <2> QED
      BY <2>1, <2>2
  <1>11. q \in HarqType
    <2>1. q = [ids |-> q.ids, pkt |-> q.pkt]
      BY DEF AssignNrSlHarqProcessId, q
    <2> QED
      BY <1>4, <1>5, <1>10, <2>1 DEF HarqType
  <1>12. \A i, j \in 1..L : ids[i] = ids[j] => i = j
    BY DEF Accounted
  <1>13. \A i, j \in 1..(L - 1) : q.ids[i] = q.ids[j] => i = j
    <2>1. \A i \in 1..(L - 1) : i + 1 \in 1..L
      BY <1>2
    <2>2. \A i, j \in 1..(L - 1) : q.ids[i] = q.ids[j] => i + 1 = j + 1
      BY <1>4, <1>5, <1>12, <2>1
    <2> QED
      BY <1>2, <2>2
  <1>14. ~IsHarqIdAvaiable(q, h)
    <2> SUFFICES ASSUME NEW i \in 1..(L - 1), q.ids[i] = h PROVE FALSE
      BY <1>4, <1>5 DEF IsHarqIdAvaiable
    <2>1. i + 1 \in 1..L /\ 1 \in 1..L /\ ids[i + 1] = ids[1]
      BY <1>2, <1>3, <1>4, <1>5
    <2>2. i + 1 = 1
      BY <1>12, <2>1
    <2> QED
      BY <2>2
  <1>15. \A k \in HarqIds : k # h => (IsHarqIdAvaiable(q, k) <=> IsHarqIdAvaiable(hq, k))
    <2> TAKE k \in HarqIds
    <2> HAVE k # h
    <2>1. ASSUME IsHarqIdAvaiable(q, k) PROVE IsHarqIdAvaiable(hq, k)
      <3>1. PICK i \in 1..(L - 1) : q.ids[i] = k
        BY <1>4, <1>5, <2>1 DEF IsHarqIdAvaiable
      <3>2. i + 1 \in 1..L /\ ids[i + 1] = k
        BY <1>2, <1>4, <1>5, <3>1
      <3> QED
        BY <3>2 DEF IsHarqIdAvaiable
    <2>2. ASSUME IsHarqIdAvaiable(hq, k) PROVE IsHarqIdAvaiable(q, k)
      <3>1. PICK i \in 1..L : ids[i] = k
        BY <2>2 DEF IsHarqIdAvaiable
      <3>2. i # 1
        BY <1>3, <3>1
      <3>3. i - 1 \in 1..(L - 1) /\ (i - 1) + 1 = i
        BY <1>2, <3>2
      <3>4. q.ids[i - 1] = k
        BY <1>4, <1>5, <3>1, <3>3
      <3> QED
        BY <1>4, <1>5, <3>3, <3>4 DEF IsHarqIdAvaiable
    <2> QED
      BY <2>1, <2>2
  <1>16. own2 \in [Dst -> Nat] /\ own2[d] = h /\ \A e \in Dst : e # d => own2[e] = own[e]
    BY <1>3, HarqIdsFacts
  <1> HIDE DEF own2
  <1>17. \A k \in HarqIds :
           IF IsHarqIdAvaiable(q, k) THEN q.pkt[k] = EmptyEntry
           ELSE \E e \in Dst : q.pkt[k].dstL2Id = e /\ own2[e] = k
    <2> TAKE k \in HarqIds
    <2>1. CASE k = h
      BY <1>8, <1>14, <1>16, <2>1
    <2>2. CASE k # h
      <3>1. CASE IsHarqIdAvaiable(q, k)
        BY <1>9, <1>15, <2>2, <3>1 DEF Accounted
      <3>2. CASE ~IsHarqIdAvaiable(q, k)
        <4>1. PICK e \in Dst : hq.pkt[k].dstL2Id = e /\ own[e] = k
          BY <1>15, <2>2, <3>2 DEF Accounted
        <4>2. e # d
          BY <4>1, HarqIdsFacts
        <4> QED
          BY <1>9, <1>16, <2>2, <3>2, <4>1, <4>2
      <3> QED
        BY <3>1, <3>2
    <2> QED
      BY <2>1, <2>2
  <1>18. \A e \in Dst : own2[e] # NoHarq => BelongsTo(q, own2[e], e)
    <2> SUFFICES ASSUME NEW e \in Dst, own2[e] # NoHarq PROVE BelongsTo(q, own2[e], e)
      OBVIOUS
    <2>1. CASE e = d
      BY <1>3, <1>8, <1>16, <2>1 DEF BelongsTo
    <2>2. CASE e # d
      <3>1. BelongsTo(hq, own[e], e)
        BY <1>16, <2>2 DEF Accounted
      <3>2. own[e] # h
        <4>1. hq.pkt[h].dstL2Id = NoDst
          BY <1>7 DEF EmptyEntry
        <4> QED
          BY <3>1, <4>1, DstAssumption DEF BelongsTo
      <3> QED
        BY <1>9, <1>16, <2>2, <3>1, <3>2 DEF BelongsTo
    <2> QED
      BY <2>1, <2>2
  <1>19. Accounted(q, own2)
    BY <1>4, <1>5, <1>13, <1>17, <1>18 DEF Accounted
  <1> QED
    BY <1>3, <1>8, <1>11, <1>14, <1>19 DEF h, q, own2

\* Adding a packet to a process that is taken.
LEMMA HarqAdd ==
    ASSUME NEW hq \in HarqType, NEW own \in [Dst -> Nat], Accounted(hq, own),
           NEW h \in HarqIds, ~IsHarqIdAvaiable(hq, h), NEW lc \in Nat
    PROVE  LET q == AddPacket(hq, h, lc)
           IN  /\ q \in HarqType /\ Accounted(q, own)
               /\ q.pkt[h].lcidList = hq.pkt[h].lcidList \cup {lc}
               /\ q.pkt[h].pktBurst = hq.pkt[h].pktBurst + 1
  <1> DEFINE q == AddPacket(hq, h, lc)
             e == hq.pkt[h]
  <1>1. hq.ids \in Seq(HarqIds) /\ hq.pkt \in [HarqIds -> HarqEntries]
    BY DEF HarqType
  <1>2. e \in HarqEntries
    BY <1>1
  <1>3. /\ q.ids = hq.ids /\ q.pkt \in [HarqIds -> HarqEntries]
        /\ q.pkt[h].dstL2Id = e.dstL2Id
        /\ q.pkt[h].lcidList = e.lcidList \cup {lc}
        /\ q.pkt[h].pktBurst = e.pktBurst + 1
        /\ \A k \in HarqIds : k # h => q.pkt[k] = hq.pkt[k]
        /\ q = [ids |-> q.ids, pkt |-> q.pkt]
    <2> DEFINE f == [dstL2Id  |-> e.dstL2Id, lcidList |-> e.lcidList \cup {lc},
                     pktBurst |-> e.pktBurst + 1]
    <2>1. f \in HarqEntries
      BY <1>2 DEF HarqEntries
    <2>2. /\ f.dstL2Id = e.dstL2Id /\ f.lcidList = e.lcidList \cup {lc}
          /\ f.pktBurst = e.pktBurst + 1
      OBVIOUS
    <2>4. q.ids = hq.ids /\ q.pkt = [hq.pkt EXCEPT ![h] = f] /\ q = [ids |-> q.ids, pkt |-> q.pkt]
      BY DEF AddPacket
    <2> HIDE DEF f, q, e
    <2>5. q.pkt[h] = f /\ q.pkt \in [HarqIds -> HarqEntries]
      BY <1>1, <2>1, <2>4
    <2> QED
      BY <1>1, <2>2, <2>4, <2>5
  <1> HIDE DEF q
  <1>4. q \in HarqType
    BY <1>1, <1>3 DEF HarqType
  <1>5. \A k \in HarqIds : IsHarqIdAvaiable(q, k) <=> IsHarqIdAvaiable(hq, k)
    BY <1>3 DEF IsHarqIdAvaiable
  <1>6. Accounted(q, own)
    <2>1. \A k \in HarqIds : q.pkt[k].dstL2Id = hq.pkt[k].dstL2Id
      BY <1>3
    <2>2. \A k \in HarqIds : IsHarqIdAvaiable(hq, k) => q.pkt[k] = hq.pkt[k]
      BY <1>3
    <2>3. /\ \A i, j \in 1..Len(q.ids) : q.ids[i] = q.ids[j] => i = j
          /\ \A k \in HarqIds : IsHarqIdAvaiable(q, k) => q.pkt[k] = EmptyEntry
          /\ \A x \in Dst : own[x] # NoHarq => BelongsTo(q, own[x], x)
      BY <1>3, <1>5, <2>1, <2>2 DEF Accounted, BelongsTo
    <2>4. \A k \in HarqIds :
            ~IsHarqIdAvaiable(q, k) => \E x \in Dst : q.pkt[k].dstL2Id = x /\ own[x] = k
      BY <1>5, <2>1 DEF Accounted
    <2> QED
      BY <2>3, <2>4 DEF Accounted
  <1> QED
    BY <1>3, <1>4, <1>6 DEF q

\* The release of the process of a destination.
LEMMA HarqRelease ==
    ASSUME NEW hq \in HarqType, NEW own \in [Dst -> Nat], Accounted(hq, own),
           NEW d \in Dst, NEW h \in HarqIds, own[d] = h
    PROVE  LET q == RecvNrSlHarqFeedback(hq, h)
           IN  q \in HarqType /\ Accounted(q, [own EXCEPT ![d] = NoHarq])
  <1> DEFINE q == RecvNrSlHarqFeedback(hq, h)
             ids == hq.ids
             L == Len(ids)
             own2 == [own EXCEPT ![d] = NoHarq]
  <1>1. ids \in Seq(HarqIds) /\ hq.pkt \in [HarqIds -> HarqEntries] /\ L \in Nat
    BY DEF HarqType
  <1>2. q.ids = Append(ids, h) /\ q.pkt = [hq.pkt EXCEPT ![h] = EmptyEntry]
    BY DEF RecvNrSlHarqFeedback
  <1>3. /\ q.ids \in Seq(HarqIds) /\ Len(q.ids) = L + 1 /\ q.ids[L + 1] = h
        /\ \A k \in 1..L : q.ids[k] = ids[k]
    BY <1>1, <1>2
  <1>4. EmptyEntry \in HarqEntries /\ EmptyEntry.dstL2Id = NoDst
    BY DEF EmptyEntry, HarqEntries
  <1>5. /\ q.pkt \in [HarqIds -> HarqEntries] /\ q.pkt[h] = EmptyEntry
        /\ \A k \in HarqIds : k # h => q.pkt[k] = hq.pkt[k]
    BY <1>1, <1>2, <1>4
  <1>6. q \in HarqType
    <2>1. q = [ids |-> q.ids, pkt |-> q.pkt]
      BY DEF RecvNrSlHarqFeedback
    <2> HIDE DEF q
    <2> QED
      BY <1>3, <1>5, <2>1 DEF HarqType
  <1> HIDE DEF q
  <1>7. BelongsTo(hq, h, d) /\ hq.pkt[h].dstL2Id = d
    BY HarqIdsFacts DEF Accounted, BelongsTo
  <1>8. ~IsHarqIdAvaiable(hq, h)
    BY <1>4, <1>7, DstAssumption DEF Accounted
  <1>9. IsHarqIdAvaiable(q, h)
    <2>1. L + 1 \in 1..(L + 1)
      BY <1>1
    <2> QED
      BY <1>3, <2>1 DEF IsHarqIdAvaiable
  <1>10. \A k \in HarqIds : k # h => (IsHarqIdAvaiable(q, k) <=> IsHarqIdAvaiable(hq, k))
    <2>1. \A i \in 1..(L + 1) : i \in 1..L \/ i = L + 1
      BY <1>1
    <2>2. \A i \in 1..L : i \in 1..(L + 1)
      BY <1>1
    <2> QED
      BY <1>3, <2>1, <2>2 DEF IsHarqIdAvaiable
  <1>11. \A i, j \in 1..(L + 1) : q.ids[i] = q.ids[j] => i = j
    <2>1. \A i \in 1..(L + 1) : i \in 1..L \/ i = L + 1
      BY <1>1
    <2>2. \A i \in 1..L : q.ids[i] # h
      BY <1>3, <1>8 DEF IsHarqIdAvaiable
    <2>3. \A i, j \in 1..L : q.ids[i] = q.ids[j] => i = j
      BY <1>3 DEF Accounted
    <2> QED
      BY <1>3, <2>1, <2>2, <2>3
  <1>12. own2[d] = NoHarq /\ \A e \in Dst : e # d => own2[e] = own[e]
    OBVIOUS
  <1> HIDE DEF own2
  <1>13. \A k \in HarqIds :
           IF IsHarqIdAvaiable(q, k) THEN q.pkt[k] = EmptyEntry
           ELSE \E e \in Dst : q.pkt[k].dstL2Id = e /\ own2[e] = k
    <2> TAKE k \in HarqIds
    <2>1. CASE k = h
      BY <1>5, <1>9, <2>1
    <2>2. CASE k # h
      <3>1. CASE IsHarqIdAvaiable(q, k)
        BY <1>5, <1>10, <2>2, <3>1 DEF Accounted
      <3>2. CASE ~IsHarqIdAvaiable(q, k)
        <4>1. PICK e \in Dst : hq.pkt[k].dstL2Id = e /\ own[e] = k
          BY <1>10, <2>2, <3>2 DEF Accounted
        <4>2. e # d
          BY <2>2, <4>1
        <4> QED
          BY <1>5, <1>12, <2>2, <3>2, <4>1, <4>2
      <3> QED
        BY <3>1, <3>2
    <2> QED
      BY <2>1, <2>2
  <1>14. \A e \in Dst : own2[e] # NoHarq => BelongsTo(q, own2[e], e)
    <2> SUFFICES ASSUME NEW e \in Dst, own2[e] # NoHarq PROVE BelongsTo(q, own2[e], e)
      OBVIOUS
    <2>1. e # d
      BY <1>12
    <2>2. BelongsTo(hq, own[e], e)
      BY <1>12, <2>1 DEF Accounted
    <2>3. own[e] # h
      BY <1>7, <2>1, <2>2 DEF BelongsTo
    <2> QED
      BY <1>5, <1>12, <2>1, <2>2, <2>3 DEF BelongsTo
  <1>15. Accounted(q, own2)
    BY <1>3, <1>11, <1>13, <1>14 DEF Accounted
  <1> QED
    BY <1>6, <1>15 DEF q, own2

\* With a process per destination, a destination without one finds one free.
LEMMA FreeProcess ==
    ASSUME NEW hq \in HarqType, NEW own \in [Dst -> Nat], Accounted(hq, own),
           NEW d \in Dst, own[d] = NoHarq,
           Cardinality(Dst) <= NumSidelinkProcess
    PROVE  Len(hq.ids) > 0
  <1> SUFFICES ASSUME ~(Len(hq.ids) > 0) PROVE FALSE
    OBVIOUS
  <1>1. hq.ids \in Seq(HarqIds) /\ Len(hq.ids) = 0
    <2>1. hq.ids \in Seq(HarqIds)
      BY DEF HarqType
    <2> QED
      BY <2>1
  <1>2. \A h \in HarqIds : hq.pkt[h].dstL2Id \in Dst /\ own[hq.pkt[h].dstL2Id] = h
    <2>1. \A h \in HarqIds : ~IsHarqIdAvaiable(hq, h)
      BY <1>1 DEF IsHarqIdAvaiable
    <2> QED
      BY <2>1 DEF Accounted
  <1> DEFINE f == [h \in HarqIds |-> hq.pkt[h].dstL2Id]
             T == Dst \ {d}
  <1>3. f \in [HarqIds -> T]
    BY <1>2, HarqIdsFacts
  <1>4. IsFiniteSet(T) /\ Cardinality(T) = Cardinality(Dst) - 1 /\ Cardinality(Dst) \in Nat
    BY DstAssumption, FS_RemoveElement, FS_CardinalityType
  <1>5. Cardinality(T) < Cardinality(HarqIds)
    BY <1>4, HarqIdsFacts, ProcessAssumption
  <1> HIDE DEF f, T
  <1>6. \E x, y \in HarqIds : x # y /\ f[x] = f[y]
    BY <1>3, <1>4, <1>5, HarqIdsFacts, FS_PigeonHole
  <1> QED
    BY <1>2, <1>6 DEF f

----------------------------------------------------------------------------
(* The inductive invariant, for every configuration                        *)

\* The gaps of an SCI 1-A are read off slots that the grant has.
LEMMA GapsTyped ==
    ASSUME NEW g \in NrSlGrantInfo, GrantOK(g), Due(g)
    PROVE  ComputeGaps(Tail(g.slotAllocations),
                       SlotNumInd(Head(g.slotAllocations), g.nSelected)) \in SUBSET Int
  <1> DEFINE s == g.slotAllocations
             t == Tail(s)
             N == g.nSelected
             c == g.cReselCounter
             x == Head(s).txIdx
             k == SlotNumInd(Head(s), N)
  <1>1. /\ s \in Seq(SlotAlloc) /\ N \in Nat /\ c \in Nat /\ g.tbTxCounter \in Nat
        /\ g.slResoReselCounter \in Nat /\ g.prevSlResoReselCounter \in Nat
    BY DEF NrSlGrantInfo
  <1>2. s # <<>> /\ g.slResoReselCounter # 0
    BY DEF Due
  <1>3. /\ t \in Seq(SlotAlloc) /\ Len(t) = Len(s) - 1 /\ Head(s) = s[1]
        /\ Len(s) \in Nat /\ Len(s) > 0
    BY <1>1, <1>2
  <1>4. Len(s) = c * N - Sent(g) /\ x = Sent(g) /\ x < N /\ x \in Nat
    <2>1. Len(s) = c * N - Sent(g) /\ s[1].txIdx = Sent(g)
      BY <1>2, Zenon DEF GrantOK, SlotsOK
    <2>2. 1 \in 1..Len(s)
      BY <1>3
    <2>3. s[1].txIdx < N
      BY <2>2, Zenon DEF GrantOK, SlotsOK
    <2>4. Sent(g) \in Nat
      BY <1>1 DEF Sent
    <2> QED
      BY <1>3, <2>1, <2>3, <2>4
  <1>5. c > 0
    <2>1. PICK m \in Nat : c = g.slResoReselCounter + m * g.prevSlResoReselCounter
      BY DEF GrantOK, CountersOK
    <2> DEFINE y == m * g.prevSlResoReselCounter
    <2>2. y \in Nat
      BY <1>1, MultNat
    <2> HIDE DEF y
    <2>3. c = g.slResoReselCounter + y
      BY <2>1 DEF y
    <2> QED
      BY <1>1, <1>2, <2>2, <2>3
  <1>6. N * c >= N /\ N * c = c * N /\ c * N \in Nat
    BY <1>1, <1>5, MultGrows
  <1> HIDE DEF s, t, N, c, x
  <1>7. k \in Int /\ k <= 3 /\ k <= N - x
    BY <1>1, <1>4, PoolAssumption DEF SlotNumInd, x
  <1> HIDE DEF k
  <1>8. Len(t) >= N - x - 1
    BY <1>1, <1>3, <1>4, <1>6
  <1>9. \A i \in 0..(k - 2) : t[1 + ((i * (i + 1)) \div 2)].sfn \in Int
    <2> SUFFICES ASSUME NEW i \in 0..(k - 2)
                 PROVE  t[1 + ((i * (i + 1)) \div 2)].sfn \in Int
      OBVIOUS
    <2>1. i = 0 \/ i = 1
      BY <1>7
    <2>2. 1 + ((i * (i + 1)) \div 2) = i + 1
      <3>1. CASE i = 0
        BY <3>1
      <3>2. CASE i = 1
        BY <3>2
      <3> QED
        BY <2>1, <3>1, <3>2
    <2>3. i + 1 \in 1..Len(t)
      <3>1. Len(t) \in Nat /\ N \in Int /\ x \in Int
        BY <1>1, <1>3, <1>4
      <3>2. i + 1 \in Nat /\ i + 1 >= 1 /\ i + 1 <= k - 1
        BY <1>7
      <3> QED
        BY <1>7, <1>8, <3>1, <3>2
    <2>4. t[i + 1] \in SlotAlloc
      BY <1>3, <2>3
    <2>5. t[i + 1].sfn \in Int
      BY <2>4 DEF SlotAlloc
    <2> QED
      BY <2>2, <2>5
  <1>10. \A v \in Int : v % GapMod \in Int
    BY GapAssumption
  <1>11. \A i \in 0..(k - 2) : t[1 + ((i * (i + 1)) \div 2)].sfn % GapMod \in Int
    BY <1>9, <1>10
  <1> QED
    BY <1>11 DEF ComputeGaps, k, s, t, N

\* What is left of a buffer after a TB.
LEMMA Remainder ==
    ASSUME NEW size \in 0..MaxTxBufferSize
    PROVE  TakeTb(size) \in 0..MaxTxBufferSize /\ AssignedData(size) \in 0..MaxTxBufferSize
  BY TrafficAssumption DEF TakeTb, AssignedData

\* A step that replaces the grant of one destination.
LEMMA OneGrant ==
    ASSUME NEW d \in Dst, NEW x \in NrSlGrantInfo, IInv, GrantOK(x),
           InFlight(x) => x.nrSlHarqId \in HarqIds,
           grantInfo' = [grantInfo EXCEPT ![d] = x]
    PROVE  /\ grantInfo' \in [Dst -> NrSlGrantInfo] /\ GrantsOK' /\ ProcessNamed'
           /\ Owned' = [Owned EXCEPT ![d] = IF InFlight(x) THEN x.nrSlHarqId ELSE NoHarq]
  <1>1. grantInfo \in [Dst -> NrSlGrantInfo]
    BY DEF IInv, TypeOK
  <1>2. /\ grantInfo' \in [Dst -> NrSlGrantInfo] /\ grantInfo'[d] = x
        /\ \A e \in Dst : e # d => grantInfo'[e] = grantInfo[e]
    BY <1>1
  <1>3. GrantsOK'
    BY <1>2 DEF IInv, GrantsOK
  <1>4. ProcessNamed'
    BY <1>2 DEF IInv, ProcessNamed
  <1>5. Owned' = [Owned EXCEPT ![d] = IF InFlight(x) THEN x.nrSlHarqId ELSE NoHarq]
    BY <1>2 DEF Owned
  <1> QED
    BY <1>2, <1>3, <1>4, <1>5

\* Owned names processes or nothing.
LEMMA OwnedTyped ==
    ASSUME TypeOK
    PROVE  Owned \in [Dst -> Nat]
  <1>1. \A d \in Dst : grantInfo[d].nrSlHarqId \in Nat
    BY DEF TypeOK, NrSlGrantInfo
  <1> QED
    BY <1>1, HarqIdsFacts DEF Owned

\* A step that leaves the TBs in flight alone.
LEMMA SameProcesses ==
    ASSUME NEW d \in Dst, NEW x \in NrSlGrantInfo, IInv, GrantOK(x),
           ~InFlight(x), ~InFlight(grantInfo[d]),
           grantInfo' = [grantInfo EXCEPT ![d] = x], UNCHANGED harq
    PROVE  /\ grantInfo' \in [Dst -> NrSlGrantInfo] /\ GrantsOK' /\ ProcessNamed'
           /\ Accounted(harq, Owned)'
  <1>1. /\ grantInfo' \in [Dst -> NrSlGrantInfo] /\ GrantsOK' /\ ProcessNamed'
        /\ Owned' = [Owned EXCEPT ![d] = NoHarq]
    BY OneGrant
  <1>2. Owned' = Owned
    <2>1. Owned[d] = NoHarq
      BY DEF Owned
    <2>2. Owned = [e \in Dst |-> Owned[e]]
      BY DEF Owned
    <2> HIDE DEF Owned
    <2> QED
      BY <1>1, <2>1, <2>2
  <1> QED
    BY <1>1, <1>2 DEF IInv, Accounted

\* The bursts and the indications that a transmission of a due grant leaves.
LEMMA SendToPhyTyped ==
    ASSUME IInv, NEW d \in Dst, Due(grantInfo[d]), NEW txed,
           SendToPhy(d, Head(grantInfo[d].slotAllocations),
                     Tail(grantInfo[d].slotAllocations), txed)
    PROVE  /\ pssch' \in SUBSET PsschTb /\ pscch' \in Seq(Dst)
           /\ indicated' \in [Dst -> SUBSET Int]
  <1> DEFINE g == grantInfo[d]
             a == Head(g.slotAllocations)
             gaps == ComputeGaps(Tail(g.slotAllocations), SlotNumInd(a, g.nSelected)) \ {NoGap}
  <1>1. /\ g \in NrSlGrantInfo /\ GrantOK(g)
        /\ pssch \in SUBSET PsschTb /\ pscch \in Seq(Dst)
        /\ indicated \in [Dst -> SUBSET Int]
    BY DEF IInv, TypeOK, GrantsOK
  <1>2. gaps \in SUBSET Int
    BY <1>1, GapsTyped
  <1>3. a.txIdx \in Nat
    <2>1. g.slotAllocations \in Seq(SlotAlloc) /\ g.slotAllocations # <<>>
      BY <1>1 DEF NrSlGrantInfo, Due
    <2>2. a \in SlotAlloc
      BY <2>1
    <2> QED
      BY <2>2 DEF SlotAlloc
  <1>4. [dst |-> d, txIdx |-> a.txIdx, sci1A |-> TxSci1A(a)] \in PsschTb
    BY <1>3, Zenon DEF PsschTb, TxSci1A
  <1> DEFINE tb == [dst |-> d, txIdx |-> a.txIdx, sci1A |-> TxSci1A(a)]
             sci == TxSci1A(a)
  <1>5. /\ pssch' = IF txed THEN pssch \cup {tb} ELSE pssch
        /\ IF txed /\ sci THEN /\ pscch' = Append(pscch, d)
                               /\ indicated' = [indicated EXCEPT ![d] = gaps]
           ELSE pscch' = pscch /\ indicated' = indicated
    BY DEF SendToPhy
  <1> HIDE DEF tb, sci, gaps, g, a
  <1>6. pssch' \in SUBSET PsschTb
    BY <1>1, <1>4, <1>5 DEF tb
  <1>7. pscch' \in Seq(Dst) /\ indicated' \in [Dst -> SUBSET Int]
    <2>1. CASE txed /\ sci
      <3>1. pscch' = Append(pscch, d) /\ indicated' = [indicated EXCEPT ![d] = gaps]
        BY <1>5, <2>1
      <3>2. Append(pscch, d) \in Seq(Dst)
        BY <1>1
      <3>3. [indicated EXCEPT ![d] = gaps] \in [Dst -> SUBSET Int]
        BY <1>1, <1>2
      <3> QED
        BY <3>1, <3>2, <3>3
    <2>2. CASE ~(txed /\ sci)
      BY <1>1, <1>5, <2>2
    <2> QED
      BY <2>1, <2>2
  <1> QED
    BY <1>6, <1>7

\* Resource selection for one destination.
LEMMA SelectKeepsIInv ==
    ASSUME IInv, NEW d \in Dst, Select(d)
    PROVE  IInv'
  <1> DEFINE g == grantInfo[d]
  <1>1. /\ g \in NrSlGrantInfo /\ GrantOK(g) /\ grantInfo \in [Dst -> NrSlGrantInfo]
        /\ txQueueSize \in [Dst -> 0..MaxTxBufferSize] /\ TypeOK
    BY DEF IInv, TypeOK, GrantsOK
  <1>2. /\ todo' \subseteq Dst
        /\ UNCHANGED <<phase, destinations, harq, rlcVars, phyVars, indicated, halted>>
    BY <1>1 DEF Select, TypeOK
  <1>3. SUFFICES /\ grantInfo' \in [Dst -> NrSlGrantInfo] /\ GrantsOK' /\ ProcessNamed'
                 /\ Accounted(harq, Owned)'
                 /\ txQueueSize' \in [Dst -> 0..MaxTxBufferSize]
    BY <1>1, <1>2 DEF IInv, TypeOK, rlcVars, phyVars
  <1>4. CASE HasAllocation(d)
    <2>1. UNCHANGED <<grantInfo, txQueueSize, harq>>
      BY <1>2, <1>4 DEF HasAllocation
    <2> QED
      BY <1>1, <2>1 DEF IInv, GrantsOK, ProcessNamed, Accounted, Owned
  <1>5. CASE KeepResource(d)
    <2> DEFINE x == [g EXCEPT !.slResoReselCounter = g.prevSlResoReselCounter]
    <2>1. g.slResoReselCounter = 0 /\ MayKeep(g) /\ UNCHANGED <<txQueueSize, harq>>
      BY <1>2, <1>5 DEF KeepResource
    <2>2. grantInfo' = [grantInfo EXCEPT ![d] = x]
      BY <1>5 DEF KeepResource
    <2>3. x \in NrSlGrantInfo /\ GrantOK(x) /\ ~InFlight(x) /\ ~InFlight(g)
      BY <1>1, <2>1, KeptGrant
    <2> HIDE DEF x
    <2> QED
      BY <1>1, <2>1, <2>2, <2>3, SameProcesses
  <1>6. CASE ReselectResource(d)
    <2> DEFINE x == [g EXCEPT !.slotAllocations = <<>>]
               erased == [grantInfo EXCEPT ![d] = x]
    <2>1. g.slResoReselCounter = 0 /\ UNCHANGED harq
      BY <1>2, <1>6 DEF ReselectResource
    <2>2. x \in NrSlGrantInfo /\ GrantOK(x) /\ ~InFlight(x) /\ ~InFlight(g)
      BY <1>1, <2>1, ErasedGrant
    <2>3. PICK txOpps \in TxOpportunities :
            \/ grantInfo' = erased /\ UNCHANGED txQueueSize
            \/ /\ FilterTxOpportunities(txOpps, erased) # {}
               /\ \E sel \in RandomlySelectSlots(FilterTxOpportunities(txOpps, erased)),
                     c \in ReselCounters :
                    grantInfo' = [grantInfo EXCEPT ![d] = CreateGrantInfo(sel, c)]
               /\ txQueueSize' = [txQueueSize EXCEPT ![d] = AssignedData(@)]
      BY <1>6 DEF ReselectResource
    <2>4. CASE grantInfo' = erased /\ UNCHANGED txQueueSize
      <3> HIDE DEF x
      <3> QED
        BY <1>1, <2>1, <2>2, <2>4, SameProcesses
    <2>5. CASE /\ FilterTxOpportunities(txOpps, erased) # {}
               /\ \E sel \in RandomlySelectSlots(FilterTxOpportunities(txOpps, erased)),
                     c \in ReselCounters :
                    grantInfo' = [grantInfo EXCEPT ![d] = CreateGrantInfo(sel, c)]
               /\ txQueueSize' = [txQueueSize EXCEPT ![d] = AssignedData(@)]
      <3> DEFINE S == FilterTxOpportunities(txOpps, erased)
      <3>1. S \in SUBSET SelectionWindow
        BY DEF FilterTxOpportunities, TxOpportunities
      <3> HIDE DEF S
      <3>2. S # {}
        BY <2>5 DEF S
      <3>3. PICK sel \in RandomlySelectSlots(S), c \in ReselCounters :
              grantInfo' = [grantInfo EXCEPT ![d] = CreateGrantInfo(sel, c)]
        BY <2>5 DEF S
      <3>4. /\ sel \in Seq(SelectionWindow) /\ Len(sel) > 0
            /\ \A i, j \in 1..Len(sel) : i < j => sel[i] < sel[j]
        BY <3>1, <3>2, SelectedSlots
      <3> DEFINE y == CreateGrantInfo(sel, c)
      <3>5. y \in NrSlGrantInfo /\ GrantOK(y) /\ ~InFlight(y)
        BY <3>4, NewGrant
      <3>6. txQueueSize' \in [Dst -> 0..MaxTxBufferSize]
        <4>1. AssignedData(txQueueSize[d]) \in 0..MaxTxBufferSize
          BY <1>1, Remainder
        <4> QED
          BY <1>1, <2>5, <4>1
      <3> HIDE DEF y
      <3>7. grantInfo' = [grantInfo EXCEPT ![d] = y]
        BY <3>3 DEF y
      <3> QED
        BY <2>1, <2>2, <3>5, <3>6, <3>7, SameProcesses
    <2> QED
      BY <2>3, <2>4, <2>5
  <1> QED
    BY <1>4, <1>5, <1>6 DEF Select

\* The first transmission of a TB.
LEMMA TransmitNewKeepsIInv ==
    ASSUME IInv, NEW d \in Dst, TransmitNew(d)
    PROVE  IInv'
  <1> DEFINE g    == grantInfo[d]
             a    == Head(g.slotAllocations)
             h    == NextHarqId(harq)
             txed == txBuffer[d] > 0
             assigned == AssignNrSlHarqProcessId(harq, d)
             filled   == IF txed THEN AddPacket(assigned, h, LcId) ELSE assigned
             x == AfterTx(g, 1, h)
  <1>1. CASE Abort
    BY <1>1 DEF Abort, macVars, rlcVars, phyVars, IInv, TypeOK, GrantsOK, ProcessNamed,
                Accounted, Owned
  <1>2. CASE ~Abort
    <2>1. /\ Due(g) /\ Ndi(a) /\ GetNumAvaiableHarqIds(harq) > 0 /\ d \in todo
          /\ todo' = todo \ {d}
          /\ grantInfo' = [grantInfo EXCEPT ![d] = x]
          /\ harq' = IF g.nSelected = 1 THEN RecvNrSlHarqFeedback(filled, h) ELSE filled
          /\ txBuffer' = [txBuffer EXCEPT ![d] = TakeTb(@)]
          /\ rbsTimer' = [rbsTimer EXCEPT ![d] = (txed /\ txBuffer'[d] > 0) \/ @]
          /\ SendToPhy(d, a, Tail(g.slotAllocations), txed)
          /\ UNCHANGED <<phase, destinations, txQueueSize, halted>>
      BY <1>2 DEF TransmitNew
    <2>2. /\ g \in NrSlGrantInfo /\ GrantOK(g) /\ TypeOK /\ harq \in HarqType
          /\ txBuffer \in [Dst -> 0..MaxTxBufferSize] /\ rbsTimer \in [Dst -> BOOLEAN]
          /\ Accounted(harq, Owned) /\ Owned \in [Dst -> Nat]
      BY OwnedTyped DEF IInv, TypeOK, GrantsOK
    <2>3. Sent(g) = 0 /\ ~InFlight(g)
      <3>1. a.txIdx = Sent(g)
        BY <2>1, <2>2, UsedGrant
      <3>2. Sent(g) = 0
        BY <2>1, <3>1 DEF Ndi
      <3> QED
        BY <2>2, <3>2 DEF Sent, InFlight, NrSlGrantInfo
    <2>4. Owned[d] = NoHarq /\ Len(harq.ids) > 0
      BY <2>1, <2>3 DEF Owned, GetNumAvaiableHarqIds
    <2>5. /\ h \in HarqIds /\ assigned \in HarqType
          /\ Accounted(assigned, [Owned EXCEPT ![d] = h])
          /\ ~IsHarqIdAvaiable(assigned, h)
      BY <2>2, <2>4, HarqTake
    <2> DEFINE own == [Owned EXCEPT ![d] = h]
    <2>6. own \in [Dst -> Nat] /\ own[d] = h
      BY <2>2, <2>5, HarqIdsFacts
    <2> HIDE DEF assigned, h, own
    <2>7. filled \in HarqType /\ Accounted(filled, own)
      <3>1. LcId \in Nat
        BY DEF LcId
      <3>2. CASE txed
        <4>1. filled = AddPacket(assigned, h, LcId)
          BY <3>2
        <4> QED
          BY <2>5, <2>6, <3>1, <4>1, HarqAdd DEF own
      <3>3. CASE ~txed
        BY <2>5, <3>3 DEF own
      <3> QED
        BY <3>2, <3>3
    <2> HIDE DEF filled
    <2>8. /\ x \in NrSlGrantInfo /\ GrantOK(x) /\ x.nrSlHarqId = h
          /\ InFlight(x) <=> 1 # g.nSelected
      <3>1. 0 + 1 = 1 /\ h \in Nat
        BY <2>5, HarqIdsFacts
      <3> QED
        BY <2>1, <2>2, <2>3, <3>1, UsedGrant
    <2> HIDE DEF x
    <2>9. /\ grantInfo' \in [Dst -> NrSlGrantInfo] /\ GrantsOK' /\ ProcessNamed'
          /\ Owned' = [Owned EXCEPT ![d] = IF InFlight(x) THEN x.nrSlHarqId ELSE NoHarq]
      BY <2>1, <2>5, <2>8, OneGrant
    <2>10. harq' \in HarqType /\ Accounted(harq', Owned')
      <3>1. CASE g.nSelected = 1
        <4>1. Owned' = [own EXCEPT ![d] = NoHarq]
          BY <2>2, <2>8, <2>9, <3>1 DEF own
        <4>2. harq' = RecvNrSlHarqFeedback(filled, h)
          BY <2>1, <3>1
        <4> QED
          BY <2>5, <2>6, <2>7, <4>1, <4>2, HarqRelease
      <3>2. CASE g.nSelected # 1
        <4>1. Owned' = own /\ harq' = filled
          BY <2>1, <2>8, <2>9, <3>2 DEF own
        <4> QED
          BY <2>7, <4>1
      <3> QED
        BY <3>1, <3>2
    <2>11. /\ txBuffer' \in [Dst -> 0..MaxTxBufferSize] /\ rbsTimer' \in [Dst -> BOOLEAN]
      <3>1. TakeTb(txBuffer[d]) \in 0..MaxTxBufferSize
        BY <2>2, Remainder
      <3>2. txBuffer' \in [Dst -> 0..MaxTxBufferSize]
        BY <2>1, <2>2, <3>1
      <3>3. ((txed /\ txBuffer'[d] > 0) \/ rbsTimer[d]) \in BOOLEAN
        BY Zenon
      <3> HIDE DEF txed
      <3>4. rbsTimer' \in [Dst -> BOOLEAN]
        BY <2>1, <2>2, <3>3, Zenon
      <3> QED
        BY <3>2, <3>4
    <2>12. /\ pssch' \in SUBSET PsschTb /\ pscch' \in Seq(Dst)
           /\ indicated' \in [Dst -> SUBSET Int]
      BY <2>1, SendToPhyTyped
    <2>13. TypeOK'
      BY <2>1, <2>2, <2>9, <2>10, <2>11, <2>12 DEF TypeOK
    <2> QED
      BY <2>9, <2>10, <2>13 DEF IInv, Accounted
  <1> QED
    BY <1>1, <1>2

\* A retransmission.
LEMMA TransmitAgainKeepsIInv ==
    ASSUME IInv, NEW d \in Dst, TransmitAgain(d)
    PROVE  IInv'
  <1> DEFINE g == grantInfo[d]
             a == Head(g.slotAllocations)
             h == g.nrSlHarqId
             n == g.tbTxCounter + 1
             x == AfterTx(g, n, h)
  <1>1. CASE Abort
    BY <1>1 DEF Abort, macVars, rlcVars, phyVars, IInv, TypeOK, GrantsOK, ProcessNamed,
                Accounted, Owned
  <1>2. CASE ~Abort
    <2>1. /\ Due(g) /\ ~Ndi(a) /\ d \in todo
          /\ todo' = todo \ {d}
          /\ grantInfo' = [grantInfo EXCEPT ![d] = x]
          /\ harq' = IF n = g.nSelected THEN RecvNrSlHarqFeedback(harq, h) ELSE harq
          /\ SendToPhy(d, a, Tail(g.slotAllocations), GetPacketBurst(harq, h) > 0)
          /\ UNCHANGED <<phase, destinations, rlcVars, txQueueSize, halted>>
      BY <1>2 DEF TransmitAgain
    <2>2. /\ g \in NrSlGrantInfo /\ GrantOK(g) /\ TypeOK /\ harq \in HarqType
          /\ Accounted(harq, Owned) /\ Owned \in [Dst -> Nat] /\ ProcessNamed
      BY OwnedTyped DEF IInv, TypeOK, GrantsOK
    <2>3. InFlight(g) /\ n = Sent(g) + 1
      <3>1. a.txIdx = Sent(g)
        BY <2>1, <2>2, UsedGrant
      <3>2. Sent(g) # 0
        BY <2>1, <3>1 DEF Ndi
      <3> QED
        BY <3>2 DEF Sent
    <2>4. h \in HarqIds /\ Owned[d] = h
      BY <2>2, <2>3 DEF ProcessNamed, Owned
    <2>5. /\ x \in NrSlGrantInfo /\ GrantOK(x) /\ x.nrSlHarqId = h
          /\ InFlight(x) <=> n # g.nSelected
      <3>1. h \in Nat
        BY <2>4, HarqIdsFacts
      <3> QED
        BY <2>1, <2>2, <2>3, <3>1, UsedGrant
    <2> HIDE DEF x
    <2>6. /\ grantInfo' \in [Dst -> NrSlGrantInfo] /\ GrantsOK' /\ ProcessNamed'
          /\ Owned' = [Owned EXCEPT ![d] = IF InFlight(x) THEN x.nrSlHarqId ELSE NoHarq]
      BY <2>1, <2>4, <2>5, OneGrant
    <2>7. harq' \in HarqType /\ Accounted(harq', Owned')
      <3>1. CASE n = g.nSelected
        <4>1. Owned' = [Owned EXCEPT ![d] = NoHarq]
          BY <2>5, <2>6, <3>1
        <4>2. harq' = RecvNrSlHarqFeedback(harq, h)
          BY <2>1, <3>1
        <4> QED
          BY <2>2, <2>4, <4>1, <4>2, HarqRelease
      <3>2. CASE n # g.nSelected
        <4>1. Owned' = Owned
          <5>1. Owned' = [Owned EXCEPT ![d] = Owned[d]]
            BY <2>4, <2>5, <2>6, <3>2
          <5> HIDE DEF Owned
          <5> QED
            BY <2>2, <5>1
        <4> QED
          BY <2>1, <2>2, <3>2, <4>1
      <3> QED
        BY <3>1, <3>2
    <2>8. /\ pssch' \in SUBSET PsschTb /\ pscch' \in Seq(Dst)
          /\ indicated' \in [Dst -> SUBSET Int]
      BY <2>1, SendToPhyTyped
    <2>9. TypeOK'
      BY <2>1, <2>2, <2>6, <2>7, <2>8 DEF TypeOK, rlcVars
    <2> QED
      BY <2>6, <2>7, <2>9 DEF IInv, Accounted
  <1> QED
    BY <1>1, <1>2

\* A new slot.
LEMMA SlotIndicationKeepsIInv ==
    ASSUME IInv, SlotIndication
    PROVE  IInv'
  <1> DEFINE x(d) == [grantInfo[d] EXCEPT !.slotAllocations = NextSlot(@)]
  <1>1. /\ TypeOK /\ \A d \in Dst : grantInfo[d] \in NrSlGrantInfo /\ GrantOK(grantInfo[d])
    BY DEF IInv, TypeOK, GrantsOK
  <1>2. /\ grantInfo' = [d \in Dst |-> x(d)]
        /\ indicated' = [d \in Dst |-> {s - 1 : s \in indicated[d] \ {0}}]
        /\ phase' \in Phases /\ todo' \subseteq Dst
        /\ UNCHANGED <<destinations, harq, rlcVars, txQueueSize, phyVars, halted>>
    BY <1>1 DEF SlotIndication, TypeOK, Phases
  <1>3. \A d \in Dst : /\ x(d) \in NrSlGrantInfo /\ GrantOK(x(d))
                       /\ InFlight(x(d)) <=> InFlight(grantInfo[d])
                       /\ x(d).nrSlHarqId = grantInfo[d].nrSlHarqId
    BY <1>1, LaterGrant
  <1> HIDE DEF x
  <1>4. grantInfo' \in [Dst -> NrSlGrantInfo] /\ \A d \in Dst : grantInfo'[d] = x(d)
    BY <1>2, <1>3
  <1>5. indicated' \in [Dst -> SUBSET Int]
    <2>1. \A d \in Dst : {s - 1 : s \in indicated[d] \ {0}} \in SUBSET Int
      BY <1>1 DEF TypeOK
    <2> QED
      BY <1>2, <2>1
  <1>6. TypeOK'
    BY <1>1, <1>2, <1>4, <1>5 DEF TypeOK, rlcVars, phyVars
  <1>7. GrantsOK' /\ ProcessNamed'
    BY <1>3, <1>4 DEF IInv, GrantsOK, ProcessNamed
  <1>8. Owned' = Owned
    BY <1>3, <1>4 DEF Owned
  <1> QED
    BY <1>2, <1>6, <1>7, <1>8 DEF IInv, Accounted

\* The initial state.
LEMMA InitIInv == Init => IInv
  <1> SUFFICES ASSUME Init PROVE IInv
    OBVIOUS
  <1> DEFINE N == NumSidelinkProcess
             ids == [i \in 1..N |-> i - 1]
             pkt == [h \in HarqIds |-> EmptyEntry]
  <1>1. N \in Nat /\ N > 0
    BY ProcessAssumption
  <1>2. harq = [ids |-> ids, pkt |-> pkt] /\ harq.ids = ids /\ harq.pkt = pkt
    BY DEF Init, InitHarqBuffer
  <1>3. ids \in Seq(HarqIds) /\ Len(ids) = N
    <2>1. ids \in [1..N -> HarqIds]
      BY <1>1 DEF HarqIds
    <2> QED
      BY <1>1, <2>1
  <1>4. pkt \in [HarqIds -> HarqEntries]
    BY DEF HarqEntries, EmptyEntry
  <1>5. harq \in HarqType
    BY <1>2, <1>3, <1>4 DEF HarqType
  <1>6. NoGrant \in NrSlGrantInfo /\ GrantOK(NoGrant) /\ ~InFlight(NoGrant)
    <2> DEFINE e == <<>>
    <2>1. e \in Seq(SlotAlloc) /\ Len(e) = 0
      OBVIOUS
    <2>2. NoGrant.slotAllocations = e
      BY DEF NoGrant
    <2>3. NoGrant \in NrSlGrantInfo
      <3>1. NoGrant = [cReselCounter |-> 0, slResoReselCounter |-> 0,
                       prevSlResoReselCounter |-> 0, nSelected |-> 0, tbTxCounter |-> 0,
                       nrSlHarqId |-> NoHarq, slotAllocations |-> e]
        BY DEF NoGrant
      <3> HIDE DEF e
      <3> QED
        BY <2>1, <3>1, HarqIdsFacts DEF NrSlGrantInfo
    <2>4. /\ NoGrant.cReselCounter = 0 /\ NoGrant.slResoReselCounter = 0
          /\ NoGrant.prevSlResoReselCounter = 0 /\ NoGrant.nSelected = 0
          /\ NoGrant.tbTxCounter = 0
      BY DEF NoGrant
    <2>5. ~InFlight(NoGrant)
      BY <2>4 DEF InFlight
    <2>6. CountersOK(NoGrant)
      <3>1. 0 = 0 + 0 * 0 /\ 0 \in Nat
        OBVIOUS
      <3> QED
        BY <2>4, <3>1 DEF CountersOK
    <2>7. TbOK(NoGrant)
      BY <2>4, <2>5 DEF TbOK
    <2>8. SlotsOK(NoGrant)
      BY <2>1, <2>2, <2>4 DEF SlotsOK
    <2>9. Close(NoGrant)
      BY <2>1, <2>2 DEF Close
    <2> QED
      BY <2>3, <2>5, <2>6, <2>7, <2>8, <2>9 DEF GrantOK
  <1>7. \A d \in Dst : grantInfo[d] = NoGrant
    BY DEF Init
  <1> HIDE DEF ids, pkt
  <1>8. TypeOK
    <2>1. grantInfo \in [Dst -> NrSlGrantInfo]
      BY <1>6 DEF Init
    <2>2. /\ txBuffer \in [Dst -> 0..MaxTxBufferSize]
          /\ txQueueSize \in [Dst -> 0..MaxTxBufferSize]
      BY TrafficAssumption DEF Init
    <2>3. phase \in Phases
      BY DEF Init, Phases
    <2>4. /\ pscch \in Seq(Dst) /\ pssch \in SUBSET PsschTb
          /\ indicated \in [Dst -> SUBSET Int]
          /\ rbsTimer \in [Dst -> BOOLEAN] /\ halted \in BOOLEAN
          /\ todo \subseteq Dst /\ destinations \subseteq Dst
      <3>1. pscch = <<>> /\ pssch = {} /\ halted = FALSE /\ todo = {} /\ destinations = {}
        BY DEF Init
      <3>2. indicated = [d \in Dst |-> {}] /\ rbsTimer = [d \in Dst |-> FALSE]
        BY DEF Init
      <3>3. <<>> \in Seq(Dst)
        OBVIOUS
      <3> QED
        BY <3>1, <3>2, <3>3
    <2> QED
      BY <1>5, <2>1, <2>2, <2>3, <2>4 DEF TypeOK
  <1>9. GrantsOK /\ ProcessNamed
    BY <1>6, <1>7 DEF GrantsOK, ProcessNamed
  <1>10. Accounted(harq, Owned)
    <2>1. \A i \in 1..N : ids[i] = i - 1
      BY DEF ids
    <2>2. \A i, j \in 1..N : ids[i] = ids[j] => i = j
      BY <1>1, <2>1
    <2>3. \A h \in HarqIds : IsHarqIdAvaiable(harq, h) /\ harq.pkt[h] = EmptyEntry
      <3> TAKE h \in HarqIds
      <3>1. h + 1 \in 1..N /\ (h + 1) - 1 = h
        BY <1>1 DEF HarqIds
      <3>2. ids[h + 1] = h
        BY <2>1, <3>1
      <3> QED
        BY <1>2, <1>3, <3>1, <3>2 DEF IsHarqIdAvaiable, pkt
    <2>4. \A d \in Dst : Owned[d] = NoHarq
      BY <1>6, <1>7 DEF Owned
    <2> QED
      BY <1>2, <1>3, <2>2, <2>3, <2>4 DEF Accounted
  <1> QED
    BY <1>8, <1>9, <1>10 DEF IInv

\* Every step keeps the invariant.
LEMMA NextIInv == IInv /\ [Next]_vars => IInv'
  <1> SUFFICES ASSUME IInv, [Next]_vars PROVE IInv'
    OBVIOUS
  <1> USE DEF macVars, rlcVars, phyVars
  <1>0. TypeOK
    BY DEF IInv
  <1>1. ASSUME UNCHANGED <<grantInfo, harq>>, TypeOK' PROVE IInv'
    BY <1>1 DEF IInv, GrantsOK, ProcessNamed, Accounted, Owned
  <1>2. CASE SlotIndication
    BY <1>2, SlotIndicationKeepsIInv
  <1>3. CASE SelectDone \/ TransmitDone \/ PhySlot
    <2>1. TypeOK'
      <3>1. <<>> \in Seq(Dst)
        OBVIOUS
      <3> QED
        BY <1>0, <1>3, <3>1 DEF SelectDone, TransmitDone, PhySlot, TypeOK, Phases
    <2> QED
      BY <1>1, <1>3, <2>1 DEF SelectDone, TransmitDone, PhySlot
  <1>4. ASSUME NEW d \in Dst, Select(d) PROVE IInv'
    BY <1>4, SelectKeepsIInv
  <1>5. ASSUME NEW d \in Dst, NothingDue(d) PROVE IInv'
    <2>1. TypeOK'
      BY <1>0, <1>5 DEF NothingDue, TypeOK
    <2> QED
      BY <1>1, <1>5, <2>1 DEF NothingDue
  <1>6. ASSUME NEW d \in Dst, TransmitNew(d) PROVE IInv'
    BY <1>6, TransmitNewKeepsIInv
  <1>7. ASSUME NEW d \in Dst, TransmitAgain(d) PROVE IInv'
    BY <1>7, TransmitAgainKeepsIInv
  <1>8. ASSUME NEW d \in Dst, AddNrSlLc(d) PROVE IInv'
    <2>1. TypeOK'
      BY <1>0, <1>8 DEF AddNrSlLc, TypeOK
    <2> QED
      BY <1>1, <1>8, <2>1 DEF AddNrSlLc
  <1>9. ASSUME NEW d \in Dst, TransmitPdcpPdu(d) PROVE IInv'
    <2>1. txBuffer \in [Dst -> 0..MaxTxBufferSize] /\ txQueueSize \in [Dst -> 0..MaxTxBufferSize]
      BY <1>0 DEF TypeOK
    <2>2. txBuffer' \in [Dst -> 0..MaxTxBufferSize]
      BY <1>9, <2>1, TrafficAssumption DEF TransmitPdcpPdu
    <2>3. txQueueSize' \in [Dst -> 0..MaxTxBufferSize]
      <3>1. txQueueSize' = [txQueueSize EXCEPT ![d] = txBuffer'[d]]
        BY <1>9 DEF TransmitPdcpPdu
      <3> QED
        BY <2>1, <2>2, <3>1
    <2>4. TypeOK'
      BY <1>0, <1>9, <2>2, <2>3 DEF TransmitPdcpPdu, TypeOK
    <2> QED
      BY <1>1, <1>9, <2>4 DEF TransmitPdcpPdu
  <1>10. ASSUME NEW d \in Dst, ExpireRbsTimer(d) PROVE IInv'
    <2>1. txBuffer \in [Dst -> 0..MaxTxBufferSize] /\ txQueueSize \in [Dst -> 0..MaxTxBufferSize]
      BY <1>0 DEF TypeOK
    <2>2. txQueueSize' \in [Dst -> 0..MaxTxBufferSize]
      BY <1>10, <2>1 DEF ExpireRbsTimer
    <2>3. rbsTimer' \in [Dst -> BOOLEAN]
      <3>1. (txBuffer[d] > 0) \in BOOLEAN
        BY <2>1
      <3>2. rbsTimer \in [Dst -> BOOLEAN] /\ rbsTimer' = [rbsTimer EXCEPT ![d] = txBuffer[d] > 0]
        BY <1>0, <1>10 DEF TypeOK, ExpireRbsTimer
      <3> QED
        BY <3>1, <3>2, Zenon
    <2>4. TypeOK'
      BY <1>0, <1>10, <2>2, <2>3 DEF ExpireRbsTimer, TypeOK
    <2> QED
      BY <1>1, <1>10, <2>4 DEF ExpireRbsTimer
  <1>11. CASE Stopped \/ UNCHANGED vars
    <2>1. UNCHANGED vars
      BY <1>11 DEF Stopped
    <2>2. TypeOK'
      BY <1>0, <2>1 DEF vars, TypeOK
    <2> QED
      BY <1>1, <2>1, <2>2 DEF vars
  <1> QED
    BY <1>2, <1>3, <1>4, <1>5, <1>6, <1>7, <1>8, <1>9, <1>10, <1>11 DEF Next, SlotStep

\* In every configuration the invariant holds.
THEOREM Invariant == Spec => []IInv
  <1> QED
    BY InitIInv, NextIInv, PTL DEF Spec

\* NrUeMac, its HARQ entity, the RLC entities and the PHY queues keep their
\* types, whatever the configuration: in particular ComputeGaps never reads
\* past the slots of a grant and no counter goes below zero.
THEOREM TypeCorrect == Spec => []TypeOK
  <1>1. IInv => TypeOK
    BY DEF IInv
  <1> QED
    BY <1>1, Invariant, PTL

\* No sidelink process is lost or shared between destinations, for any number
\* of destinations, processes and retransmissions.
THEOREM ProcessesSafe == Spec => []ProcessesAccountedFor
  <1>1. IInv => ProcessesAccountedFor
    <2> SUFFICES ASSUME IInv PROVE ProcessesAccountedFor
      OBVIOUS
    <2>1. Accounted(harq, Owned) /\ ProcessNamed
      BY DEF IInv
    <2>2. \A d \in Dst : InFlight(grantInfo[d]) <=> Owned[d] # NoHarq
      BY <2>1, HarqIdsFacts DEF ProcessNamed, Owned
    <2>3. \A d \in Dst : InFlight(grantInfo[d]) => Owned[d] = grantInfo[d].nrSlHarqId
      BY DEF Owned
    <2>4. \A i, j \in 1..Len(harq.ids) : harq.ids[i] = harq.ids[j] => i = j
      BY <2>1 DEF Accounted
    <2>5. \A h \in HarqIds : IsHarqIdAvaiable(harq, h) => harq.pkt[h] = EmptyEntry
      BY <2>1 DEF Accounted
    <2>6. ASSUME NEW h \in HarqIds, ~IsHarqIdAvaiable(harq, h)
          PROVE  \E d \in Dst : /\ harq.pkt[h].dstL2Id = d
                                /\ grantInfo[d].nrSlHarqId = h
                                /\ InFlight(grantInfo[d])
      <3>1. PICK d \in Dst : harq.pkt[h].dstL2Id = d /\ Owned[d] = h
        BY <2>1, <2>6 DEF Accounted
      <3>2. InFlight(grantInfo[d])
        BY <2>2, <3>1, HarqIdsFacts
      <3>3. grantInfo[d].nrSlHarqId = h
        BY <2>3, <3>1, <3>2
      <3> QED
        BY <3>1, <3>2, <3>3
    <2>7. \A d \in Dst : InFlight(grantInfo[d]) => BelongsTo(harq, grantInfo[d].nrSlHarqId, d)
      BY <2>1, <2>2, <2>3 DEF Accounted
    <2> QED
      BY <2>4, <2>5, <2>6, <2>7 DEF ProcessesAccountedFor
  <1> QED
    BY <1>1, Invariant, PTL

\* A grant never runs out of slots before its counter does, however often its
\* resources are kept.
THEOREM GrantsSafe == Spec => []GrantNeverRunsDry
  <1>1. IInv => GrantNeverRunsDry
    <2> SUFFICES ASSUME IInv, NEW d \in Dst, grantInfo[d].slResoReselCounter # 0
                 PROVE  /\ grantInfo[d].slotAllocations # <<>>
                        /\ Len(grantInfo[d].slotAllocations) =
                             grantInfo[d].cReselCounter * grantInfo[d].nSelected
                               - Sent(grantInfo[d])
      BY Zenon DEF GrantNeverRunsDry
    <2>1. SlotsOK(grantInfo[d])
      BY DEF IInv, GrantsOK, GrantOK
    <2> QED
      BY <2>1, Zenon DEF SlotsOK
  <1> QED
    BY <1>1, Invariant, PTL

----------------------------------------------------------------------------
(* With a process per destination                                          *)

\* A step of the slot handler that replaces the grant of the destination it
\* visits, which leaves the loop's list.
LEMMA OneVisited ==
    ASSUME NEW d \in Dst, IInv, TimingInv, NEW x \in NrSlGrantInfo,
           phase \in {"select", "transmit"}, d \in todo,
           phase = "select" => SlotsFrom(x, 0) /\ Active(x),
           phase = "transmit" => SlotsFrom(x, 1),
           x.slotAllocations = <<>> \/ d \in destinations,
           grantInfo' = [grantInfo EXCEPT ![d] = x], todo' = todo \ {d},
           UNCHANGED <<phase, destinations, halted>>
    PROVE  TimingInv'
  <1>1. /\ grantInfo'[d] = x /\ \A e \in Dst : e # d => grantInfo'[e] = grantInfo[e]
    BY DEF IInv, TypeOK
  <1>2. OnlyDestinations'
    BY <1>1 DEF TimingInv, OnlyDestinations
  <1>3. ASSUME NEW e \in Dst PROVE TimingOK(e)'
    <2>1. TimingOK(e)
      BY DEF TimingInv
    <2>2. CASE e = d
      BY <1>1, <2>2 DEF TimingOK
    <2>3. CASE e # d
      BY <1>1, <2>1, <2>3 DEF TimingOK
    <2> QED
      BY <2>2, <2>3
  <1> QED
    BY <1>2, <1>3 DEF TimingInv

\* Resource selection.
LEMMA SelectKeepsTiming ==
    ASSUME IInv, TimingInv, NEW d \in Dst, Select(d)
    PROVE  TimingInv'
  <1> DEFINE g == grantInfo[d]
  <1>1. /\ g \in NrSlGrantInfo /\ GrantOK(g) /\ grantInfo \in [Dst -> NrSlGrantInfo]
    BY DEF IInv, TypeOK, GrantsOK
  <1>2. /\ phase = "select" /\ d \in todo /\ todo' = todo \ {d} /\ d \in destinations
        /\ UNCHANGED <<phase, destinations, halted>>
    BY DEF Select, TimingInv
  <1>3. SlotsFrom(g, 0)
    BY <1>2 DEF TimingInv, TimingOK
  <1>4. CASE HasAllocation(d)
    <2>1. grantInfo' = [grantInfo EXCEPT ![d] = g]
      BY <1>1, <1>4 DEF HasAllocation
    <2>2. Active(g)
      BY <1>4 DEF HasAllocation, Active
    <2> HIDE DEF g
    <2> QED
      BY <1>1, <1>2, <1>3, <2>1, <2>2, OneVisited
  <1>5. CASE KeepResource(d)
    <2> DEFINE x == [g EXCEPT !.slResoReselCounter = g.prevSlResoReselCounter]
    <2>1. /\ x \in NrSlGrantInfo /\ x.slResoReselCounter # 0
          /\ x.slotAllocations = g.slotAllocations
      BY <1>1, <1>5, KeptGrant DEF KeepResource
    <2>2. grantInfo' = [grantInfo EXCEPT ![d] = x]
      BY <1>5 DEF KeepResource
    <2> HIDE DEF x
    <2>3. SlotsFrom(x, 0) /\ Active(x)
      BY <1>3, <2>1 DEF SlotsFrom, Active
    <2> QED
      BY <1>2, <2>1, <2>2, <2>3, OneVisited
  <1>6. CASE ReselectResource(d)
    <2> DEFINE x == [g EXCEPT !.slotAllocations = <<>>]
               erased == [grantInfo EXCEPT ![d] = x]
    <2>1. g.slResoReselCounter = 0
      BY <1>6 DEF ReselectResource
    <2>2. x \in NrSlGrantInfo /\ x.slotAllocations = <<>> /\ SlotsFrom(x, 0)
      BY <1>1, <2>1, ErasedGrant
    <2>3. PICK txOpps \in TxOpportunities :
            \/ grantInfo' = erased
            \/ /\ FilterTxOpportunities(txOpps, erased) # {}
               /\ \E sel \in RandomlySelectSlots(FilterTxOpportunities(txOpps, erased)),
                     c \in ReselCounters :
                    grantInfo' = [grantInfo EXCEPT ![d] = CreateGrantInfo(sel, c)]
      BY <1>6 DEF ReselectResource
    <2>4. CASE grantInfo' = erased
      <3> HIDE DEF x
      <3>1. Active(x)
        BY <2>2 DEF Active
      <3> QED
        BY <1>2, <2>2, <2>4, <3>1, OneVisited
    <2>5. CASE /\ FilterTxOpportunities(txOpps, erased) # {}
               /\ \E sel \in RandomlySelectSlots(FilterTxOpportunities(txOpps, erased)),
                     c \in ReselCounters :
                    grantInfo' = [grantInfo EXCEPT ![d] = CreateGrantInfo(sel, c)]
      <3> DEFINE S == FilterTxOpportunities(txOpps, erased)
      <3>1. S \in SUBSET SelectionWindow
        BY DEF FilterTxOpportunities, TxOpportunities
      <3> HIDE DEF S
      <3>2. PICK sel \in RandomlySelectSlots(S), c \in ReselCounters :
              grantInfo' = [grantInfo EXCEPT ![d] = CreateGrantInfo(sel, c)]
        BY <2>5 DEF S
      <3>3. /\ sel \in Seq(SelectionWindow) /\ Len(sel) > 0
            /\ \A i, j \in 1..Len(sel) : i < j => sel[i] < sel[j]
        BY <2>5, <3>1, SelectedSlots DEF S
      <3> DEFINE y == CreateGrantInfo(sel, c)
      <3>4. y \in NrSlGrantInfo /\ SlotsFrom(y, 0) /\ y.slResoReselCounter # 0
        BY <3>3, NewGrant
      <3> HIDE DEF y
      <3>5. Active(y)
        BY <3>4 DEF Active
      <3>6. grantInfo' = [grantInfo EXCEPT ![d] = y]
        BY <3>2 DEF y
      <3> QED
        BY <1>2, <3>4, <3>5, <3>6, OneVisited
    <2> QED
      BY <2>3, <2>4, <2>5
  <1> QED
    BY <1>4, <1>5, <1>6 DEF Select

\* A new slot: when no process is free, every destination has a TB in flight
\* and so a grant that need not be selected again.
LEMMA SlotIndicationKeepsTiming ==
    ASSUME IInv, TimingInv, SlotIndication, Cardinality(Dst) <= NumSidelinkProcess
    PROVE  TimingInv'
  <1> DEFINE x(d) == [grantInfo[d] EXCEPT !.slotAllocations = NextSlot(@)]
  <1>1. \A d \in Dst : grantInfo[d] \in NrSlGrantInfo /\ GrantOK(grantInfo[d])
    BY DEF IInv, TypeOK, GrantsOK
  <1>2. \A d \in Dst : SlotsFrom(grantInfo[d], 1)
    BY DEF SlotIndication, TimingInv, TimingOK
  <1>3. \A d \in Dst : /\ SlotsFrom(x(d), 0)
                       /\ x(d).slotAllocations = <<>> <=> grantInfo[d].slotAllocations = <<>>
                       /\ x(d).slResoReselCounter = grantInfo[d].slResoReselCounter
    BY <1>1, <1>2, LaterGrant
  <1> HIDE DEF x
  <1>4. /\ \A d \in Dst : grantInfo'[d] = x(d)
        /\ UNCHANGED <<destinations, halted>>
    BY DEF SlotIndication, x
  <1>5. OnlyDestinations'
    BY <1>3, <1>4 DEF TimingInv, OnlyDestinations
  <1>6. CASE GetNumAvaiableHarqIds(harq) > 0
    <2>1. phase' = "select" /\ todo' = destinations
      BY <1>6 DEF SlotIndication
    <2>2. ASSUME NEW d \in Dst PROVE TimingOK(d)'
      <3>1. d \in destinations \/ Active(x(d))
        BY <1>3 DEF TimingInv, OnlyDestinations, Active
      <3> QED
        BY <1>3, <1>4, <2>1, <3>1 DEF TimingOK
    <2> QED
      BY <1>4, <1>5, <2>1, <2>2 DEF TimingInv
  <1>7. CASE ~(GetNumAvaiableHarqIds(harq) > 0)
    <2>1. phase' = "transmit" /\ todo' = Dst
      BY <1>7 DEF SlotIndication
    <2>2. ASSUME NEW d \in Dst PROVE TimingOK(d)'
      <3>1. Owned[d] # NoHarq
        <4>1. harq \in HarqType /\ Accounted(harq, Owned) /\ Owned \in [Dst -> Nat]
          BY OwnedTyped DEF IInv, TypeOK
        <4> QED
          BY <1>7, <4>1, FreeProcess DEF GetNumAvaiableHarqIds
      <3>2. InFlight(grantInfo[d])
        BY <3>1 DEF Owned
      <3>3. Active(x(d))
        BY <1>1, <1>3, <3>2 DEF GrantOK, TbOK, Active
      <3> QED
        BY <1>3, <1>4, <2>1, <3>3 DEF TimingOK
    <2> QED
      BY <1>4, <1>5, <2>1, <2>2 DEF TimingInv
  <1> QED
    BY <1>6, <1>7

\* A transmission does not abort and leaves the slots ahead.
LEMMA TransmitKeepsTiming ==
    ASSUME IInv, TimingInv, NEW d \in Dst, TransmitNew(d) \/ TransmitAgain(d),
           Cardinality(Dst) <= NumSidelinkProcess, EnableBlindReTx
    PROVE  TimingInv'
  <1> DEFINE g == grantInfo[d]
             a == Head(g.slotAllocations)
  <1>1. /\ g \in NrSlGrantInfo /\ GrantOK(g) /\ Due(g)
        /\ phase = "transmit" /\ d \in todo /\ ~halted
    BY DEF IInv, TypeOK, GrantsOK, TransmitNew, TransmitAgain
  <1>2. SlotsFrom(g, 0) /\ d \in destinations
    BY <1>1 DEF TimingInv, TimingOK, OnlyDestinations, Due
  <1>3. /\ harq \in HarqType /\ Accounted(harq, Owned) /\ Owned \in [Dst -> Nat]
        /\ ProcessNamed
    BY OwnedTyped DEF IInv, TypeOK
  <1>4. a.txIdx = Sent(g)
    BY <1>1, UsedGrant
  <1>5. g.tbTxCounter \in Nat
    BY <1>1 DEF NrSlGrantInfo
  <1>6. CASE TransmitNew(d)
    <2> DEFINE h    == NextHarqId(harq)
               txed == txBuffer[d] > 0
               assigned == AssignNrSlHarqProcessId(harq, d)
               filled   == IF txed THEN AddPacket(assigned, h, LcId) ELSE assigned
               x == AfterTx(g, 1, h)
    <2>1. Ndi(a)
      BY <1>6 DEF TransmitNew
    <2>2. Sent(g) = 0 /\ ~InFlight(g)
      BY <1>4, <1>5, <2>1 DEF Ndi, Sent, InFlight
    <2>3. Owned[d] = NoHarq
      BY <2>2 DEF Owned
    <2>4. Len(harq.ids) > 0
      BY <1>3, <2>3, FreeProcess
    <2>5. /\ h \in HarqIds /\ assigned \in HarqType
          /\ Accounted(assigned, [Owned EXCEPT ![d] = h])
          /\ ~IsHarqIdAvaiable(assigned, h)
          /\ assigned.pkt[h].lcidList = {} /\ assigned.pkt[h].pktBurst = 0
      BY <1>3, <2>3, <2>4, HarqTake
    <2>6. txed => OnePduPerLc(filled, h)
      <3> DEFINE own == [Owned EXCEPT ![d] = h]
                 q == AddPacket(assigned, h, LcId)
      <3>1. own \in [Dst -> Nat] /\ LcId \in Nat
        BY <1>3, <2>5, HarqIdsFacts DEF LcId
      <3>2. q.pkt[h].lcidList = {} \cup {LcId} /\ q.pkt[h].pktBurst = 0 + 1
        <4> HIDE DEF own, assigned, h
        <4>1. Accounted(assigned, own)
          BY <2>5 DEF own
        <4> QED
          BY <2>5, <3>1, <4>1, HarqAdd
      <3>3. Cardinality({LcId}) = 1 /\ {} \cup {LcId} = {LcId} /\ 0 + 1 = 1
        <4>1. Cardinality({LcId}) = 1
          BY FS_Singleton
        <4> QED
          BY <4>1
      <3>4. OnePduPerLc(q, h)
        BY <3>2, <3>3 DEF OnePduPerLc
      <3> QED
        BY <3>4
    <2> HIDE DEF assigned, filled, h, txed
    <2>7. /\ grantInfo' = [grantInfo EXCEPT ![d] = x] /\ todo' = todo \ {d}
          /\ UNCHANGED <<phase, destinations, halted>>
      BY <1>6, <2>4, <2>6 DEF TransmitNew, GetNumAvaiableHarqIds, assigned, filled, h, txed
    <2>8. x \in NrSlGrantInfo /\ SlotsFrom(x, 1)
      <3>1. 0 + 1 = 1 /\ h \in Nat
        BY <2>5, HarqIdsFacts
      <3> QED
        BY <1>1, <1>2, <2>2, <3>1, UsedGrant
    <2> HIDE DEF x
    <2> QED
      BY <1>1, <1>2, <2>7, <2>8, OneVisited
  <1>7. CASE TransmitAgain(d)
    <2> DEFINE h == g.nrSlHarqId
               n == g.tbTxCounter + 1
               x == AfterTx(g, n, h)
    <2>1. ~Ndi(a)
      BY <1>7 DEF TransmitAgain
    <2>2. InFlight(g) /\ n = Sent(g) + 1
      BY <1>4, <2>1 DEF Ndi, Sent
    <2>3. h \in HarqIds /\ Owned[d] = h
      BY <1>3, <2>2 DEF ProcessNamed, Owned
    <2>4. BelongsTo(harq, h, d)
      BY <1>3, <2>3, HarqIdsFacts DEF Accounted
    <2>5. /\ grantInfo' = [grantInfo EXCEPT ![d] = x] /\ todo' = todo \ {d}
          /\ UNCHANGED <<phase, destinations, halted>>
      BY <1>7, <2>4 DEF TransmitAgain
    <2>6. x \in NrSlGrantInfo /\ SlotsFrom(x, 1)
      <3>1. h \in Nat
        BY <2>3, HarqIdsFacts
      <3> QED
        BY <1>1, <1>2, <2>2, <3>1, UsedGrant
    <2> HIDE DEF x
    <2> QED
      BY <1>1, <1>2, <2>5, <2>6, OneVisited
  <1> QED
    BY <1>6, <1>7

\* A destination with nothing to send in this slot has its slots ahead.
LEMMA NothingDueKeepsTiming ==
    ASSUME IInv, TimingInv, NEW d \in Dst, NothingDue(d)
    PROVE  TimingInv'
  <1> DEFINE g == grantInfo[d]
             s == g.slotAllocations
  <1>1. /\ g \in NrSlGrantInfo /\ grantInfo \in [Dst -> NrSlGrantInfo]
        /\ phase = "transmit" /\ d \in todo /\ todo' = todo \ {d} /\ ~Due(g)
        /\ grantInfo' = [grantInfo EXCEPT ![d] = g]
        /\ UNCHANGED <<phase, destinations, halted>>
    BY DEF IInv, TypeOK, NothingDue, macVars
  <1>2. SlotsFrom(g, 0) /\ Active(g) /\ (s = <<>> \/ d \in destinations)
    BY <1>1 DEF TimingInv, TimingOK, OnlyDestinations
  <1>3. s \in Seq(SlotAlloc)
    BY <1>1 DEF NrSlGrantInfo
  <1>4. SlotsFrom(g, 1)
    <2>1. CASE s = <<>>
      BY <2>1 DEF SlotsFrom
    <2>2. CASE s # <<>>
      <3>1. g.slResoReselCounter # 0 /\ Head(s).sfn # 0
        BY <1>1, <1>2, <2>2 DEF Due, Active
      <3>2. Head(s) = s[1] /\ Len(s) \in Nat /\ 1 \in 1..Len(s)
        BY <1>3, <2>2
      <3>3. \A k \in 1..Len(s) : s[k].sfn \in Int
        <4>1. \A k \in 1..Len(s) : s[k] \in SlotAlloc
          BY <1>3
        <4> QED
          BY <4>1 DEF SlotAlloc
      <3>4. /\ \A k \in 1..Len(s) : s[k].sfn >= 0
            /\ \A i, j \in 1..Len(s) : i < j => s[i].sfn < s[j].sfn
        BY <1>2 DEF SlotsFrom
      <3> HIDE DEF s
      <3>5. \A k \in 1..Len(s) : s[k].sfn >= 1
        <4> TAKE k \in 1..Len(s)
        <4>1. CASE k = 1
          BY <3>1, <3>2, <3>3, <3>4, <4>1
        <4>2. CASE k # 1
          <5>1. s[1].sfn < s[k].sfn
            BY <3>2, <3>4, <4>2
          <5> QED
            BY <3>2, <3>3, <3>4, <5>1
        <4> QED
          BY <4>1, <4>2
      <3> QED
        BY <3>4, <3>5 DEF SlotsFrom, s
    <2> QED
      BY <2>1, <2>2
  <1> HIDE DEF g
  <1> QED
    BY <1>1, <1>2, <1>4, OneVisited

\* Every step keeps the timing.
LEMMA NextTiming ==
    ASSUME Cardinality(Dst) <= NumSidelinkProcess, EnableBlindReTx
    PROVE  IInv /\ TimingInv /\ [Next]_vars => TimingInv'
  <1> SUFFICES ASSUME IInv, TimingInv, [Next]_vars PROVE TimingInv'
    OBVIOUS
  <1> USE DEF macVars, rlcVars, phyVars
  <1>1. CASE SlotIndication
    BY <1>1, SlotIndicationKeepsTiming
  <1>2. CASE SelectDone
    BY <1>2 DEF SelectDone, TimingInv, TimingOK, OnlyDestinations
  <1>3. CASE TransmitDone
    BY <1>3 DEF TransmitDone, TimingInv, TimingOK, OnlyDestinations
  <1>4. CASE PhySlot
    BY <1>4 DEF PhySlot, TimingInv, TimingOK, OnlyDestinations
  <1>5. ASSUME NEW d \in Dst, Select(d) PROVE TimingInv'
    BY <1>5, SelectKeepsTiming
  <1>6. ASSUME NEW d \in Dst, NothingDue(d) PROVE TimingInv'
    BY <1>6, NothingDueKeepsTiming
  <1>7. ASSUME NEW d \in Dst, TransmitNew(d) \/ TransmitAgain(d) PROVE TimingInv'
    BY <1>7, TransmitKeepsTiming
  <1>8. ASSUME NEW d \in Dst, AddNrSlLc(d) PROVE TimingInv'
    BY <1>8 DEF AddNrSlLc, TimingInv, TimingOK, OnlyDestinations
  <1>9. ASSUME NEW d \in Dst, TransmitPdcpPdu(d) \/ ExpireRbsTimer(d) PROVE TimingInv'
    BY <1>9 DEF TransmitPdcpPdu, ExpireRbsTimer, TimingInv, TimingOK, OnlyDestinations
  <1>10. CASE Stopped \/ UNCHANGED vars
    BY <1>10 DEF Stopped, vars, TimingInv, TimingOK, OnlyDestinations
  <1> QED
    BY <1>1, <1>2, <1>3, <1>4, <1>5, <1>6, <1>7, <1>8, <1>9, <1>10 DEF Next, SlotStep

\* The timing invariant, when there is a sidelink process per destination and
\* blind retransmissions are enabled.
THEOREM Timing ==
    ASSUME Cardinality(Dst) <= NumSidelinkProcess, EnableBlindReTx
    PROVE  Spec => []TimingInv
  <1>1. Init => TimingInv
    <2> SUFFICES ASSUME Init PROVE TimingInv
      OBVIOUS
    <2>1. \A d \in Dst : grantInfo[d].slotAllocations = <<>>
      BY DEF Init, NoGrant
    <2>2. Len(<<>>) = 0
      OBVIOUS
    <2>3. \A d \in Dst : SlotsFrom(grantInfo[d], 1)
      BY <2>1, <2>2 DEF SlotsFrom
    <2>4. phase = "idle" /\ ~halted
      BY DEF Init
    <2> QED
      BY <2>1, <2>3, <2>4 DEF TimingInv, TimingOK, OnlyDestinations
  <1>2. IInv /\ TimingInv /\ [Next]_vars => TimingInv'
    BY NextTiming
  <1> QED
    BY <1>1, <1>2, Invariant, PTL DEF Spec

\* With a sidelink process per destination no abort of the transmit side is
\* reached: neither the one of AssignNrSlHarqProcessId, though the slot handler
\* looks for a free process slots before it needs one, nor the checks on the
\* owner of a process and on the number of packets of a TB.
THEOREM NoAbort ==
    ASSUME Cardinality(Dst) <= NumSidelinkProcess, EnableBlindReTx
    PROVE  Spec => []NeverAborts
  <1>1. TimingInv => NeverAborts
    BY DEF TimingInv, NeverAborts
  <1>2. Spec => []TimingInv
    BY Timing
  <1> QED
    BY <1>1, <1>2, PTL

\* With a sidelink process per destination no reserved slot goes by unused, so
\* that the transmission loop, which looks at the first slot of a grant only,
\* is never blocked by a slot in the past.
THEOREM NoSlotMissed ==
    ASSUME Cardinality(Dst) <= NumSidelinkProcess, EnableBlindReTx
    PROVE  Spec => []NoMissedSlot
  <1>1. IInv /\ TimingInv => NoMissedSlot
    <2> SUFFICES ASSUME IInv, TimingInv, phase = "idle", NEW d \in Dst,
                        grantInfo[d].slotAllocations # <<>>
                 PROVE  Head(grantInfo[d].slotAllocations).sfn > 0
      BY DEF NoMissedSlot
    <2> DEFINE s == grantInfo[d].slotAllocations
    <2>1. s \in Seq(SlotAlloc)
      BY DEF IInv, TypeOK, NrSlGrantInfo
    <2>2. Head(s) = s[1] /\ 1 \in 1..Len(s) /\ s[1] \in SlotAlloc
      BY <2>1
    <2>3. s[1].sfn \in Int
      BY <2>2 DEF SlotAlloc
    <2>4. s[1].sfn >= 1
      BY <2>2 DEF TimingInv, TimingOK, SlotsFrom
    <2> QED
      BY <2>2, <2>3, <2>4
  <1>2. Spec => []TimingInv
    BY Timing
  <1> QED
    BY <1>1, <1>2, Invariant, PTL

----------------------------------------------------------------------------
(* The steps of a TB                                                       *)

\* Re-selection, a new slot and the transmissions of other destinations leave
\* a TB in flight alone, and its own transmissions count up to the last one:
\* in every configuration, also when the program aborts.
THEOREM TbsFinish == Spec => TbIsFinished
  <1>1. IInv /\ [Next]_vars => TbStep
    <2> SUFFICES ASSUME IInv, [Next]_vars PROVE TbStep
      OBVIOUS
    <2> USE DEF macVars, rlcVars, phyVars
    <2>1. ASSUME UNCHANGED grantInfo PROVE TbStep
      BY <2>1 DEF TbStep
    <2>2. /\ grantInfo \in [Dst -> NrSlGrantInfo]
          /\ \A d \in Dst : grantInfo[d] \in NrSlGrantInfo /\ GrantOK(grantInfo[d])
      BY DEF IInv, TypeOK, GrantsOK
    <2>3. CASE SlotIndication
      <3> DEFINE x(d) == [grantInfo[d] EXCEPT !.slotAllocations = NextSlot(@)]
      <3>1. \A d \in Dst : grantInfo'[d] = x(d)
        BY <2>3 DEF SlotIndication
      <3>2. \A d \in Dst : /\ x(d).nrSlHarqId = grantInfo[d].nrSlHarqId
                           /\ x(d).nSelected = grantInfo[d].nSelected
                           /\ x(d).tbTxCounter = grantInfo[d].tbTxCounter
        BY <2>2, LaterGrant
      <3> HIDE DEF x
      <3> QED
        BY <3>1, <3>2 DEF TbStep
    <2>4. ASSUME NEW d \in Dst, NEW y, grantInfo' = [grantInfo EXCEPT ![d] = y],
                 ~InFlight(grantInfo[d])
          PROVE  TbStep
      BY <2>2, <2>4 DEF TbStep
    <2>5. ASSUME NEW d \in Dst, Select(d) PROVE TbStep
      <3>1. CASE HasAllocation(d)
        BY <2>1, <3>1 DEF HasAllocation
      <3>2. CASE KeepResource(d) \/ ReselectResource(d)
        <4>1. grantInfo[d].slResoReselCounter = 0
          BY <3>2 DEF KeepResource, ReselectResource
        <4>2. ~InFlight(grantInfo[d])
          BY <2>2, <4>1 DEF GrantOK, TbOK
        <4>3. CASE KeepResource(d)
          <5>1. grantInfo' = [grantInfo EXCEPT ![d] =
                     [grantInfo[d] EXCEPT !.slResoReselCounter =
                          grantInfo[d].prevSlResoReselCounter]]
            BY <4>3 DEF KeepResource
          <5> QED
            BY <2>4, <4>2, <5>1
        <4>4. CASE ReselectResource(d)
          <5>1. \E y : grantInfo' = [grantInfo EXCEPT ![d] = y]
            BY <4>4 DEF ReselectResource
          <5> QED
            BY <2>4, <4>2, <5>1
        <4> QED
          BY <3>2, <4>3, <4>4
      <3> QED
        BY <2>5, <3>1, <3>2 DEF Select
    <2>6. ASSUME NEW d \in Dst, TransmitNew(d) PROVE TbStep
      <3>1. CASE UNCHANGED grantInfo
        BY <2>1, <3>1
      <3>2. CASE grantInfo' = [grantInfo EXCEPT ![d] =
                                  AfterTx(grantInfo[d], 1, NextHarqId(harq))]
        <4>1. Due(grantInfo[d]) /\ Ndi(Head(grantInfo[d].slotAllocations))
          BY <2>6 DEF TransmitNew
        <4>2. Head(grantInfo[d].slotAllocations).txIdx = Sent(grantInfo[d])
          BY <2>2, <4>1, UsedGrant
        <4>3. ~InFlight(grantInfo[d])
          BY <2>2, <4>1, <4>2 DEF Ndi, Sent, InFlight, NrSlGrantInfo
        <4> QED
          BY <2>4, <3>2, <4>3
      <3> QED
        BY <2>6, <3>1, <3>2 DEF TransmitNew, Abort
    <2>7. ASSUME NEW d \in Dst, TransmitAgain(d) PROVE TbStep
      <3> DEFINE g == grantInfo[d]
                 h == g.nrSlHarqId
                 n == g.tbTxCounter + 1
                 x == AfterTx(g, n, h)
      <3>1. CASE UNCHANGED grantInfo
        BY <2>1, <3>1
      <3>2. CASE grantInfo' = [grantInfo EXCEPT ![d] = x]
        <4>1. Due(g) /\ ~Ndi(Head(g.slotAllocations))
          BY <2>7 DEF TransmitAgain
        <4>2. Head(g.slotAllocations).txIdx = Sent(g)
          BY <2>2, <4>1, UsedGrant
        <4>3. InFlight(g) /\ n = Sent(g) + 1 /\ h \in Nat
          BY <2>2, <4>1, <4>2 DEF Ndi, Sent, NrSlGrantInfo
        <4>4. /\ x.nrSlHarqId = h /\ x.nSelected = g.nSelected
              /\ n # g.nSelected => x.tbTxCounter = n
              /\ n = g.nSelected => x.tbTxCounter = IF n > 1 THEN 0 ELSE 1
          BY <2>2, <4>1, <4>3, UsedGrant
        <4>5. n > 1
          BY <2>2, <4>3 DEF InFlight, NrSlGrantInfo
        <4>6. /\ grantInfo'[d] = x
              /\ \A e \in Dst : e # d => grantInfo'[e] = grantInfo[e]
          BY <2>2, <3>2
        <4> HIDE DEF x
        <4> QED
          BY <4>4, <4>5, <4>6 DEF TbStep
      <3> QED
        BY <2>7, <3>1, <3>2 DEF TransmitAgain, Abort
    <2>8. CASE SelectDone \/ TransmitDone \/ PhySlot \/ Stopped \/ UNCHANGED vars
      BY <2>1, <2>8 DEF SelectDone, TransmitDone, PhySlot, Stopped, vars
    <2>9. ASSUME NEW d \in Dst,
                 NothingDue(d) \/ AddNrSlLc(d) \/ TransmitPdcpPdu(d) \/ ExpireRbsTimer(d)
          PROVE  TbStep
      BY <2>1, <2>9 DEF NothingDue, AddNrSlLc, TransmitPdcpPdu, ExpireRbsTimer
    <2> QED
      BY <2>3, <2>5, <2>6, <2>7, <2>8, <2>9 DEF Next, SlotStep
  <1> QED
    BY <1>1, Invariant, PTL DEF Spec, TbIsFinished

----------------------------------------------------------------------------
(* What the SCI 1-A announces                                              *)

\* The eight bits of a gap can tell every distance in the selection window
\* from the value that means no retransmission.
WindowFits == T2 - T1 < NoGap

\* An SCI 1-A indicates every slot of its TB up to the next SCI 1-A: the
\* positions that ComputeGaps reads are consecutive as long as a reservation
\* has at most three slots.
LEMMA GapsCover ==
    ASSUME WindowFits,
           NEW g \in NrSlGrantInfo, GrantOK(g), Due(g), SlotsFrom(g, 0),
           TxSci1A(Head(g.slotAllocations)),
           NEW k \in 1..Len(Tail(g.slotAllocations)),
           \A j \in 1..k : ~TxSci1A(Tail(g.slotAllocations)[j])
    PROVE  Tail(g.slotAllocations)[k].sfn \in
               ComputeGaps(Tail(g.slotAllocations),
                           SlotNumInd(Head(g.slotAllocations), g.nSelected)) \ {NoGap}
  <1> DEFINE s == g.slotAllocations
             t == Tail(s)
             N == g.nSelected
             M == MaxNumPerReserve
             x == Head(s).txIdx
             ind == SlotNumInd(Head(s), N)
             y(j) == t[j].txIdx
  <1>1. s \in Seq(SlotAlloc) /\ s # <<>> /\ N \in Nat
    BY DEF NrSlGrantInfo, Due
  <1>2. /\ t \in Seq(SlotAlloc) /\ Len(t) = Len(s) - 1 /\ Head(s) = s[1]
        /\ Len(s) \in Nat /\ Len(t) \in Nat
        /\ \A j \in 1..Len(t) : t[j] = s[j + 1]
    BY <1>1
  <1>3. \A j \in 1..Len(s) : s[j].txIdx \in Nat /\ s[j].txIdx < N
    <2>1. \A j \in 1..Len(s) : s[j] \in SlotAlloc
      BY <1>1
    <2>2. \A j \in 1..Len(s) : s[j].txIdx \in Nat
      BY <2>1 DEF SlotAlloc
    <2>3. \A j \in 1..Len(s) : s[j].txIdx < N
      BY Zenon DEF GrantOK, SlotsOK
    <2> QED
      BY <2>2, <2>3
  <1>4. \A j \in 1..(Len(s) - 1) :
          s[j + 1].txIdx = IF s[j].txIdx = N - 1 THEN 0 ELSE s[j].txIdx + 1
    BY Zenon DEF GrantOK, SlotsOK
  <1>5. x \in Nat /\ x < N
    BY <1>1, <1>2, <1>3
  <1>6. /\ \A j \in 1..Len(t) : y(j) \in Nat /\ y(j) < N
        /\ y(1) = IF x = N - 1 THEN 0 ELSE x + 1
        /\ \A j \in 1..(Len(t) - 1) : y(j + 1) = IF y(j) = N - 1 THEN 0 ELSE y(j) + 1
    <2>1. \A j \in 1..Len(t) : y(j) \in Nat /\ y(j) < N
      BY <1>2, <1>3
    <2>2. 1 \in 1..Len(t) /\ 1 \in 1..(Len(s) - 1)
      BY <1>2
    <2>3. y(1) = IF x = N - 1 THEN 0 ELSE x + 1
      BY <1>2, <1>4, <2>2
    <2>4. \A j \in 1..(Len(t) - 1) : y(j + 1) = IF y(j) = N - 1 THEN 0 ELSE y(j) + 1
      <3> TAKE j \in 1..(Len(t) - 1)
      <3>1. /\ j \in 1..Len(t) /\ j + 1 \in 1..Len(t) /\ j + 1 \in 1..(Len(s) - 1)
        BY <1>2
      <3>2. t[j] = s[j + 1] /\ t[j + 1] = s[(j + 1) + 1]
        BY <1>2, <3>1
      <3> QED
        BY <1>4, <3>1, <3>2
    <2> QED
      BY <2>1, <2>3, <2>4
  <1>7. x % M = 0 /\ \A j \in 1..k : y(j) % M # 0
    BY DEF TxSci1A
  <1>8. M \in {1, 2, 3}
    BY PoolAssumption
  <1>9. ind = IF x + M <= N THEN M ELSE N - x
    BY <1>7 DEF SlotNumInd, TxSci1A
  <1> HIDE DEF s, t, N, M, x, ind, y
  <1>10. 0 % M = 0
    BY <1>8
  <1>11. k \in Nat /\ k >= 1 /\ k <= Len(t)
    BY <1>2 DEF t, s
  <1>12. y(1) = x + 1 /\ x + 1 < N /\ M # 1
    <2>1. 1 \in 1..k /\ 1 \in 1..Len(t)
      BY <1>2, <1>11
    <2>2. y(1) % M # 0 /\ y(1) \in Nat /\ y(1) < N
      BY <1>6, <1>7, <2>1
    <2>3. y(1) # 0
      BY <1>10, <2>2
    <2>4. y(1) % 1 = 0
      BY <2>2
    <2> QED
      BY <1>1, <1>5, <1>6, <2>2, <2>3, <2>4 DEF N
  <1>13. ASSUME k >= 2 PROVE y(2) = x + 2 /\ x + 2 < N /\ M = 3
    <2>1. 2 \in 1..k /\ 2 \in 1..Len(t) /\ 1 \in 1..(Len(t) - 1) /\ 1 + 1 = 2
      BY <1>2, <1>11, <1>13
    <2>2. y(2) % M # 0 /\ y(2) \in Nat /\ y(2) < N
      BY <1>6, <1>7, <2>1
    <2>3. y(2) # 0
      BY <1>10, <2>2
    <2>4. y(2) = IF y(1) = N - 1 THEN 0 ELSE y(1) + 1
      BY <1>6, <2>1
    <2>5. y(2) = x + 2
      BY <1>5, <1>12, <2>3, <2>4
    <2>6. M # 2
      <3>1. x % 2 = 0 => (x + 2) % 2 = 0
        BY <1>5
      <3> QED
        BY <1>7, <2>2, <2>5, <3>1
    <2> QED
      BY <1>8, <1>12, <2>2, <2>5, <2>6
  <1>14. k <= 2
    <2> SUFFICES ASSUME k >= 3 PROVE FALSE
      BY <1>11
    <2>1. 3 \in 1..k /\ 3 \in 1..Len(t) /\ 2 \in 1..(Len(t) - 1) /\ 2 + 1 = 3 /\ k >= 2
      BY <1>2, <1>11
    <2>2. y(3) % M # 0 /\ y(3) \in Nat
      BY <1>6, <1>7, <2>1
    <2>3. y(3) # 0
      BY <1>10, <2>2
    <2>4. y(3) = IF y(2) = N - 1 THEN 0 ELSE y(2) + 1
      BY <1>6, <2>1
    <2>5. y(3) = x + 3 /\ M = 3
      BY <1>5, <1>13, <2>1, <2>3, <2>4
    <2>6. x % 3 = 0 => (x + 3) % 3 = 0
      BY <1>5
    <2> QED
      BY <1>7, <2>2, <2>5, <2>6
  <1>15. ind \in Int /\ k - 1 \in 0..(ind - 2)
    <2>1. N \in Nat /\ x \in Nat /\ x < N /\ x + 1 < N
      BY <1>1, <1>5, <1>12 DEF N
    <2>2. CASE k = 1
      BY <1>8, <1>9, <1>12, <2>1, <2>2
    <2>3. CASE k = 2
      BY <1>9, <1>13, <2>1, <2>3
    <2> QED
      BY <1>11, <1>14, <2>2, <2>3
  <1>16. 1 + (((k - 1) * ((k - 1) + 1)) \div 2) = k
    <2>1. k = 1 \/ k = 2
      BY <1>11, <1>14
    <2>2. CASE k = 1
      BY <2>2
    <2>3. CASE k = 2
      BY <2>3
    <2> QED
      BY <2>1, <2>2, <2>3
  <1>17. t[k].sfn % GapMod \in {t[1 + ((i * (i + 1)) \div 2)].sfn % GapMod : i \in 0..(ind - 2)}
    BY <1>15, <1>16
  <1>18. t[k].sfn \in Nat /\ t[k].sfn < NoGap
    <2>1. /\ 1 \in 1..Len(s) /\ k + 1 \in 1..Len(s) /\ 1 <= k + 1
          /\ t[k] = s[k + 1] /\ s[1].sfn = 0 /\ s[1].txIdx = x
      BY <1>2, <1>11 DEF Due, s, x
    <2>2. y(k) = x + k
      BY <1>11, <1>12, <1>13, <1>14
    <2>3. s[k + 1].txIdx - s[1].txIdx = (k + 1) - 1
      BY <1>5, <1>11, <2>1, <2>2 DEF y
    <2>4. s[k + 1].sfn - s[1].sfn <= T2 - T1
      BY <2>1, <2>3 DEF GrantOK, Close, s
    <2>5. s[k + 1].sfn >= 0
      BY <2>1 DEF SlotsFrom, s
    <2>6. s[k + 1].sfn \in Int
      <3>1. s[k + 1] \in SlotAlloc
        BY <1>1, <2>1 DEF s
      <3> QED
        BY <3>1 DEF SlotAlloc
    <2> QED
      BY <2>1, <2>4, <2>5, <2>6, WindowAssumption, GapAssumption DEF WindowFits, NoGap
  <1>19. t[k].sfn % GapMod = t[k].sfn
    <2>1. GapMod \in Nat /\ t[k].sfn \in Nat /\ t[k].sfn < GapMod
      BY <1>18, GapAssumption DEF NoGap
    <2> QED
      BY <2>1, ModSmall
  <1>20. t[k].sfn # NoGap
    BY <1>18, GapAssumption DEF NoGap
  <1> QED
    BY <1>17, <1>19, <1>20 DEF ComputeGaps, t, s, ind, N

\* After a transmission the slots up to the next SCI 1-A are still announced:
\* by the SCI 1-A just sent, or by the one before.
LEMMA UsedAnnounced ==
    ASSUME WindowFits,
           NEW g \in NrSlGrantInfo, GrantOK(g), Due(g), SlotsFrom(g, 0),
           NEW n, NEW h, NEW ind,
           IF TxSci1A(Head(g.slotAllocations))
           THEN ind = ComputeGaps(Tail(g.slotAllocations),
                                  SlotNumInd(Head(g.slotAllocations), g.nSelected)) \ {NoGap}
           ELSE Announced(g, ind)
    PROVE  Announced(AfterTx(g, n, h), ind)
  <1> DEFINE s == g.slotAllocations
             t == Tail(s)
  <1>1. s \in Seq(SlotAlloc) /\ s # <<>>
    BY DEF NrSlGrantInfo, Due
  <1>2. /\ Len(t) = Len(s) - 1 /\ Head(s) = s[1] /\ Len(s) \in Nat /\ Len(t) \in Nat
        /\ \A j \in 1..Len(t) : t[j] = s[j + 1]
    BY <1>1
  <1>3. AfterTx(g, n, h).slotAllocations = t
    BY DEF AfterTx, NrSlGrantInfo
  <1> SUFFICES ASSUME NEW k \in 1..Len(t), \A j \in 1..k : ~TxSci1A(t[j])
               PROVE  t[k].sfn \in ind
    BY <1>3 DEF Announced
  <1>4. CASE TxSci1A(Head(s))
    BY <1>4, GapsCover
  <1>5. CASE ~TxSci1A(Head(s))
    <2>1. Announced(g, ind)
      BY <1>5
    <2>2. k + 1 \in 1..Len(s)
      BY <1>2
    <2>3. ASSUME NEW j \in 1..(k + 1) PROVE ~TxSci1A(s[j])
      <3>1. CASE j = 1
        BY <1>2, <1>5, <3>1
      <3>2. CASE j # 1
        <4>1. j - 1 \in 1..k /\ j - 1 \in 1..Len(t) /\ (j - 1) + 1 = j
          BY <1>2, <3>2
        <4>2. t[j - 1] = s[j]
          BY <1>2, <4>1
        <4> QED
          BY <4>1, <4>2
      <3> QED
        BY <3>1, <3>2
    <2>4. s[k + 1].sfn \in ind
      BY <2>1, <2>2, <2>3 DEF Announced
    <2> QED
      BY <1>2, <2>4
  <1> QED
    BY <1>4, <1>5

\* The operations of the HARQ entity touch the entry of one process.
LEMMA HarqElsewhere ==
    ASSUME NEW hq \in HarqType, NEW h \in HarqIds, NEW k \in HarqIds, k # h, NEW d, NEW lc
    PROVE  /\ NextHarqId(hq) = h => AssignNrSlHarqProcessId(hq, d).pkt[k] = hq.pkt[k]
           /\ AddPacket(hq, h, lc).pkt[k] = hq.pkt[k]
           /\ RecvNrSlHarqFeedback(hq, h).pkt[k] = hq.pkt[k]
  <1>1. hq.pkt \in [HarqIds -> HarqEntries]
    BY DEF HarqType
  <1> QED
    BY <1>1 DEF AssignNrSlHarqProcessId, AddPacket, RecvNrSlHarqFeedback

\* The process of a TB in flight is its destination's own, and not free.
LEMMA OwnProcess ==
    ASSUME IInv, NEW d \in Dst, InFlight(grantInfo[d])
    PROVE  LET h == grantInfo[d].nrSlHarqId
           IN  /\ h \in HarqIds /\ harq.pkt[h].dstL2Id = d
               /\ ~IsHarqIdAvaiable(harq, h)
  <1> DEFINE h == grantInfo[d].nrSlHarqId
  <1>1. h \in HarqIds /\ Owned[d] = h /\ h # NoHarq
    BY HarqIdsFacts DEF IInv, ProcessNamed, Owned
  <1>2. harq.pkt[h].dstL2Id = d
    BY <1>1 DEF IInv, Accounted, BelongsTo
  <1>3. ASSUME IsHarqIdAvaiable(harq, h) PROVE FALSE
    <2>1. harq.pkt[h] = EmptyEntry
      BY <1>1, <1>3 DEF IInv, Accounted
    <2>2. EmptyEntry.dstL2Id = NoDst
      BY DEF EmptyEntry
    <2> QED
      BY <1>2, <2>1, <2>2, DstAssumption
  <1> QED
    BY <1>1, <1>2, <1>3

\* A due grant has its slots ahead.
LEMMA DueIsPunctual ==
    ASSUME IndicationInv, NEW d \in Dst, Due(grantInfo[d]), phase = "transmit", d \in todo
    PROVE  SlotsFrom(grantInfo[d], 0)
  <1>1. Frontier(d) = 0 /\ Punctual(d) /\ Head(grantInfo[d].slotAllocations).sfn = 0
    BY DEF Frontier, IndicationInv, Due
  <1>2. ~(Head(grantInfo[d].slotAllocations).sfn < 0)
    BY <1>1
  <1> QED
    BY <1>1, <1>2 DEF Punctual

\* The burst and the indications that a transmission leaves, when the slot of a
\* TB without SCI 1-A was announced.
LEMMA SentIsAnnounced ==
    ASSUME WindowFits, IInv, IndicationInv, NEW d \in Dst, Due(grantInfo[d]), NEW txed \in BOOLEAN,
           SendToPhy(d, Head(grantInfo[d].slotAllocations),
                     Tail(grantInfo[d].slotAllocations), txed),
           phase = "transmit", d \in todo, todo' = todo \ {d}, UNCHANGED phase,
           ~TxSci1A(Head(grantInfo[d].slotAllocations)) /\ txed
               => Announced(grantInfo[d], indicated[d])
    PROVE  /\ \A tb \in pssch' : OnAir(tb)'
           /\ \A e \in Dst : e # d => indicated'[e] = indicated[e]
           /\ \A n, h : txed => Announced(AfterTx(grantInfo[d], n, h), indicated'[d])
  <1> DEFINE g == grantInfo[d]
             s == g.slotAllocations
             a == Head(s)
             gaps == ComputeGaps(Tail(s), SlotNumInd(a, g.nSelected)) \ {NoGap}
             tb0 == [dst |-> d, txIdx |-> a.txIdx, sci1A |-> TxSci1A(a)]
             sci == TxSci1A(a)
  <1>1. /\ g \in NrSlGrantInfo /\ GrantOK(g) /\ indicated \in [Dst -> SUBSET Int]
    BY DEF IInv, TypeOK, GrantsOK
  <1>2. /\ pssch' = IF txed THEN pssch \cup {tb0} ELSE pssch
        /\ indicated' = IF txed /\ sci THEN [indicated EXCEPT ![d] = gaps] ELSE indicated
    BY DEF SendToPhy
  <1>3. /\ \A e \in Dst : e # d => indicated'[e] = indicated[e]
        /\ indicated'[d] = IF txed /\ sci THEN gaps ELSE indicated[d]
    <2> HIDE DEF gaps, sci
    <2> QED
      BY <1>1, <1>2
  <1>4. \A n, h : txed => Announced(AfterTx(g, n, h), indicated'[d])
    <2> SUFFICES ASSUME NEW n, NEW h, txed PROVE Announced(AfterTx(g, n, h), indicated'[d])
      OBVIOUS
    <2>1. IF TxSci1A(Head(s)) THEN indicated'[d] = gaps ELSE Announced(g, indicated'[d])
      <3>1. CASE sci
        BY <1>3, <3>1
      <3>2. CASE ~sci
        <4>1. indicated'[d] = indicated[d] /\ Announced(g, indicated[d])
          BY <1>3, <3>2
        <4> QED
          BY <3>2, <4>1
      <3> QED
        BY <3>1, <3>2
    <2> QED
      BY <1>1, <2>1, DueIsPunctual, UsedAnnounced
  <1>5. txed => tb0.dst = d /\ tb0.sci1A = sci /\ (sci \/ 0 \in indicated[d])
    <2>1. ASSUME txed, ~sci PROVE 0 \in indicated[d]
      <3>1. s \in Seq(SlotAlloc) /\ s # <<>> /\ Head(s).sfn = 0
        BY <1>1 DEF NrSlGrantInfo, Due
      <3>2. 1 \in 1..Len(s) /\ Head(s) = s[1] /\ \A j \in 1..1 : j = 1
        BY <3>1
      <3>3. \A j \in 1..1 : ~TxSci1A(s[j])
        BY <2>1, <3>2
      <3>4. s[1].sfn \in indicated[d]
        BY <2>1, <3>2, <3>3 DEF Announced
      <3> QED
        BY <3>1, <3>2, <3>4
    <2> QED
      BY <2>1
  <1>6. ASSUME NEW tb \in pssch' PROVE OnAir(tb)'
    <2>1. CASE tb \in pssch
      <3>1. OnAir(tb)
        BY <2>1 DEF IndicationInv
      <3>2. tb.dst # d /\ tb.dst \in Dst
        <4>1. tb \in PsschTb
          BY <2>1 DEF IInv, TypeOK
        <4>2. tb.dst \in Dst
          BY <4>1 DEF PsschTb
        <4> QED
          BY <3>1, <4>2 DEF OnAir
      <3> QED
        BY <1>3, <3>1, <3>2 DEF OnAir
    <2>2. CASE txed /\ tb = tb0
      <3>1. tb.dst = d /\ tb.sci1A = sci
        BY <2>2
      <3>2. sci \/ 0 \in indicated'[d]
        BY <1>3, <1>5, <2>2
      <3> HIDE DEF sci, tb0
      <3> QED
        BY <3>1, <3>2 DEF OnAir
    <2> QED
      BY <1>2, <2>1, <2>2
  <1> QED
    BY <1>3, <1>4, <1>6

\* A step that handles a destination of the transmission loop.
LEMMA OneHandled ==
    ASSUME IInv, IndicationInv, NEW d \in Dst, NEW x,
           phase = "transmit", d \in todo, todo' = todo \ {d}, UNCHANGED phase,
           grantInfo' = [grantInfo EXCEPT ![d] = x], SlotsFrom(x, 1),
           \A e \in Dst : e # d => indicated'[e] = indicated[e],
           \A e \in Dst : e # d /\ InFlight(grantInfo[e]) =>
               harq'.pkt[grantInfo[e].nrSlHarqId] = harq.pkt[grantInfo[e].nrSlHarqId],
           Loaded(d)' => Announced(x, indicated'[d]),
           \A tb \in pssch' : OnAir(tb)'
    PROVE  IndicationInv'
  <1>1. /\ grantInfo'[d] = x
        /\ \A e \in Dst : e # d => grantInfo'[e] = grantInfo[e]
    BY DEF IInv, TypeOK
  <1>2. ASSUME NEW e \in Dst PROVE Punctual(e)'
    <2>1. Punctual(e)
      BY DEF IndicationInv
    <2>2. CASE e = d
      <3>1. Frontier(e)' = 1
        BY <2>2 DEF Frontier
      <3> QED
        BY <1>1, <2>2, <3>1 DEF Punctual
    <2>3. CASE e # d
      <3>1. Frontier(e)' = Frontier(e) /\ grantInfo'[e] = grantInfo[e]
        BY <1>1, <2>3 DEF Frontier
      <3> QED
        BY <2>1, <3>1, Zenon DEF Punctual
    <2> QED
      BY <2>2, <2>3
  <1>3. ASSUME NEW e \in Dst, Loaded(e)' PROVE Announced(grantInfo[e], indicated[e])'
    <2>1. CASE e = d
      BY <1>1, <1>3, <2>1
    <2>2. CASE e # d
      <3>1. grantInfo'[e] = grantInfo[e] /\ indicated'[e] = indicated[e]
        BY <1>1, <2>2
      <3>2. Loaded(e)
        BY <1>3, <2>2, <3>1 DEF Loaded, GetPacketBurst
      <3>3. Announced(grantInfo[e], indicated[e])
        BY <3>2 DEF IndicationInv
      <3> QED
        BY <3>1, <3>3
    <2> QED
      BY <2>1, <2>2
  <1> QED
    BY <1>2, <1>3 DEF IndicationInv

\* A new TB comes with an SCI 1-A, and so with its announcements.
LEMMA TransmitNewKeepsIndication ==
    ASSUME WindowFits, IInv, IndicationInv, NEW d \in Dst, TransmitNew(d), ~Abort
    PROVE  IndicationInv'
  <1> DEFINE g    == grantInfo[d]
             a    == Head(g.slotAllocations)
             h    == NextHarqId(harq)
             txed == txBuffer[d] > 0
             assigned == AssignNrSlHarqProcessId(harq, d)
             filled   == IF txed THEN AddPacket(assigned, h, LcId) ELSE assigned
             x == AfterTx(g, 1, h)
  <1>1. /\ Due(g) /\ Ndi(a) /\ GetNumAvaiableHarqIds(harq) > 0
        /\ phase = "transmit" /\ d \in todo /\ todo' = todo \ {d} /\ UNCHANGED phase
        /\ grantInfo' = [grantInfo EXCEPT ![d] = x]
        /\ harq' = IF g.nSelected = 1 THEN RecvNrSlHarqFeedback(filled, h) ELSE filled
        /\ SendToPhy(d, a, Tail(g.slotAllocations), txed)
    BY DEF TransmitNew
  <1>2. /\ g \in NrSlGrantInfo /\ GrantOK(g) /\ harq \in HarqType
        /\ grantInfo \in [Dst -> NrSlGrantInfo]
        /\ Accounted(harq, Owned) /\ Owned \in [Dst -> Nat]
    BY OwnedTyped DEF IInv, TypeOK, GrantsOK
  <1>3. Sent(g) = 0 /\ ~InFlight(g)
    <2>1. a.txIdx = Sent(g)
      BY <1>1, <1>2, UsedGrant
    <2>2. Sent(g) = 0
      BY <1>1, <2>1 DEF Ndi
    <2> QED
      BY <1>2, <2>2 DEF Sent, InFlight, NrSlGrantInfo
  <1>4. Owned[d] = NoHarq /\ Len(harq.ids) > 0
    BY <1>1, <1>3 DEF Owned, GetNumAvaiableHarqIds
  <1>5. /\ h \in HarqIds /\ assigned \in HarqType /\ assigned.pkt[h].pktBurst = 0
    BY <1>2, <1>4, HarqTake
  <1>6. IsHarqIdAvaiable(harq, h)
    <2>1. harq.ids \in Seq(HarqIds)
      BY <1>2 DEF HarqType
    <2>2. harq.ids # <<>> /\ 1 \in 1..Len(harq.ids) /\ Head(harq.ids) = harq.ids[1]
      BY <1>4, <2>1
    <2> QED
      BY <2>2 DEF IsHarqIdAvaiable, NextHarqId
  <1>7. TxSci1A(a)
    <2>1. 0 % MaxNumPerReserve = 0
      BY PoolAssumption
    <2> QED
      BY <1>1, <2>1 DEF Ndi, TxSci1A
  <1>8. SlotsFrom(x, 1) /\ x.nrSlHarqId = h /\ (InFlight(x) <=> 1 # g.nSelected)
    <2> HIDE DEF h
    <2>1. 0 + 1 = 1 /\ h \in Nat
      BY <1>5, HarqIdsFacts
    <2>2. SlotsFrom(g, 0)
      BY <1>1, DueIsPunctual
    <2> QED
      BY <1>1, <1>2, <1>3, <2>1, <2>2, UsedGrant
  <1>9. ASSUME NEW e \in Dst, e # d, InFlight(grantInfo[e])
        PROVE  harq'.pkt[grantInfo[e].nrSlHarqId] = harq.pkt[grantInfo[e].nrSlHarqId]
    <2> DEFINE k == grantInfo[e].nrSlHarqId
    <2>1. k \in HarqIds /\ k # h
      BY <1>6, <1>9, OwnProcess
    <2> HIDE DEF k, h
    <2>2. assigned.pkt[k] = harq.pkt[k]
      BY <1>2, <1>5, <2>1, HarqElsewhere DEF h
    <2> HIDE DEF assigned
    <2>3. AddPacket(assigned, h, LcId).pkt[k] = assigned.pkt[k]
      BY <1>5, <2>1, HarqElsewhere
    <2>4. filled.pkt[k] = harq.pkt[k]
      BY <2>2, <2>3
    <2>5. RecvNrSlHarqFeedback(filled, h).pkt[k] = filled.pkt[k]
      <3>1. filled.pkt \in [HarqIds -> HarqEntries]
        <4>1. CASE txed
          <5>1. filled = AddPacket(assigned, h, LcId) /\ LcId \in Nat
            BY <4>1 DEF LcId
          <5>2. assigned.pkt \in [HarqIds -> HarqEntries]
            BY <1>5 DEF HarqType
          <5>3. assigned.pkt[h] \in HarqEntries
            BY <1>5, <5>2
          <5>4. [dstL2Id |-> assigned.pkt[h].dstL2Id,
                 lcidList |-> assigned.pkt[h].lcidList \cup {LcId},
                 pktBurst |-> assigned.pkt[h].pktBurst + 1] \in HarqEntries
            BY <5>1, <5>3 DEF HarqEntries
          <5> QED
            BY <5>1, <5>2, <5>4 DEF AddPacket
        <4>2. CASE ~txed
          BY <1>5, <4>2 DEF HarqType
        <4> QED
          BY <4>1, <4>2
      <3> HIDE DEF filled
      <3> QED
        BY <2>1, <3>1 DEF RecvNrSlHarqFeedback
    <2> HIDE DEF filled
    <2>6. harq'.pkt[k] = harq.pkt[k]
      BY <1>1, <2>4, <2>5
    <2> QED
      BY <2>6 DEF k
  <1>10. /\ \A tb \in pssch' : OnAir(tb)'
         /\ \A e \in Dst : e # d => indicated'[e] = indicated[e]
         /\ txed => Announced(x, indicated'[d])
    <2>1. txed \in BOOLEAN
      OBVIOUS
    <2> HIDE DEF txed
    <2> QED
      BY <1>1, <1>7, <2>1, SentIsAnnounced
  <1>11. ASSUME Loaded(d)' PROVE txed
    <2>1. grantInfo'[d] = x
      BY <1>1, <1>2
    <2> HIDE DEF x, assigned, h, txed
    <2>2. InFlight(x) /\ harq'.pkt[h].pktBurst > 0
      BY <1>8, <1>11, <2>1 DEF Loaded, GetPacketBurst
    <2>3. harq' = filled
      BY <1>1, <1>8, <2>2
    <2> QED
      BY <1>5, <2>2, <2>3
  <1> HIDE DEF x, txed
  <1> QED
    BY <1>1, <1>8, <1>9, <1>10, <1>11, OneHandled

\* A retransmission uses an announced slot or announces the following ones.
LEMMA TransmitAgainKeepsIndication ==
    ASSUME WindowFits, IInv, IndicationInv, NEW d \in Dst, TransmitAgain(d), ~Abort
    PROVE  IndicationInv'
  <1> DEFINE g == grantInfo[d]
             a == Head(g.slotAllocations)
             h == g.nrSlHarqId
             n == g.tbTxCounter + 1
             x == AfterTx(g, n, h)
             txed == GetPacketBurst(harq, h) > 0
  <1>1. /\ Due(g) /\ ~Ndi(a)
        /\ phase = "transmit" /\ d \in todo /\ todo' = todo \ {d} /\ UNCHANGED phase
        /\ grantInfo' = [grantInfo EXCEPT ![d] = x]
        /\ harq' = IF n = g.nSelected THEN RecvNrSlHarqFeedback(harq, h) ELSE harq
        /\ SendToPhy(d, a, Tail(g.slotAllocations), txed)
    BY DEF TransmitAgain
  <1>2. /\ g \in NrSlGrantInfo /\ GrantOK(g) /\ harq \in HarqType
        /\ grantInfo \in [Dst -> NrSlGrantInfo]
    BY DEF IInv, TypeOK, GrantsOK
  <1>3. InFlight(g) /\ n = Sent(g) + 1
    <2>1. a.txIdx = Sent(g)
      BY <1>1, <1>2, UsedGrant
    <2>2. Sent(g) # 0
      BY <1>1, <2>1 DEF Ndi
    <2> QED
      BY <2>2 DEF Sent
  <1>4. h \in HarqIds /\ harq.pkt[h].dstL2Id = d
    BY <1>3, OwnProcess
  <1>5. SlotsFrom(x, 1) /\ x.nrSlHarqId = h /\ (InFlight(x) <=> n # g.nSelected)
    <2>1. h \in Nat
      BY <1>4, HarqIdsFacts
    <2>2. SlotsFrom(g, 0)
      BY <1>1, DueIsPunctual
    <2> QED
      BY <1>1, <1>2, <1>3, <2>1, <2>2, UsedGrant
  <1>6. ASSUME NEW e \in Dst, e # d, InFlight(grantInfo[e])
        PROVE  harq'.pkt[grantInfo[e].nrSlHarqId] = harq.pkt[grantInfo[e].nrSlHarqId]
    <2> DEFINE k == grantInfo[e].nrSlHarqId
    <2>1. k \in HarqIds /\ k # h
      BY <1>4, <1>6, OwnProcess
    <2> HIDE DEF k, h
    <2>2. RecvNrSlHarqFeedback(harq, h).pkt[k] = harq.pkt[k]
      BY <1>2, <1>4, <2>1, HarqElsewhere
    <2>3. harq'.pkt[k] = harq.pkt[k]
      BY <1>1, <2>2
    <2> QED
      BY <2>3 DEF k
  <1>7. txed => Announced(g, indicated[d])
    <2>1. txed => Loaded(d)
      BY <1>3 DEF Loaded
    <2> QED
      BY <2>1 DEF IndicationInv
  <1>8. /\ \A tb \in pssch' : OnAir(tb)'
        /\ \A e \in Dst : e # d => indicated'[e] = indicated[e]
        /\ txed => Announced(x, indicated'[d])
    <2>1. txed \in BOOLEAN
      OBVIOUS
    <2> HIDE DEF txed
    <2> QED
      BY <1>1, <1>7, <2>1, SentIsAnnounced
  <1>9. ASSUME Loaded(d)' PROVE txed
    <2>1. grantInfo'[d] = x
      BY <1>1, <1>2
    <2> HIDE DEF x, h, n
    <2>2. InFlight(x) /\ harq'.pkt[h].pktBurst > 0
      BY <1>5, <1>9, <2>1 DEF Loaded, GetPacketBurst
    <2>3. harq' = harq
      BY <1>1, <1>5, <2>2
    <2> QED
      BY <2>2, <2>3 DEF GetPacketBurst
  <1> HIDE DEF x, txed
  <1> QED
    BY <1>1, <1>5, <1>6, <1>8, <1>9, OneHandled

\* A destination with nothing to send: a grant in use is not due, so its first
\* slot lies ahead.
LEMMA NothingDueKeepsIndication ==
    ASSUME IInv, IndicationInv, NEW d \in Dst, NothingDue(d)
    PROVE  IndicationInv'
  <1> DEFINE g == grantInfo[d]
             s == g.slotAllocations
  <1>1. /\ g \in NrSlGrantInfo /\ GrantOK(g)
        /\ phase = "transmit" /\ d \in todo /\ todo' = todo \ {d} /\ ~Due(g)
        /\ UNCHANGED <<phase, grantInfo, harq, pssch, indicated>>
    BY DEF IInv, TypeOK, GrantsOK, NothingDue, macVars, phyVars
  <1>2. Frontier(d) = 0 /\ Frontier(d)' = 1 /\ Punctual(d)
    BY <1>1 DEF Frontier, IndicationInv
  <1>3. s \in Seq(SlotAlloc)
    BY <1>1 DEF NrSlGrantInfo
  <1>4. \A k \in 1..Len(s) : s[k].sfn \in Int
    <2>1. \A k \in 1..Len(s) : s[k] \in SlotAlloc
      BY <1>3
    <2> QED
      BY <2>1 DEF SlotAlloc
  <1>5. ASSUME s # <<>>, SlotsFrom(g, 0), Head(s).sfn # 0 PROVE SlotsFrom(g, 1)
    <2>1. Head(s) = s[1] /\ Len(s) \in Nat /\ 1 \in 1..Len(s)
      BY <1>3, <1>5
    <2>2. /\ \A k \in 1..Len(s) : s[k].sfn >= 0
          /\ \A i, j \in 1..Len(s) : i < j => s[i].sfn < s[j].sfn
      BY <1>5 DEF SlotsFrom
    <2> HIDE DEF s
    <2>3. \A k \in 1..Len(s) : s[k].sfn >= 1
      <3> TAKE k \in 1..Len(s)
      <3>1. CASE k = 1
        BY <1>4, <1>5, <2>1, <2>2, <3>1
      <3>2. CASE k # 1
        <4>1. s[1].sfn < s[k].sfn
          BY <2>1, <2>2, <3>2
        <4> QED
          BY <1>4, <2>1, <2>2, <4>1
      <3> QED
        BY <3>1, <3>2
    <2> QED
      BY <2>2, <2>3 DEF SlotsFrom, s
  <1>6. s = <<>> => SlotsFrom(g, 1)
    BY DEF SlotsFrom
  <1>7. SlotsFrom(g, 1) \/ Head(s).sfn < 1
    <2>1. CASE s = <<>>
      BY <1>6, <2>1
    <2>2. CASE s # <<>> /\ Head(s).sfn = 0
      BY <2>2
    <2>3. CASE s # <<>> /\ Head(s).sfn # 0
      <3>1. Head(s).sfn \in Int
        BY <1>3, <1>4, <2>3
      <3>2. SlotsFrom(g, 0) \/ Head(s).sfn < 0
        BY <1>2 DEF Punctual
      <3> QED
        BY <1>5, <2>3, <3>1, <3>2
    <2> QED
      BY <2>1, <2>2, <2>3
  <1>8. InFlight(g) => SlotsFrom(g, 1)
    <2> SUFFICES ASSUME InFlight(g) PROVE SlotsFrom(g, 1)
      OBVIOUS
    <2>1. g.slResoReselCounter # 0
      BY <1>1 DEF GrantOK, TbOK
    <2>2. s = <<>> \/ Head(s).sfn # 0
      BY <1>1, <2>1 DEF Due
    <2>3. SlotsFrom(g, 0)
      BY <1>2 DEF Punctual
    <2> QED
      BY <1>5, <1>6, <2>2, <2>3
  <1>9. ASSUME NEW e \in Dst PROVE Punctual(e)'
    <2>1. CASE e = d
      BY <1>1, <1>2, <1>7, <1>8, <2>1 DEF Punctual
    <2>2. CASE e # d
      <3>1. Frontier(e)' = Frontier(e) /\ Punctual(e)
        BY <1>1, <2>2 DEF Frontier, IndicationInv
      <3> QED
        BY <1>1, <3>1 DEF Punctual
    <2> QED
      BY <2>1, <2>2
  <1>10. \A e \in Dst : Loaded(e)' => Announced(grantInfo[e], indicated[e])'
    BY <1>1 DEF IndicationInv, Loaded
  <1>11. \A tb \in pssch' : OnAir(tb)'
    BY <1>1 DEF IndicationInv, OnAir
  <1> QED
    BY <1>9, <1>10, <1>11 DEF IndicationInv

\* A new slot: the slots and the indications of a TB in flight come nearer
\* together.
LEMMA SlotIndicationKeepsIndication ==
    ASSUME IInv, IndicationInv, SlotIndication
    PROVE  IndicationInv'
  <1> DEFINE x(d) == [grantInfo[d] EXCEPT !.slotAllocations = NextSlot(@)]
  <1>1. /\ phase = "idle" /\ pssch' = pssch /\ harq' = harq
        /\ \A d \in Dst : grantInfo'[d] = x(d)
        /\ \A d \in Dst : indicated'[d] = {v - 1 : v \in indicated[d] \ {0}}
        /\ phase' = "select" \/ (phase' = "transmit" /\ todo' = Dst)
    BY DEF SlotIndication, phyVars
  <1>2. \A d \in Dst : Frontier(d) = 1 /\ Frontier(d)' = 0
    BY <1>1 DEF Frontier
  <1>3. \A tb \in pssch' : OnAir(tb)'
    BY <1>1 DEF IndicationInv, OnAir
  <1>4. ASSUME NEW d \in Dst
        PROVE  Punctual(d)' /\ (Loaded(d)' => Announced(grantInfo[d], indicated[d])')
    <2> DEFINE g == grantInfo[d]
               s == g.slotAllocations
               y == x(d)
               t == y.slotAllocations
    <2>1. g \in NrSlGrantInfo /\ Punctual(d) /\ grantInfo'[d] = y
      BY <1>1 DEF IInv, TypeOK, IndicationInv
    <2>2. /\ InFlight(y) <=> InFlight(g)
          /\ y.nrSlHarqId = g.nrSlHarqId
          /\ SlotsFrom(g, 1) => SlotsFrom(y, 0)
      BY <2>1, LaterGrant
    <2>3. s \in Seq(SlotAlloc) /\ Len(s) \in Nat
      BY <2>1 DEF NrSlGrantInfo
    <2>4. \A k \in 1..Len(s) : s[k] \in SlotAlloc
      BY <2>3
    <2>5. t = [k \in 1..Len(s) |-> [s[k] EXCEPT !.sfn = IF @ < 0 THEN @ ELSE @ - 1]]
      BY <2>1 DEF NextSlot, NrSlGrantInfo
    <2>6. \A k \in 1..Len(s) : /\ t[k].txIdx = s[k].txIdx /\ s[k].sfn \in Int
                               /\ t[k].sfn = IF s[k].sfn < 0 THEN s[k].sfn ELSE s[k].sfn - 1
      <3> TAKE k \in 1..Len(s)
      <3>1. t[k] = [s[k] EXCEPT !.sfn = IF @ < 0 THEN @ ELSE @ - 1] /\ s[k] \in SlotAlloc
        BY <2>4, <2>5
      <3> HIDE DEF t, s
      <3> QED
        BY <3>1 DEF SlotAlloc
    <2>7. Len(t) = Len(s) /\ t \in Seq(SlotAlloc)
      <3>1. y \in NrSlGrantInfo
        BY <2>1, LaterGrant
      <3>2. t \in Seq(SlotAlloc)
        BY <3>1 DEF NrSlGrantInfo
      <3>3. DOMAIN t = 1..Len(s)
        BY <2>5
      <3> HIDE DEF t
      <3> QED
        BY <2>3, <3>2, <3>3
    <2> HIDE DEF y, t, s, x
    <2>8. SlotsFrom(y, 0) \/ Head(t).sfn < 0
      <3>1. CASE SlotsFrom(g, 1)
        BY <2>2, <3>1
      <3>2. CASE ~SlotsFrom(g, 1)
        <4>1. Head(s).sfn < 1
          BY <1>2, <2>1, <3>2 DEF Punctual, s
        <4>2. s # <<>>
          <5>1. s = <<>> => SlotsFrom(g, 1)
            BY DEF SlotsFrom, s
          <5> QED
            BY <3>2, <5>1
        <4>3. 1 \in 1..Len(s) /\ Head(s) = s[1] /\ Head(t) = t[1]
          BY <2>3, <2>7, <4>2
        <4> QED
          BY <2>6, <4>1, <4>3
      <3> QED
        BY <3>1, <3>2
    <2>9. InFlight(g) => SlotsFrom(g, 1)
      BY <1>2, <2>1 DEF Punctual
    <2>10. Punctual(d)'
      BY <1>2, <2>1, <2>2, <2>8, <2>9 DEF Punctual, t
    <2>11. ASSUME Loaded(d)' PROVE Announced(y, indicated'[d])
      <3>1. Loaded(d)
        BY <1>1, <2>1, <2>2, <2>11 DEF Loaded
      <3>2. Announced(g, indicated[d]) /\ SlotsFrom(g, 1)
        BY <2>9, <3>1 DEF IndicationInv, Loaded
      <3> SUFFICES ASSUME NEW k \in 1..Len(t), \A j \in 1..k : ~TxSci1A(t[j])
                   PROVE  t[k].sfn \in indicated'[d]
        BY DEF Announced, t
      <3>3. k \in 1..Len(s) /\ \A j \in 1..k : j \in 1..Len(s)
        BY <2>3, <2>7
      <3>4. \A j \in 1..k : ~TxSci1A(s[j])
        BY <2>6, <3>3 DEF TxSci1A
      <3>5. s[k].sfn \in indicated[d] /\ s[k].sfn >= 1
        BY <3>2, <3>3, <3>4 DEF Announced, SlotsFrom, s
      <3>6. t[k].sfn = s[k].sfn - 1 /\ s[k].sfn # 0
        BY <2>6, <3>3, <3>5
      <3> QED
        BY <1>1, <3>5, <3>6
    <2> QED
      BY <2>1, <2>10, <2>11
  <1> QED
    BY <1>3, <1>4 DEF IndicationInv

\* Resource selection replaces the grant of a destination without TB in flight.
LEMMA OneSelected ==
    ASSUME IInv, IndicationInv, phase = "select", NEW d \in Dst, NEW x,
           grantInfo' = [grantInfo EXCEPT ![d] = x], ~InFlight(x),
           \/ x.slotAllocations = grantInfo[d].slotAllocations
           \/ SlotsFrom(x, 0),
           UNCHANGED <<phase, harq, pssch, indicated>>
    PROVE  IndicationInv'
  <1>1. /\ grantInfo'[d] = x
        /\ \A e \in Dst : e # d => grantInfo'[e] = grantInfo[e]
    BY DEF IInv, TypeOK
  <1>2. \A e \in Dst : Frontier(e) = 0 /\ Frontier(e)' = 0 /\ Punctual(e)
    BY DEF Frontier, IndicationInv
  <1>3. SlotsFrom(x, 0) \/ Head(x.slotAllocations).sfn < 0
    <2>1. \/ SlotsFrom(grantInfo[d], 0)
          \/ Head(grantInfo[d].slotAllocations).sfn < 0
      BY <1>2 DEF Punctual
    <2> QED
      BY <2>1 DEF SlotsFrom
  <1>4. ASSUME NEW e \in Dst PROVE Punctual(e)'
    <2>1. CASE e = d
      BY <1>1, <1>2, <1>3, <2>1 DEF Punctual
    <2>2. CASE e # d
      BY <1>1, <1>2, <2>2 DEF Punctual
    <2> QED
      BY <2>1, <2>2
  <1>5. ASSUME NEW e \in Dst, Loaded(e)' PROVE Announced(grantInfo[e], indicated[e])'
    <2>1. e # d
      BY <1>1, <1>5 DEF Loaded
    <2> QED
      BY <1>1, <1>5, <2>1 DEF Loaded, IndicationInv
  <1>6. \A tb \in pssch' : OnAir(tb)'
    BY DEF IndicationInv, OnAir
  <1> QED
    BY <1>4, <1>5, <1>6 DEF IndicationInv

\* A step that leaves the grants, the processes and the indications alone.
LEMMA SameIndication ==
    ASSUME IndicationInv, UNCHANGED <<phase, todo, grantInfo, harq, pssch, indicated>>
    PROVE  IndicationInv'
  <1>1. \A d \in Dst : Frontier(d)' = Frontier(d)
    BY DEF Frontier
  <1>2. \A d \in Dst : Punctual(d)'
    BY <1>1 DEF IndicationInv, Punctual
  <1>3. \A d \in Dst : Loaded(d)' => Announced(grantInfo[d], indicated[d])'
    BY DEF IndicationInv, Loaded
  <1>4. \A tb \in pssch' : OnAir(tb)'
    BY DEF IndicationInv, OnAir
  <1> QED
    BY <1>2, <1>3, <1>4 DEF IndicationInv

\* Resource selection.
LEMMA SelectKeepsIndication ==
    ASSUME IInv, IndicationInv, NEW d \in Dst, Select(d)
    PROVE  IndicationInv'
  <1> DEFINE g == grantInfo[d]
  <1>1. /\ g \in NrSlGrantInfo /\ GrantOK(g) /\ grantInfo \in [Dst -> NrSlGrantInfo]
    BY DEF IInv, TypeOK, GrantsOK
  <1>2. phase = "select" /\ UNCHANGED <<phase, harq, pssch, indicated>>
    BY DEF Select, phyVars
  <1>3. CASE HasAllocation(d)
    <2>1. UNCHANGED grantInfo
      BY <1>3 DEF HasAllocation
    <2>2. \A e \in Dst : Frontier(e) = 0 /\ Frontier(e)' = 0
      BY <1>2 DEF Frontier
    <2>3. \A e \in Dst : Punctual(e)'
      BY <2>1, <2>2 DEF IndicationInv, Punctual
    <2>4. \A e \in Dst : Loaded(e)' => Announced(grantInfo[e], indicated[e])'
      BY <1>2, <2>1 DEF IndicationInv, Loaded
    <2>5. \A tb \in pssch' : OnAir(tb)'
      BY <1>2 DEF IndicationInv, OnAir
    <2> QED
      BY <2>3, <2>4, <2>5 DEF IndicationInv
  <1>4. CASE KeepResource(d)
    <2> DEFINE x == [g EXCEPT !.slResoReselCounter = g.prevSlResoReselCounter]
    <2>1. x.slotAllocations = g.slotAllocations /\ ~InFlight(x)
      BY <1>1, <1>4, KeptGrant DEF KeepResource
    <2>2. grantInfo' = [grantInfo EXCEPT ![d] = x]
      BY <1>4 DEF KeepResource
    <2> HIDE DEF x
    <2> QED
      BY <1>2, <2>1, <2>2, OneSelected
  <1>5. CASE ReselectResource(d)
    <2> DEFINE x == [g EXCEPT !.slotAllocations = <<>>]
               erased == [grantInfo EXCEPT ![d] = x]
    <2>1. SlotsFrom(x, 0) /\ ~InFlight(x)
      BY <1>1, <1>5, ErasedGrant DEF ReselectResource
    <2>2. PICK txOpps \in TxOpportunities :
            \/ grantInfo' = erased
            \/ /\ FilterTxOpportunities(txOpps, erased) # {}
               /\ \E sel \in RandomlySelectSlots(FilterTxOpportunities(txOpps, erased)),
                     c \in ReselCounters :
                    grantInfo' = [grantInfo EXCEPT ![d] = CreateGrantInfo(sel, c)]
      BY <1>5 DEF ReselectResource
    <2>3. CASE grantInfo' = erased
      <3> HIDE DEF x
      <3> QED
        BY <1>2, <2>1, <2>3, OneSelected
    <2>4. CASE /\ FilterTxOpportunities(txOpps, erased) # {}
               /\ \E sel \in RandomlySelectSlots(FilterTxOpportunities(txOpps, erased)),
                     c \in ReselCounters :
                    grantInfo' = [grantInfo EXCEPT ![d] = CreateGrantInfo(sel, c)]
      <3> DEFINE S == FilterTxOpportunities(txOpps, erased)
      <3>1. S \in SUBSET SelectionWindow
        BY DEF FilterTxOpportunities, TxOpportunities
      <3> HIDE DEF S
      <3>2. PICK sel \in RandomlySelectSlots(S), c \in ReselCounters :
              grantInfo' = [grantInfo EXCEPT ![d] = CreateGrantInfo(sel, c)]
        BY <2>4 DEF S
      <3>3. /\ sel \in Seq(SelectionWindow) /\ Len(sel) > 0
            /\ \A i, j \in 1..Len(sel) : i < j => sel[i] < sel[j]
        BY <2>4, <3>1, SelectedSlots DEF S
      <3> DEFINE y == CreateGrantInfo(sel, c)
      <3>4. SlotsFrom(y, 0) /\ ~InFlight(y)
        BY <3>3, NewGrant
      <3> HIDE DEF y
      <3>5. grantInfo' = [grantInfo EXCEPT ![d] = y]
        BY <3>2 DEF y
      <3> QED
        BY <1>2, <3>4, <3>5, OneSelected
    <2> QED
      BY <2>2, <2>3, <2>4
  <1> QED
    BY <1>3, <1>4, <1>5 DEF Select

\* The loops end and the bursts are sent.
LEMMA PhaseKeepsIndication ==
    ASSUME IInv, IndicationInv, SelectDone \/ TransmitDone \/ PhySlot
    PROVE  IndicationInv'
  <1>1. /\ UNCHANGED <<grantInfo, harq, indicated>>
        /\ \/ phase = "select" /\ phase' = "transmit" /\ todo' = Dst /\ pssch' = pssch
           \/ phase = "transmit" /\ todo = {} /\ phase' = "phy" /\ pssch' = pssch
           \/ phase = "phy" /\ phase' = "idle" /\ pssch' = {}
    BY DEF SelectDone, TransmitDone, PhySlot, macVars, phyVars
  <1>2. \A d \in Dst : Frontier(d)' = Frontier(d)
    BY <1>1 DEF Frontier
  <1>3. \A d \in Dst : Punctual(d)'
    BY <1>1, <1>2 DEF IndicationInv, Punctual
  <1>4. \A d \in Dst : Loaded(d)' => Announced(grantInfo[d], indicated[d])'
    BY <1>1 DEF IndicationInv, Loaded
  <1>5. \A tb \in pssch' : OnAir(tb)'
    BY <1>1 DEF IndicationInv, OnAir
  <1> QED
    BY <1>3, <1>4, <1>5 DEF IndicationInv

\* Every step keeps the indications.
LEMMA NextIndication ==
    ASSUME WindowFits PROVE IInv /\ IndicationInv /\ [Next]_vars => IndicationInv'
  <1> SUFFICES ASSUME IInv, IndicationInv, [Next]_vars PROVE IndicationInv'
    OBVIOUS
  <1>1. CASE SlotIndication
    BY <1>1, SlotIndicationKeepsIndication
  <1>2. CASE SelectDone \/ TransmitDone \/ PhySlot
    BY <1>2, PhaseKeepsIndication
  <1>3. ASSUME NEW d \in Dst, Select(d) PROVE IndicationInv'
    BY <1>3, SelectKeepsIndication
  <1>4. ASSUME NEW d \in Dst, NothingDue(d) PROVE IndicationInv'
    BY <1>4, NothingDueKeepsIndication
  <1>5. CASE Abort
    BY <1>5, SameIndication DEF Abort, macVars, phyVars
  <1>6. ASSUME NEW d \in Dst, TransmitNew(d) \/ TransmitAgain(d), ~Abort
        PROVE  IndicationInv'
    BY <1>6, TransmitNewKeepsIndication, TransmitAgainKeepsIndication
  <1>7. ASSUME NEW d \in Dst, AddNrSlLc(d) \/ TransmitPdcpPdu(d) \/ ExpireRbsTimer(d)
        PROVE  IndicationInv'
    BY <1>7, SameIndication
       DEF AddNrSlLc, TransmitPdcpPdu, ExpireRbsTimer, macVars, phyVars
  <1>8. CASE Stopped \/ UNCHANGED vars
    BY <1>8, SameIndication DEF Stopped, vars, macVars, phyVars
  <1> QED
    BY <1>1, <1>2, <1>3, <1>4, <1>5, <1>6, <1>7, <1>8 DEF Next, SlotStep

\* A receiver can decode every TB on the air, for any number of destinations,
\* processes and retransmissions and also when grants are wasted, slots are
\* missed or the program aborts: the TB comes with an SCI 1-A, or the last
\* SCI 1-A to the destination indicated the slot.  The eight bits of a gap have
\* to suffice for the selection window.
THEOREM TbsAreIndicated == ASSUME WindowFits PROVE Spec => []EveryTbIsIndicated
  <1>1. Init => IndicationInv
    <2> SUFFICES ASSUME Init PROVE IndicationInv
      OBVIOUS
    <2>1. \A d \in Dst : /\ grantInfo[d].slotAllocations = <<>>
                         /\ grantInfo[d].tbTxCounter = 0
      BY DEF Init, NoGrant
    <2>2. \A d \in Dst, b \in Int : SlotsFrom(grantInfo[d], b)
      BY <2>1 DEF SlotsFrom
    <2>3. \A d \in Dst : ~InFlight(grantInfo[d]) /\ Frontier(d) \in Int
      BY <2>1 DEF InFlight, Frontier
    <2>4. pssch = {}
      BY DEF Init
    <2> QED
      BY <2>2, <2>3, <2>4 DEF IndicationInv, Punctual, Loaded
  <1>2. IndicationInv => EveryTbIsIndicated
    BY DEF IndicationInv, OnAir, EveryTbIsIndicated
  <1> QED
    BY <1>1, <1>2, NextIndication, Invariant, PTL DEF Spec
=============================================================================
