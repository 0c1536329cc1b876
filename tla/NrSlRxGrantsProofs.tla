------------------------- MODULE NrSlRxGrantsProofs -------------------------
(***************************************************************************)
(* Proofs about NrSlRxGrants, for any number of senders, any gaps and any  *)
(* order of the announcements.                                             *)
(***************************************************************************)
EXTENDS NrSlRxGrants, SequenceTheorems, TLAPS

\* An entry that will be passed on in its slot: it is ahead, and was
\* announced before any crossing.
Orderly(i) == rxGrants[i].sfn > 0 /\ rxGrants[i].rnti \notin lost

\* Orderly entries are at the front, the earliest slot first.
OrderlyFirst ==
    \A i, j \in 1..Len(rxGrants) :
        i < j /\ Orderly(j) => Orderly(i) /\ rxGrants[i].sfn < rxGrants[j].sfn

\* The entry behind the orderly ones will not be the front in its slot.
Blocked ==
    \A k \in 1..Len(rxGrants) :
        ~Orderly(k) /\ (\A j \in 1..(k - 1) : Orderly(j))
            => \/ rxGrants[k].sfn <= 0
               \/ \E j \in 1..(k - 1) : rxGrants[k].sfn <= rxGrants[j].sfn

\* There is such an entry exactly when announcements have crossed.
CrossedIsBlocked ==
    /\ lost # {} => \E i \in 1..Len(rxGrants) : ~Orderly(i)
    /\ lost = {} => \A i \in 1..Len(rxGrants) : Orderly(i)

Sorted == OrderlyFirst /\ Blocked /\ CrossedIsBlocked

\* A TB is expected in a slot because it was announced for the slot or in it.
ExpectedIsSent ==
    /\ phase = "pscch" => \A s \in expected : s \in sent \/ 0 \in announced[s]
    /\ phase = "pssch" => expected = {}

IInv == TypeOK /\ FifoIsAhead /\ Sorted /\ ExpectedIsSent
            /\ AnnouncedIsExpected /\ ReceiverNeverAborts

Grants == [i \in 1..Len(rxGrants) |-> [rxGrants[i] EXCEPT !.sfn = Later(@)]]

\* A slot that is ahead of the new one comes nearer by one.
LEMMA LaterFacts ==
    \A x \in Int : /\ Later(x) \in Int
                   /\ Later(x) > 0 <=> x > 1
                   /\ x > 1 => Later(x) = x - 1
  BY DEF Later

\* The FIFO as StartSlot sees it holds the same senders, their slots one
\* nearer.
LEMMA GrantsFacts ==
    ASSUME TypeOK
    PROVE  /\ Grants \in Seq(Grant) /\ Len(Grants) = Len(rxGrants)
           /\ \A i \in 1..Len(rxGrants) :
                 /\ Grants[i].rnti = rxGrants[i].rnti
                 /\ Grants[i].sfn = Later(rxGrants[i].sfn)
                 /\ Grants[i] = [rnti |-> rxGrants[i].rnti, sfn |-> Later(rxGrants[i].sfn)]
<1>1. /\ rxGrants \in Seq(Grant) /\ Len(rxGrants) \in Nat
      /\ \A i \in 1..Len(rxGrants) : rxGrants[i] \in Grant
  BY DEF TypeOK
<1>2. ASSUME NEW i \in 1..Len(rxGrants)
      PROVE  /\ Grants[i] \in Grant
             /\ Grants[i].rnti = rxGrants[i].rnti
             /\ Grants[i].sfn = Later(rxGrants[i].sfn)
             /\ Grants[i] = [rnti |-> rxGrants[i].rnti, sfn |-> Later(rxGrants[i].sfn)]
  BY <1>1, <1>2 DEF Grants, Grant, Later
<1>3. Grants \in Seq(Grant) /\ Len(Grants) = Len(rxGrants)
  <2>1. DOMAIN Grants = 1..Len(rxGrants)
    BY DEF Grants
  <2>2. Grants \in [1..Len(rxGrants) -> Grant]
    BY <1>2 DEF Grants
  <2>3. Grants \in Seq(Grant)
    BY <1>1, <2>2, SeqDef
  <2> QED BY <1>1, <2>1, <2>3, LenProperties
<1> QED BY <1>2, <1>3

\* new is grants followed by the announced retransmissions.
Saved(new, grants, s, gap1, gap2) ==
    /\ Len(new) = Len(grants) + (IF gap1 = 0 THEN 0 ELSE IF gap2 = 0 THEN 1 ELSE 2)
    /\ \A i \in 1..Len(grants) : new[i] = grants[i]
    /\ gap1 # 0 => new[Len(grants) + 1] = [rnti |-> s, sfn |-> gap1]
    /\ gap2 # 0 => new[Len(grants) + 2] = [rnti |-> s, sfn |-> gap2]

\* The FIFO after SaveFutureSlRxGrants: what was in it, then the first and
\* the second retransmission that were announced.
LEMMA SaveFacts ==
    ASSUME NEW grants \in Seq(Grant), NEW s \in Sender,
           NEW gap1 \in 0..MaxGap, NEW gap2 \in 0..MaxGap, MaxGap \in Nat,
           gap2 # 0 => gap1 # 0
    PROVE  /\ SaveFutureSlRxGrants(grants, s, gap1, gap2) \in Seq(Grant)
           /\ Saved(SaveFutureSlRxGrants(grants, s, gap1, gap2), grants, s, gap1, gap2)
<1> DEFINE g1 == [rnti |-> s, sfn |-> gap1]
           g2 == [rnti |-> s, sfn |-> gap2]
<1>1. g1 \in Grant /\ g2 \in Grant
  BY DEF Grant
<1> HIDE DEF g1, g2
<1>2. SaveFutureSlRxGrants(grants, s, gap1, gap2)
          = grants \o (IF gap1 = 0 THEN <<>> ELSE <<g1>>) \o (IF gap2 = 0 THEN <<>> ELSE <<g2>>)
  BY DEF SaveFutureSlRxGrants, g1, g2
<1>3. CASE gap1 = 0
  <2>1. grants \o <<>> \o <<>> = grants
    OBVIOUS
  <2> QED BY <1>2, <1>3, <2>1 DEF Saved
<1>4. CASE gap1 # 0 /\ gap2 = 0
  <2>1. (grants \o <<g1>>) \o <<>> = grants \o <<g1>>
    BY <1>1
  <2> QED BY <1>1, <1>2, <1>4, <2>1 DEF g1, Saved
<1>5. CASE gap1 # 0 /\ gap2 # 0
  <2>1. /\ grants \o <<g1>> \in Seq(Grant) /\ Len(grants \o <<g1>>) = Len(grants) + 1
        /\ \A i \in 1..Len(grants) : (grants \o <<g1>>)[i] = grants[i]
        /\ (grants \o <<g1>>)[Len(grants) + 1] = g1
    BY <1>1
  <2> DEFINE h == grants \o <<g1>>
  <2> HIDE DEF h
  <2>2. /\ h \in Seq(Grant) /\ Len(h) = Len(grants) + 1
        /\ \A i \in 1..Len(grants) : h[i] = grants[i]
        /\ h[Len(grants) + 1] = g1
    BY <2>1 DEF h
  <2>3. /\ h \o <<g2>> \in Seq(Grant) /\ Len(h \o <<g2>>) = Len(h) + 1
        /\ \A i \in 1..Len(h) : (h \o <<g2>>)[i] = h[i]
        /\ (h \o <<g2>>)[Len(h) + 1] = g2
    BY <1>1, <2>2
  <2>4. SaveFutureSlRxGrants(grants, s, gap1, gap2) = h \o <<g2>>
    BY <1>2, <1>5 DEF h
  <2> QED BY <1>5, <2>2, <2>3, <2>4 DEF g1, g2, Saved
<1> QED BY <1>3, <1>4, <1>5

\* Type correctness, whatever the order of the announcements.
THEOREM TypeCorrect == Spec => []TypeOK
<1>1. Init => TypeOK
  <2>1. <<>> \in Seq(Grant)
    BY EmptySeq
  <2> QED BY <2>1 DEF Init, TypeOK
<1>2. TypeOK /\ [Next]_vars => TypeOK'
  <2> SUFFICES ASSUME TypeOK, [Next]_vars PROVE TypeOK'
    OBVIOUS
  <2>1. CASE StartSlot
    <3>1. /\ phase' = "pscch" /\ sent' = {} /\ halted' = halted /\ lost' = lost
          /\ announced' = [s \in Sender |-> {Later(x) : x \in announced[s] \ {0}}]
          /\ rxGrants' = IF Grants # <<>> /\ Head(Grants).sfn = 0 THEN Tail(Grants) ELSE Grants
          /\ expected' = IF Grants # <<>> /\ Head(Grants).sfn = 0 THEN {Head(Grants).rnti} ELSE {}
      BY <2>1 DEF StartSlot, Grants
    <3>2. Grants \in Seq(Grant)
      BY GrantsFacts
    <3>3. announced' \in [Sender -> SUBSET (0..MaxGap)]
      BY <3>1, SenderAssumption DEF TypeOK, Later
    <3>4. rxGrants' \in Seq(Grant) /\ expected' \in SUBSET Sender
      <4>1. Grants # <<>> => Head(Grants) \in Grant /\ Tail(Grants) \in Seq(Grant)
        BY <3>2, HeadTailProperties
      <4>2. Grants # <<>> => Head(Grants).rnti \in Sender
        BY <4>1 DEF Grant
      <4> QED BY <3>1, <3>2, <4>1, <4>2
    <3> QED BY <3>1, <3>3, <3>4 DEF TypeOK
  <2>2. CASE RxSlPssch
    BY <2>2 DEF RxSlPssch, Abort, TypeOK
  <2>3. ASSUME NEW s \in Sender, PhyPscchPduReceived(s) PROVE TypeOK'
    <3>1. PICK gap1 \in 0..MaxGap, gap2 \in 0..MaxGap :
            /\ MayAnnounce(s, gap1, gap2)
            /\ \/ Abort
               \/ /\ expected' = expected \cup {s}
                  /\ rxGrants' = SaveFutureSlRxGrants(rxGrants, s, gap1, gap2)
                  /\ announced' = [announced EXCEPT ![s] = @ \cup ({gap1, gap2} \ {0})]
                  /\ sent' = sent \cup {s}
                  /\ lost' = IF gap1 # 0 /\ (lost # {} \/ Crosses(gap1))
                                THEN lost \cup {s} ELSE lost
                  /\ UNCHANGED <<phase, halted>>
      BY <2>3 DEF PhyPscchPduReceived
    <3>2. CASE Abort
      BY <3>2 DEF Abort, TypeOK
    <3>3. CASE ~Abort
      <4>1. SaveFutureSlRxGrants(rxGrants, s, gap1, gap2) \in Seq(Grant)
        <5>1. rxGrants \in Seq(Grant) /\ MaxGap \in Nat
          BY SenderAssumption DEF TypeOK
        <5>2. gap2 # 0 => gap1 # 0
          BY <3>1 DEF MayAnnounce
        <5> QED BY <5>1, <5>2, SaveFacts
      <4> QED BY <3>1, <3>3, <4>1 DEF TypeOK
    <3> QED BY <3>2, <3>3
  <2>4. CASE UNCHANGED vars
    BY <2>4 DEF vars, TypeOK
  <2> QED BY <2>1, <2>2, <2>3, <2>4 DEF Next
<1> QED BY <1>1, <1>2, PTL DEF Spec

\* The invariant holds at the start.
LEMMA InvInit == Init => IInv
<1>1. ASSUME Init PROVE rxGrants = <<>> /\ Len(rxGrants) = 0 /\ 1..Len(rxGrants) = {}
  BY <1>1 DEF Init
<1>2. <<>> \in Seq(Grant)
  BY EmptySeq
<1>3. Init => TypeOK
  BY <1>2 DEF Init, TypeOK
<1>4. Init => Sorted
  BY <1>1 DEF Init, Sorted, OrderlyFirst, Blocked, CrossedIsBlocked
<1>5. Init => FifoIsAhead /\ ExpectedIsSent /\ AnnouncedIsExpected /\ ReceiverNeverAborts
  BY <1>1 DEF Init, FifoIsAhead, ExpectedIsSent, AnnouncedIsExpected, ReceiverNeverAborts
<1> QED BY <1>3, <1>4, <1>5 DEF IInv

\* Entry i is entry m + i of the FIFO before the slot, m = 1 when the front
\* was passed on.
Shifted(m) ==
    /\ Len(rxGrants') = Len(rxGrants) - m
    /\ \A i \in 1..(Len(rxGrants) - m) :
         /\ i + m \in 1..Len(rxGrants)
         /\ rxGrants'[i].rnti = rxGrants[i + m].rnti
         /\ rxGrants'[i].sfn = Later(rxGrants[i + m].sfn)
         /\ rxGrants'[i] = [rnti |-> rxGrants[i + m].rnti, sfn |-> Later(rxGrants[i + m].sfn)]

\* The start of a slot keeps the invariant.
LEMMA StartSlotKeeps == ASSUME TypeOK', IInv, StartSlot PROVE IInv'
<1> DEFINE hit == Grants # <<>> /\ Head(Grants).sfn = 0
           n == Len(rxGrants)
<1>0. /\ TypeOK /\ FifoIsAhead /\ Sorted /\ ExpectedIsSent
      /\ AnnouncedIsExpected /\ ReceiverNeverAborts /\ n \in Nat
      /\ \A i \in 1..n : rxGrants[i] \in Grant
  BY DEF IInv, TypeOK
<1>1. /\ phase' = "pscch" /\ sent' = {} /\ halted' = halted /\ lost' = lost
      /\ announced' = [s \in Sender |-> {Later(x) : x \in announced[s] \ {0}}]
      /\ rxGrants' = IF hit THEN Tail(Grants) ELSE Grants
      /\ expected' = IF hit THEN {Head(Grants).rnti} ELSE {}
  BY DEF StartSlot, Grants
<1>2. \A i \in 1..n : rxGrants[i].sfn \in Int /\ rxGrants[i].rnti \in Sender
  BY <1>0 DEF Grant
<1>3. Grants \in Seq(Grant) /\ Len(Grants) = n
  BY <1>0, GrantsFacts
<1>4. /\ Grants # <<>> <=> n # 0
      /\ n # 0 => /\ Head(Grants) = Grants[1]
                  /\ Len(Tail(Grants)) = n - 1
                  /\ \A i \in 1..(n - 1) : Tail(Grants)[i] = Grants[i + 1]
  BY <1>0, <1>3, EmptySeq, HeadTailProperties
<1>5. ASSUME NEW s \in Sender, NEW x \in Int
      PROVE  x \in announced'[s] <=> x \in Nat /\ x + 1 \in announced[s]
  <2>1. announced'[s] = {Later(y) : y \in announced[s] \ {0}}
    BY <1>1
  <2>2. announced[s] \in SUBSET (0..MaxGap)
    BY <1>0 DEF TypeOK
  <2>3. \A y \in announced[s] \ {0} : y \in Nat \ {0} /\ Later(y) = y - 1
    BY <2>2, SenderAssumption DEF Later
  <2> QED BY <2>1, <2>2, <2>3, SenderAssumption
<1> HIDE DEF hit
<1>7. hit <=> n # 0 /\ rxGrants[1].sfn = 1
  <2>0. n # 0 => 1 \in 1..n
    BY <1>0
  <2>1. n # 0 => Grants[1].sfn = Later(rxGrants[1].sfn) /\ rxGrants[1].sfn \in Int
    BY <1>0, <1>2, <2>0, GrantsFacts
  <2>2. n # 0 => (Later(rxGrants[1].sfn) = 0 <=> rxGrants[1].sfn = 1)
    BY <2>1 DEF Later
  <2> QED BY <1>4, <2>1, <2>2 DEF hit
<1>8. hit => Orderly(1) /\ 1 \in 1..n /\ expected' = {rxGrants[1].rnti}
  <2>1. hit => Orderly(1) /\ 1 \in 1..n
    <3> SUFFICES ASSUME hit, ~Orderly(1) PROVE FALSE
      BY <1>0, <1>7
    <3>1. 1 \in 1..n /\ 1..(1 - 1) = {}
      BY <1>0, <1>7
    <3>2. rxGrants[1].sfn <= 0
      BY <1>0, <3>1 DEF Sorted, Blocked
    <3> QED BY <1>7, <3>2
  <2>2. hit => Head(Grants).rnti = rxGrants[1].rnti
    BY <1>0, <1>4, <1>7, <2>1, GrantsFacts
  <2> QED BY <1>1, <2>1, <2>2
<1>9. PICK m \in {0, 1} : (hit <=> m = 1) /\ Shifted(m)
  <2>0. \A i \in 1..n : /\ Grants[i].rnti = rxGrants[i].rnti
                        /\ Grants[i].sfn = Later(rxGrants[i].sfn)
                        /\ Grants[i] = [rnti |-> rxGrants[i].rnti, sfn |-> Later(rxGrants[i].sfn)]
    BY <1>0, GrantsFacts
  <2>1. CASE hit
    <3>1. /\ Len(rxGrants') = n - 1 /\ n # 0
          /\ \A i \in 1..(n - 1) : rxGrants'[i] = Grants[i + 1]
      BY <1>1, <1>4, <1>7, <2>1
    <3>2. \A i \in 1..(n - 1) : i + 1 \in 1..n
      BY <1>0
    <3>3. Shifted(1)
      BY <2>0, <3>1, <3>2 DEF Shifted
    <3> QED BY <2>1, <3>3
  <2>2. CASE ~hit
    <3>1. rxGrants' = Grants /\ Len(rxGrants') = n
      BY <1>1, <1>3, <2>2
    <3>2. n - 0 = n /\ \A i \in 1..n : i + 0 = i
      BY <1>0
    <3>3. Shifted(0)
      BY <2>0, <3>1, <3>2 DEF Shifted
    <3> QED BY <2>2, <3>3
  <2> QED BY <2>1, <2>2
\* An orderly entry is ahead of the new slot, or it was the front.
<1>10. ASSUME NEW i \in 1..n, Orderly(i) PROVE rxGrants[i].sfn > 1 \/ (i = 1 /\ hit)
  <2>1. 1 \in 1..n /\ (i = 1 \/ 1 < i) /\ n # 0
    BY <1>0
  <2>2. i # 1 => Orderly(1) /\ rxGrants[1].sfn < rxGrants[i].sfn
    BY <1>0, <1>10, <2>1 DEF Sorted, OrderlyFirst
  <2>3. rxGrants[i].sfn \in Int /\ rxGrants[1].sfn \in Int
    BY <1>2, <2>1
  <2> QED BY <1>7, <1>10, <2>1, <2>2, <2>3 DEF Orderly
<1> DEFINE k == n - m
<1>11. /\ k \in Int /\ Len(rxGrants') = k
       /\ \A i \in 1..k : /\ i + m \in 1..n
                          /\ rxGrants'[i].rnti = rxGrants[i + m].rnti
                          /\ rxGrants'[i].sfn = Later(rxGrants[i + m].sfn)
                          /\ rxGrants'[i] = [rnti |-> rxGrants[i + m].rnti, sfn |-> Later(rxGrants[i + m].sfn)]
                          /\ rxGrants[i + m].sfn \in Int
  BY <1>0, <1>2, <1>9 DEF Shifted
<1> HIDE DEF k
<1>12. ASSUME NEW i \in 1..k
       PROVE  /\ Orderly(i)' <=> Orderly(i + m)
              /\ Orderly(i + m) => rxGrants[i + m].sfn > 1
  <2>1. Orderly(i)' <=> Later(rxGrants[i + m].sfn) > 0 /\ rxGrants[i + m].rnti \notin lost
    BY <1>1, <1>11 DEF Orderly
  <2>2. Orderly(i + m) => rxGrants[i + m].sfn > 1
    <3>1. i + m = 1 => m = 0
      OBVIOUS
    <3> QED BY <1>9, <1>10, <1>11, <3>1
  <2>3. /\ rxGrants[i + m].sfn \in Int
        /\ Later(rxGrants[i + m].sfn) > 0 <=> rxGrants[i + m].sfn > 1
    <3>1. rxGrants[i + m].sfn \in Int
      BY <1>11
    <3> QED BY <3>1, LaterFacts
  <2>4. rxGrants[i + m].sfn > 1 => rxGrants[i + m].sfn > 0
    BY <2>3
  <2> QED BY <2>1, <2>2, <2>3, <2>4 DEF Orderly
<1>13. OrderlyFirst'
  <2> SUFFICES ASSUME NEW i \in 1..k, NEW j \in 1..k, i < j, Orderly(j)'
               PROVE  Orderly(i)' /\ rxGrants'[i].sfn < rxGrants'[j].sfn
    BY <1>11 DEF OrderlyFirst
  <2>1. Orderly(j + m) /\ i + m < j + m /\ i + m \in 1..n /\ j + m \in 1..n
    BY <1>11, <1>12
  <2>2. Orderly(i + m) /\ rxGrants[i + m].sfn < rxGrants[j + m].sfn
    BY <1>0, <2>1 DEF Sorted, OrderlyFirst
  <2>3. rxGrants[i + m].sfn > 1 /\ rxGrants[j + m].sfn > 1 /\ Orderly(i)'
    BY <1>12, <2>1, <2>2
  <2>4. /\ rxGrants'[i].sfn = rxGrants[i + m].sfn - 1
        /\ rxGrants'[j].sfn = rxGrants[j + m].sfn - 1
    <3>1. /\ rxGrants[i + m].sfn \in Int /\ rxGrants[j + m].sfn \in Int
          /\ rxGrants'[i].sfn = Later(rxGrants[i + m].sfn)
          /\ rxGrants'[j].sfn = Later(rxGrants[j + m].sfn)
      BY <1>11
    <3> QED BY <2>3, <3>1, LaterFacts
  <2> QED BY <1>11, <2>2, <2>3, <2>4
<1>14. Blocked'
  <2> SUFFICES ASSUME NEW i \in 1..k, ~Orderly(i)', \A j \in 1..(i - 1) : Orderly(j)',
                      rxGrants'[i].sfn > 0
               PROVE  \E j \in 1..(i - 1) : rxGrants'[i].sfn <= rxGrants'[j].sfn
    <3>1. \A h \in 1..k : rxGrants'[h].sfn \in Int
      BY <1>11, LaterFacts
    <3>2. \A h \in 1..k : ~(rxGrants'[h].sfn <= 0) => rxGrants'[h].sfn > 0
      BY <3>1
    <3> QED BY <1>11, <3>2 DEF Blocked
  <2>1. ~Orderly(i + m) /\ i + m \in 1..n /\ rxGrants[i + m].sfn > 1
    <3>1. ~Orderly(i + m) /\ i + m \in 1..n /\ rxGrants[i + m].sfn \in Int
      BY <1>11, <1>12
    <3>2. Later(rxGrants[i + m].sfn) > 0
      BY <1>11
    <3> QED BY <3>1, <3>2, LaterFacts
  <2>2. ASSUME NEW j \in 1..(i + m - 1) PROVE Orderly(j)
    <3>1. CASE j = 1 /\ m = 1
      BY <1>8, <1>9, <3>1
    <3>2. CASE ~(j = 1 /\ m = 1)
      <4>1. j - m \in 1..(i - 1) /\ j - m \in 1..k /\ (j - m) + m = j
        BY <1>11, <3>2
      <4>2. Orderly(j - m)'
        BY <4>1
      <4> QED BY <1>12, <4>1, <4>2
    <3> QED BY <3>1, <3>2
  <2>3. PICK j \in 1..(i + m - 1) : rxGrants[i + m].sfn <= rxGrants[j].sfn
    <3> DEFINE h == i + m
    <3>1. h \in 1..n /\ ~Orderly(h) /\ \A j \in 1..(h - 1) : Orderly(j)
      BY <2>1, <2>2
    <3>2. rxGrants[h].sfn > 1 /\ rxGrants[h].sfn \in Int
      BY <1>11, <2>1
    <3> HIDE DEF h
    <3>3. \E j \in 1..(h - 1) : rxGrants[h].sfn <= rxGrants[j].sfn
      BY <1>0, <3>1, <3>2 DEF Sorted, Blocked
    <3> QED BY <3>3 DEF h
  <2>4. j \in 1..n /\ rxGrants[j].sfn \in Int
    BY <1>2, <1>11, <2>1
  <2>5. ~(j = 1 /\ m = 1)
    <3>1. m = 1 => rxGrants[1].sfn = 1
      BY <1>7, <1>9
    <3> QED BY <1>11, <2>1, <2>3, <2>4, <3>1
  <2>6. j - m \in 1..(i - 1) /\ j - m \in 1..k /\ (j - m) + m = j
    BY <1>11, <2>5
  <2>7. rxGrants'[j - m].sfn = Later(rxGrants[j].sfn)
    <3> DEFINE h == j - m
    <3>1. h \in 1..k /\ h + m = j
      BY <2>6
    <3> HIDE DEF h
    <3>2. rxGrants'[h].sfn = Later(rxGrants[h + m].sfn)
      BY <1>11, <3>1
    <3> QED BY <3>1, <3>2 DEF h
  <2>8. /\ rxGrants[j].sfn > 1 /\ Later(rxGrants[j].sfn) = rxGrants[j].sfn - 1
        /\ rxGrants'[i].sfn = rxGrants[i + m].sfn - 1
    <3>1. rxGrants[i + m].sfn \in Int /\ rxGrants'[i].sfn = Later(rxGrants[i + m].sfn)
      BY <1>11
    <3>2. rxGrants[j].sfn > 1
      BY <2>1, <2>3, <2>4, <3>1
    <3> QED BY <2>1, <2>4, <3>1, <3>2, LaterFacts
  <2>9. rxGrants'[i].sfn <= rxGrants'[j - m].sfn
    BY <1>11, <2>1, <2>3, <2>4, <2>7, <2>8
  <2> QED BY <2>6, <2>9
<1>15. CrossedIsBlocked'
  <2>1. ASSUME lost # {} PROVE \E i \in 1..k : ~Orderly(i)'
    <3>1. PICK i \in 1..n : ~Orderly(i)
      BY <1>0, <2>1 DEF Sorted, CrossedIsBlocked
    <3>2. ~(i = 1 /\ m = 1)
      BY <1>8, <1>9, <3>1
    <3>3. i - m \in 1..k /\ (i - m) + m = i
      BY <1>0, <3>2 DEF k
    <3>4. ~Orderly(i - m)'
      BY <1>12, <3>1, <3>3
    <3> QED BY <3>3, <3>4
  <2>2. ASSUME lost = {} PROVE \A i \in 1..k : Orderly(i)'
    BY <1>0, <1>11, <1>12, <2>2 DEF Sorted, CrossedIsBlocked
  <2> QED BY <1>1, <1>11, <2>1, <2>2 DEF CrossedIsBlocked
<1>16. FifoIsAhead'
  <2>1. ASSUME NEW i \in 1..k
        PROVE  \/ rxGrants'[i].sfn \in announced'[rxGrants'[i].rnti] \ {0}
               \/ rxGrants'[i].sfn <= 0 /\ lost' # {}
    <3>1. i + m \in 1..n /\ rxGrants[i + m].rnti \in Sender /\ rxGrants[i + m].sfn \in Int
      BY <1>2, <1>11
    <3>2. CASE rxGrants[i + m].sfn > 1
      <4>1. rxGrants[i + m].sfn \in announced[rxGrants[i + m].rnti]
        BY <1>0, <3>1, <3>2 DEF FifoIsAhead
      <4>2. /\ rxGrants[i + m].sfn - 1 \in Nat \ {0}
            /\ (rxGrants[i + m].sfn - 1) + 1 = rxGrants[i + m].sfn
        BY <3>1, <3>2
      <4>3. rxGrants[i + m].sfn - 1 \in announced'[rxGrants[i + m].rnti]
        BY <1>5, <3>1, <4>1, <4>2
      <4>4. rxGrants'[i].sfn = rxGrants[i + m].sfn - 1
        BY <1>11, <3>1, <3>2 DEF Later
      <4> QED BY <1>11, <4>2, <4>3, <4>4
    <3>3. CASE ~(rxGrants[i + m].sfn > 1)
      <4>1. ~Orderly(i + m)
        BY <1>12, <3>3
      <4>2. lost # {}
        BY <1>0, <3>1, <4>1 DEF Sorted, CrossedIsBlocked
      <4>3. Later(rxGrants[i + m].sfn) <= 0
        BY <3>1, <3>3 DEF Later
      <4> QED BY <1>1, <1>11, <4>2, <4>3
    <3> QED BY <3>2, <3>3
  <2>2. ASSUME NEW s \in Sender, NEW x \in announced'[s] \ {0}
        PROVE  \E i \in 1..k : rxGrants'[i] = [rnti |-> s, sfn |-> x]
    <3>1. x \in Nat \ {0} /\ x + 1 \in announced[s] \ {0}
      BY <1>0, <1>5, SenderAssumption, TypeOK' DEF TypeOK
    <3>2. PICK j \in 1..n : rxGrants[j] = [rnti |-> s, sfn |-> x + 1]
      BY <1>0, <3>1 DEF FifoIsAhead
    <3>3. rxGrants[j].rnti = s /\ rxGrants[j].sfn = x + 1
      BY <3>2
    <3>4. ~(j = 1 /\ m = 1)
      BY <1>7, <1>9, <3>1, <3>3
    <3>5. j - m \in 1..k /\ (j - m) + m = j
      BY <1>0, <3>4 DEF k
    <3> DEFINE h == j - m
    <3>6. h \in 1..k /\ h + m = j
      BY <3>5
    <3> HIDE DEF h
    <3>7. rxGrants'[h] = [rnti |-> rxGrants[j].rnti, sfn |-> Later(rxGrants[j].sfn)]
      BY <1>11, <3>6
    <3>8. Later(x + 1) = x
      BY <3>1 DEF Later
    <3> QED BY <3>3, <3>6, <3>7, <3>8
  <2> QED BY <1>11, <2>1, <2>2 DEF FifoIsAhead
<1>17. ASSUME hit PROVE 0 \in announced'[rxGrants[1].rnti]
  <2>1. 1 \in 1..n /\ rxGrants[1].sfn = 1 /\ 1 \in announced[rxGrants[1].rnti]
    BY <1>0, <1>7, <1>8, <1>17 DEF FifoIsAhead
  <2> QED BY <1>2, <1>5, <2>1
<1>18. ExpectedIsSent'
  BY <1>1, <1>8, <1>17 DEF ExpectedIsSent
<1>19. AnnouncedIsExpected'
  <2> SUFFICES ASSUME NEW s \in Sender, 0 \in announced'[s]
               PROVE  s \in expected' <=> s \notin lost
    BY <1>1 DEF AnnouncedIsExpected
  <2>1. ASSUME s \in expected' PROVE s \notin lost
    BY <1>1, <1>8, <2>1 DEF Orderly
  <2>2. ASSUME s \notin lost PROVE s \in expected'
    <3>1. 1 \in announced[s] \ {0}
      BY <1>5
    <3>2. PICK j \in 1..n : rxGrants[j] = [rnti |-> s, sfn |-> 1]
      BY <1>0, <3>1 DEF FifoIsAhead
    <3>3. rxGrants[j].sfn = 1 /\ rxGrants[j].rnti = s
      BY <3>2
    <3>4. Orderly(j)
      BY <2>2, <3>3 DEF Orderly
    <3>5. j = 1 /\ hit
      BY <1>10, <3>3, <3>4
    <3> QED BY <1>8, <3>3, <3>5
  <2> QED BY <2>1, <2>2
<1> QED BY <1>0, <1>1, <1>13, <1>14, <1>15, <1>16, <1>18, <1>19
        DEF IInv, Sorted, ReceiverNeverAborts

\* The reception of an SCI 1-A keeps the invariant.
LEMMA PhyPscchPduReceivedKeeps ==
    ASSUME TypeOK', IInv, NEW s \in Sender, PhyPscchPduReceived(s)
    PROVE  IInv'
<1> DEFINE n == Len(rxGrants)
<1>0. /\ TypeOK /\ FifoIsAhead /\ Sorted /\ ExpectedIsSent
      /\ AnnouncedIsExpected /\ ReceiverNeverAborts /\ n \in Nat
      /\ \A i \in 1..n : rxGrants[i] \in Grant
  BY DEF IInv, TypeOK
<1>1. PICK gap1 \in 0..MaxGap, gap2 \in 0..MaxGap :
        /\ MayAnnounce(s, gap1, gap2)
        /\ \/ s \in expected /\ Abort
           \/ /\ expected' = expected \cup {s}
              /\ rxGrants' = SaveFutureSlRxGrants(rxGrants, s, gap1, gap2)
              /\ announced' = [announced EXCEPT ![s] = @ \cup ({gap1, gap2} \ {0})]
              /\ sent' = sent \cup {s}
              /\ lost' = IF gap1 # 0 /\ (lost # {} \/ Crosses(gap1))
                            THEN lost \cup {s} ELSE lost
              /\ UNCHANGED <<phase, halted>>
  BY DEF PhyPscchPduReceived
<1>2. /\ gap2 # 0 => gap1 # 0 /\ gap1 < gap2
      /\ s \notin sent /\ announced[s] = {}
  BY <1>1, SenderAssumption DEF MayAnnounce
<1>3. phase = "pscch" /\ s \notin expected
  BY <1>0, <1>2 DEF ExpectedIsSent, PhyPscchPduReceived
<1>4. /\ expected' = expected \cup {s} /\ sent' = sent \cup {s}
      /\ rxGrants' = SaveFutureSlRxGrants(rxGrants, s, gap1, gap2)
      /\ announced' = [announced EXCEPT ![s] = {gap1, gap2} \ {0}]
      /\ lost' = IF gap1 # 0 /\ (lost # {} \/ Crosses(gap1)) THEN lost \cup {s} ELSE lost
      /\ phase' = phase /\ halted' = halted
  BY <1>0, <1>1, <1>2, <1>3 DEF TypeOK
<1>5. /\ announced'[s] = {gap1, gap2} \ {0}
      /\ \A t \in Sender : t # s => announced'[t] = announced[t]
  BY <1>0, <1>4 DEF TypeOK
<1>6. /\ Len(rxGrants') = n + (IF gap1 = 0 THEN 0 ELSE IF gap2 = 0 THEN 1 ELSE 2)
      /\ \A i \in 1..n : rxGrants'[i] = rxGrants[i]
      /\ gap1 # 0 => rxGrants'[n + 1] = [rnti |-> s, sfn |-> gap1]
      /\ gap2 # 0 => rxGrants'[n + 2] = [rnti |-> s, sfn |-> gap2]
  <2>1. rxGrants \in Seq(Grant) /\ MaxGap \in Nat
    BY <1>0, SenderAssumption DEF TypeOK
  <2>2. gap2 # 0 => gap1 # 0
    BY <1>2
  <2>3. rxGrants' = SaveFutureSlRxGrants(rxGrants, s, gap1, gap2)
    BY <1>4
  <2>4. Saved(rxGrants', rxGrants, s, gap1, gap2)
    BY <2>1, <2>2, <2>3, SaveFacts
  <2> QED BY <2>4 DEF Saved
<1>7. \A i \in 1..n : /\ rxGrants[i].rnti \in Sender /\ rxGrants[i].sfn \in Int
                      /\ rxGrants[i].sfn > 0 => /\ rxGrants[i].rnti # s
                                                /\ rxGrants[i].sfn \in announced[rxGrants[i].rnti]
  BY <1>0, <1>2 DEF FifoIsAhead, Grant
<1>8. \A i \in 1..Len(rxGrants') :
         \/ i \in 1..n
         \/ i = n + 1 /\ gap1 # 0
         \/ i = n + 2 /\ gap2 # 0
  BY <1>0, <1>6
<1>9. /\ gap1 # 0 => n + 1 \in 1..Len(rxGrants') /\ rxGrants'[n + 1].rnti = s
                       /\ rxGrants'[n + 1].sfn = gap1
      /\ gap2 # 0 => n + 2 \in 1..Len(rxGrants') /\ rxGrants'[n + 2].rnti = s
                       /\ rxGrants'[n + 2].sfn = gap2
      /\ 1..n \subseteq 1..Len(rxGrants')
      /\ gap1 \in Nat /\ gap2 \in Nat
  BY <1>0, <1>2, <1>6, SenderAssumption
\* What was orderly stays so: an entry of s that is ahead was not there.
<1>10. ASSUME NEW i \in 1..n PROVE Orderly(i)' <=> Orderly(i)
  <2>1. rxGrants'[i] = rxGrants[i]
    BY <1>6
  <2>2. rxGrants[i].sfn > 0 => (rxGrants[i].rnti \in lost' <=> rxGrants[i].rnti \in lost)
    BY <1>4, <1>7
  <2> QED BY <2>1, <2>2 DEF Orderly
<1>11. Sorted'
  <2>1. CASE gap1 = 0
    <3>1. lost' = lost /\ Len(rxGrants') = n /\ gap2 = 0
      BY <1>2, <1>4, <1>6, <2>1
    <3>2. OrderlyFirst'
      BY <1>0, <1>6, <1>10, <3>1 DEF Sorted, OrderlyFirst
    <3>3. Blocked'
      <4>1. \A i \in 1..n : 1..(i - 1) \subseteq 1..n
        BY <1>0
      <4> QED BY <1>0, <1>6, <1>10, <3>1, <4>1 DEF Sorted, Blocked
    <3>4. CrossedIsBlocked'
      BY <1>0, <1>10, <3>1 DEF Sorted, CrossedIsBlocked
    <3> QED BY <3>2, <3>3, <3>4 DEF Sorted
  <2>2. CASE gap1 # 0 /\ lost = {} /\ ~Crosses(gap1)
    <3>1. lost' = {}
      BY <1>4, <2>2
    <3>2. \A i \in 1..n : Orderly(i)
      BY <1>0, <2>2 DEF Sorted, CrossedIsBlocked
    <3>3. ASSUME NEW i \in 1..n PROVE rxGrants[i].sfn < gap1 /\ rxGrants[i].sfn > 0
      <4>1. rxGrants[i].sfn > 0 /\ rxGrants[i].sfn \in announced[rxGrants[i].rnti]
        BY <1>7, <3>2 DEF Orderly
      <4>2. ~(gap1 <= rxGrants[i].sfn)
        BY <1>7, <2>2, <4>1 DEF Crosses
      <4> QED BY <1>7, <1>9, <4>1, <4>2
    <3>4. ASSUME NEW i \in 1..Len(rxGrants') PROVE Orderly(i)'
      BY <1>2, <1>8, <1>9, <1>10, <2>2, <3>1, <3>2 DEF Orderly
    <3>5. OrderlyFirst'
      <4> SUFFICES ASSUME NEW i \in 1..Len(rxGrants'), NEW j \in 1..Len(rxGrants'), i < j
                   PROVE  rxGrants'[i].sfn < rxGrants'[j].sfn
        BY <3>4 DEF OrderlyFirst
      <4>1. CASE j \in 1..n
        <5>1. i \in 1..n
          BY <1>0, <4>1
        <5> QED BY <1>0, <1>6, <3>2, <4>1, <5>1 DEF Sorted, OrderlyFirst
      <4>2. CASE j = n + 1 /\ gap1 # 0
        <5>1. i \in 1..n
          BY <1>0, <4>2
        <5> QED BY <1>6, <1>9, <3>3, <4>2, <5>1
      <4>3. CASE j = n + 2 /\ gap2 # 0
        <5>1. i \in 1..n \/ i = n + 1
          BY <1>0, <4>3
        <5>2. CASE i \in 1..n
          BY <1>2, <1>6, <1>7, <1>9, <3>3, <4>3, <5>2
        <5>3. CASE i = n + 1
          BY <1>2, <1>9, <4>3, <5>3
        <5> QED BY <5>1, <5>2, <5>3
      <4> QED BY <1>8, <4>1, <4>2, <4>3
    <3>6. Blocked' /\ CrossedIsBlocked'
      BY <3>1, <3>4 DEF Blocked, CrossedIsBlocked
    <3> QED BY <3>5, <3>6 DEF Sorted
  <2>3. CASE gap1 # 0 /\ (lost # {} \/ Crosses(gap1))
    <3>1. lost' = lost \cup {s} /\ lost' # {}
      BY <1>4, <2>3
    <3>2. ASSUME NEW i \in 1..Len(rxGrants'), i \notin 1..n PROVE ~Orderly(i)'
      BY <1>8, <1>9, <3>1, <3>2 DEF Orderly
    <3>3. n + 1 \in 1..Len(rxGrants') /\ n + 1 \notin 1..n
      BY <1>0, <1>9, <2>3
    <3>4. OrderlyFirst'
      <4> SUFFICES ASSUME NEW i \in 1..Len(rxGrants'), NEW j \in 1..Len(rxGrants'), i < j,
                          Orderly(j)'
                   PROVE  Orderly(i)' /\ rxGrants'[i].sfn < rxGrants'[j].sfn
        BY DEF OrderlyFirst
      <4>1. j \in 1..n
        BY <3>2
      <4>2. i \in 1..n
        BY <1>0, <4>1
      <4> QED BY <1>0, <1>6, <1>10, <4>1, <4>2 DEF Sorted, OrderlyFirst
    <3>5. Blocked'
      <4> SUFFICES ASSUME NEW i \in 1..Len(rxGrants'), ~Orderly(i)',
                          \A j \in 1..(i - 1) : Orderly(j)'
                   PROVE  \/ rxGrants'[i].sfn <= 0
                          \/ \E j \in 1..(i - 1) : rxGrants'[i].sfn <= rxGrants'[j].sfn
        BY DEF Blocked
      <4>1. CASE i \in 1..n
        <5>1. 1..(i - 1) \subseteq 1..n
          BY <1>0, <4>1
        <5> QED BY <1>0, <1>6, <1>10, <4>1, <5>1 DEF Sorted, Blocked
      <4>2. CASE i = n + 1
        <5>1. 1..(i - 1) = 1..n
          BY <1>0, <4>2
        <5>2. \A j \in 1..n : Orderly(j)
          BY <1>10, <5>1
        <5>3. Crosses(gap1)
          BY <1>0, <2>3, <5>2 DEF Sorted, CrossedIsBlocked
        <5>41. PICK t \in Sender : \E x \in announced[t] : gap1 <= x
          BY <5>3 DEF Crosses
        <5>4. PICK x \in announced[t] : gap1 <= x
          BY <5>41
        <5>5. x \in announced[t] \ {0} /\ x \in Nat
          BY <1>0, <1>9, <2>3, <5>4, SenderAssumption DEF TypeOK
        <5>6. PICK j \in 1..n : rxGrants[j] = [rnti |-> t, sfn |-> x]
          BY <1>0, <5>5 DEF FifoIsAhead
        <5>7. rxGrants'[j].sfn = x
          BY <1>6, <5>6
        <5> QED BY <1>9, <2>3, <4>2, <5>1, <5>4, <5>7
      <4>3. CASE i = n + 2
        <5>1. n + 1 \in 1..(i - 1)
          BY <1>0, <4>3
        <5> QED BY <3>2, <3>3, <5>1
      <4> QED BY <1>8, <4>1, <4>2, <4>3
    <3>6. CrossedIsBlocked'
      BY <3>1, <3>2, <3>3 DEF CrossedIsBlocked
    <3> QED BY <3>4, <3>5, <3>6 DEF Sorted
  <2> QED BY <2>1, <2>2, <2>3
<1>12. FifoIsAhead'
  <2>1. ASSUME NEW i \in 1..Len(rxGrants')
        PROVE  \/ rxGrants'[i].sfn \in announced'[rxGrants'[i].rnti] \ {0}
               \/ rxGrants'[i].sfn <= 0 /\ lost' # {}
    <3>1. CASE i \in 1..n
      <4>1. CASE rxGrants[i].sfn > 0
        BY <1>5, <1>6, <1>7, <3>1, <4>1
      <4>2. CASE ~(rxGrants[i].sfn > 0)
        <5>1. rxGrants[i].sfn <= 0 /\ ~Orderly(i)
          BY <1>7, <3>1, <4>2 DEF Orderly
        <5>2. lost # {}
          BY <1>0, <3>1, <5>1 DEF Sorted, CrossedIsBlocked
        <5> QED BY <1>4, <1>6, <3>1, <5>1, <5>2
      <4> QED BY <4>1, <4>2
    <3>2. CASE i = n + 1 /\ gap1 # 0
      BY <1>5, <1>9, <3>2
    <3>3. CASE i = n + 2 /\ gap2 # 0
      BY <1>5, <1>9, <3>3
    <3> QED BY <1>8, <2>1, <3>1, <3>2, <3>3
  <2>2. ASSUME NEW t \in Sender, NEW x \in announced'[t] \ {0}
        PROVE  \E i \in 1..Len(rxGrants') : rxGrants'[i] = [rnti |-> t, sfn |-> x]
    <3>1. CASE t = s
      BY <1>5, <1>6, <1>9, <3>1
    <3>2. CASE t # s
      <4>1. PICK i \in 1..n : rxGrants[i] = [rnti |-> t, sfn |-> x]
        BY <1>0, <1>5, <3>2 DEF FifoIsAhead
      <4> QED BY <1>6, <1>9, <4>1
    <3> QED BY <3>1, <3>2
  <2> QED BY <2>1, <2>2 DEF FifoIsAhead
<1>13. ExpectedIsSent' /\ ReceiverNeverAborts'
  BY <1>0, <1>3, <1>4, <1>5 DEF ExpectedIsSent, ReceiverNeverAborts, TypeOK
<1>14. AnnouncedIsExpected'
  <2> SUFFICES ASSUME NEW t \in Sender, 0 \in announced'[t]
               PROVE  t \in expected' <=> t \notin lost'
    BY DEF AnnouncedIsExpected
  <2>1. t # s
    BY <1>5
  <2>2. t \in expected <=> t \notin lost
    BY <1>0, <1>3, <1>5, <2>1 DEF AnnouncedIsExpected, ReceiverNeverAborts
  <2> QED BY <1>4, <2>1, <2>2
<1> QED BY <1>11, <1>12, <1>13, <1>14 DEF IInv

\* The invariant is inductive.
LEMMA Inductive == Spec => []IInv
<1>1. TypeOK' /\ IInv /\ [Next]_vars => IInv'
  <2> SUFFICES ASSUME TypeOK', IInv, [Next]_vars PROVE IInv'
    OBVIOUS
  <2>1. CASE StartSlot
    BY <2>1, StartSlotKeeps
  <2>2. CASE RxSlPssch
    <3>1. ~ \E s \in expected : s \notin sent /\ 0 \notin announced[s]
      BY <2>2 DEF RxSlPssch, IInv, ExpectedIsSent
    <3>2. /\ phase' = "pssch" /\ expected' = {}
          /\ UNCHANGED <<rxGrants, announced, sent, lost, halted>>
      BY <2>2, <3>1 DEF RxSlPssch
    <3> QED BY <3>2 DEF IInv, FifoIsAhead, Sorted, OrderlyFirst, Blocked, CrossedIsBlocked,
                        Orderly, ExpectedIsSent, AnnouncedIsExpected, ReceiverNeverAborts
  <2>3. ASSUME NEW s \in Sender, PhyPscchPduReceived(s) PROVE IInv'
    BY <2>3, PhyPscchPduReceivedKeeps
  <2>4. CASE UNCHANGED vars
    BY <2>4 DEF vars, IInv, FifoIsAhead, Sorted, OrderlyFirst, Blocked, CrossedIsBlocked,
                Orderly, ExpectedIsSent, AnnouncedIsExpected, ReceiverNeverAborts
  <2> QED BY <2>1, <2>2, <2>3, <2>4 DEF Next
<1> QED BY <1>1, InvInit, TypeCorrect, PTL DEF Spec

\* Whatever the senders announce, a retransmission announced for the current
\* slot is expected in it exactly when no announcement up to its own crossed an
\* earlier one (NrUePhy::SendSlExpectedTbInfo).
THEOREM AnnouncedSafe == Spec => []AnnouncedIsExpected
<1>1. IInv => AnnouncedIsExpected
  BY DEF IInv
<1> QED BY <1>1, Inductive, PTL

\* Neither AddSlExpectedTb nor the PSSCH reception aborts, whatever the order
\* of the announcements.
THEOREM ReceiverSafe == Spec => []ReceiverNeverAborts
<1>1. IInv => ReceiverNeverAborts
  BY DEF IInv
<1> QED BY <1>1, Inductive, PTL

\* The FIFO m_slRxGrants forgets nothing that is ahead, and keeps a grant whose
\* slot has passed only after announcements crossed.
THEOREM FifoSafe == Spec => []FifoIsAhead
<1>1. IInv => FifoIsAhead
  BY DEF IInv
<1> QED BY <1>1, Inductive, PTL
=============================================================================
