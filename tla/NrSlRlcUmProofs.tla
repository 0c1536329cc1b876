-------------------------- MODULE NrSlRlcUmProofs ---------------------------
(***************************************************************************)
(* Proofs about NrSlRlcUm: what RLC UM delivers on a sidelink bearer is     *)
(* intact, in order and delivered at most once, for any SDUs, any sizes of  *)
(* transmission opportunities and any number of PDUs, as long as the        *)
(* reordering window is wide enough for what the channel does.              *)
(***************************************************************************)
EXTENDS NrSlRlcUm, FiniteSetTheorems, SequenceTheorems, TLAPS

(***************************************************************************)
(* The hypothesis of the theorems.  From VR(UR) to VR(UH) there are the     *)
(* PDUs that arrived while t-Reordering was running, in this and in the     *)
(* previous run of the timer, the PDUs that were overtaken, and the lost    *)
(* ones.  In the code the window is half of the sequence numbers.           *)
(***************************************************************************)
WindowSuffices ==
    /\ 2 * (MaxWaiting + 1) + MaxLate + MaxFaults <= Window
    /\ 2 * Window <= SnMod

-----------------------------------------------------------------------------
(* The inductive invariant.  sz are the sizes of the SDUs sent, tx is the    *)
(* transmission buffer, N the number of PDUs built and P[n] PDU n.           *)

Segment == [sdu : Nat, from : Nat, to : Nat,
            status : {"FULL_SDU", "FIRST_SEGMENT", "MIDDLE_SEGMENT", "LAST_SEGMENT"}]

\* A piece is a part of an SDU that was sent, and its status says which.
PieceOK(p, sz) ==
    /\ p \in Segment
    /\ p.sdu \in 1 .. Len(sz)
    /\ 1 <= p.from /\ p.from <= p.to /\ p.to <= sz[p.sdu]
    /\ p.status \in {"FULL_SDU", "FIRST_SEGMENT"} <=> p.from = 1
    /\ p.status \in {"FULL_SDU", "LAST_SEGMENT"} <=> p.to = sz[p.sdu]

Ends(p, sz) == p.to = sz[p.sdu]

\* Every piece of a list but the first begins its SDU, every one but the last
\* ends it, and SDUs are in the order of sending.
ListOK(d, sz) ==
    /\ d \in Seq(Segment)
    /\ \A i \in 1 .. Len(d) : PieceOK(d[i], sz)
    /\ \A i \in 1 .. Len(d) : i > 1 => d[i].from = 1
    /\ \A i, j \in 1 .. Len(d) : i < j => d[i].sdu < d[j].sdu /\ Ends(d[i], sz)

\* What waits for transmission: each SDU up to its end.
TxOK(tx, sz) ==
    /\ ListOK(tx, sz)
    /\ \A i \in 1 .. Len(tx) : Ends(tx[i], sz)

\* PDU n as it was built.
PduOK(q, n, sz) ==
    /\ q.n = n /\ q.sn = n % SnMod
    /\ ListOK(q.data, sz) /\ q.data # << >>
    /\ q.first <=> q.data[1].from = 1
    /\ q.last <=> Ends(q.data[Len(q.data)], sz)

\* Where p2 comes later in the stream than p.
Before(p, p2, sz) == p.sdu <= p2.sdu /\ (Ends(p, sz) => p.sdu < p2.sdu)

\* The stream goes on after PDU m - 1 with octet k of the SDU.
GoesOn(P, m, sdu, k, N, tx) ==
    /\ m < N => P[m].data[1].sdu = sdu /\ P[m].data[1].from = k
    /\ m >= N => tx # << >> /\ tx[1].sdu = sdu /\ tx[1].from = k

\* What was sent and what will be sent are one stream of pieces.
SentOK(P, N, tx, sz) ==
    /\ sz \in Seq(Nat \ {0}) /\ N \in Nat
    /\ TxOK(tx, sz)
    /\ \A n \in 0 .. N - 1 : PduOK(P[n], n, sz)
    /\ \A n \in 0 .. N - 1 : ~P[n].last =>
           GoesOn(P, n + 1, P[n].data[Len(P[n].data)].sdu,
                  P[n].data[Len(P[n].data)].to + 1, N, tx)
    /\ \A n, m \in 0 .. N - 1 : n < m =>
           \A i \in 1 .. Len(P[n].data), j \in 1 .. Len(P[m].data) :
               Before(P[n].data[i], P[m].data[j], sz)
    /\ \A n \in 0 .. N - 1 :
           \A i \in 1 .. Len(P[n].data), j \in 1 .. Len(tx) :
               Before(P[n].data[i], tx[j], sz)

\* The beginning of an SDU, put together from pieces.
Chain(s, sz) ==
    /\ s \in Seq(Segment) /\ s # << >>
    /\ s[1].sdu \in 1 .. Len(sz) /\ s[1].from = 1
    /\ \A i \in 1 .. Len(s) : s[i].sdu = s[1].sdu
    /\ \A i \in 1 .. Len(s) - 1 : s[i + 1].from = s[i].to + 1

Whole(s, sz) == s[Len(s)].to = sz[s[1].sdu]

\* Reassembly when every PDU below e is dealt with and SDU l was the last one
\* delivered.
ReassemblyOK(r, e, l, P, N, tx, sz) ==
    /\ r.sdus = << >>
    /\ r.expected = e % SnMod
    /\ r.state \in {"WAITING_S0_FULL", "WAITING_SI_SF"}
    /\ r.state = "WAITING_SI_SF" =>
           /\ Chain(r.keepS0, sz)
           /\ l < r.keepS0[1].sdu
           /\ r.keepS0[Len(r.keepS0)].to \in Nat \ {0}
           /\ GoesOn(P, e, r.keepS0[1].sdu, r.keepS0[Len(r.keepS0)].to + 1, N, tx)
    /\ l \in 0 .. Len(sz)
    /\ \A n \in e .. N - 1 : \A i \in 1 .. Len(P[n].data) : l < P[n].data[i].sdu
    /\ \A i \in 1 .. Len(tx) : l < tx[i].sdu

\* SDUs that may be delivered after SDU l.
UpOK(up, l, sz) ==
    /\ up \in Seq(Seq(Segment))
    /\ \A k \in 1 .. Len(up) : Chain(up[k], sz) /\ Whole(up[k], sz) /\ l < up[k][1].sdu
    /\ \A j, k \in 1 .. Len(up) : j < k => up[j][1].sdu < up[k][1].sdu

LastOf(up, l) == IF up = << >> THEN l ELSE up[Len(up)][1].sdu

\* The reception buffer holds the PDUs with the numbers in B.
Holds(buffer, P, B) ==
    /\ DOMAIN buffer = {n % SnMod : n \in B}
    /\ \A n \in B : buffer[n % SnMod] = P[n]

NumbersOf(a) == {a[i].n : i \in 1 .. Len(a)}

\* The channel a: in order, and none overtaken by too many.
AirOK(a, H, P, N) ==
    /\ a \in Seq({P[n] : n \in 0 .. N - 1})
    /\ \A i \in 1 .. Len(a) : /\ a[i].n \in 0 .. N - 1
                              /\ a[i] = P[a[i].n]
                              /\ H - 1 - MaxLate <= a[i].n
    /\ \A i, j \in 1 .. Len(a) : i < j => a[i].n < a[j].n

\* PDUs from U on that were sent and are neither in flight nor received.
Missing(B, U, a, N) == (U .. N - 1) \ (NumbersOf(a) \cup B)

\* The receiver's state variables stand for the numbers U, H and X.
WindowOK(r, B, U, H, X, P, N) ==
    /\ U \in Nat /\ H \in Nat /\ X \in Nat
    /\ U <= H /\ H <= N
    /\ r.vrUr = U % SnMod /\ r.vrUh = H % SnMod
    /\ Holds(r.buffer, P, B) /\ B \subseteq U .. H - 1
    /\ U < H => H - 1 \in B

\* t-Reordering runs while something is missing below VR(UH).
TimerOK(r, B, U, H, X) ==
    /\ r.timer \in BOOLEAN /\ (r.timer <=> U < H)
    /\ U < H => r.vrUx = X % SnMod /\ U < X /\ X <= H /\ X - 1 \in B

\* There are few PDUs between VR(UR) and VR(UH).
CountOK(B, U, H, X, a, N, w, f) ==
    /\ w \in 0 .. MaxWaiting /\ f \in 0 .. MaxFaults
    /\ Cardinality(B) <= MaxWaiting + 1 + w
    /\ U < H => Cardinality(B \cap (X .. H - 1)) <= w
    /\ Cardinality(Missing(B, U, a, N)) <= f

StartOK(r, U, H) ==
    /\ r.firstPduRxed \in BOOLEAN
    /\ ~r.firstPduRxed => U = 0 /\ H = 0 /\ r.state = "WAITING_S0_FULL"

Fields == {"vrUr", "vrUx", "vrUh", "buffer", "timer", "firstPduRxed", "expected",
           "state", "keepS0", "sdus", "up"}

InvFor(P, B, U, H, X) ==
    /\ SentOK(P, nextPdu, txBuffer, size)
    /\ AirOK(air, H, P, nextPdu)
    /\ WindowOK(rx, B, U, H, X, P, nextPdu)
    /\ TimerOK(rx, B, U, H, X)
    /\ StartOK(rx, U, H)
    /\ CountOK(B, U, H, X, air, nextPdu, waiting, faults)
    /\ ReassemblyOK(rx, U, last, P, nextPdu, txBuffer, size)

(***************************************************************************)
(* The inductive invariant: there are numbers that the state variables      *)
(* stand for, and a record of the PDUs sent, of which the channel and the   *)
(* reception buffer hold some.                                              *)
(***************************************************************************)
RlcInv ==
    /\ sent = Len(size)
    /\ \A k \in 1 .. Len(rx.up) : Chain(rx.up[k], size) /\ Whole(rx.up[k], size)
    /\ rx.up \in Seq(Seq(Segment))
    /\ DOMAIN rx = Fields
    /\ \E P, B, U, H, X : InvFor(P, B, U, H, X)

-----------------------------------------------------------------------------
(* Numbers                                                                  *)

\* A set of naturals that is not empty has a least element.
LEMMA Least ==
    ASSUME NEW T, T \subseteq Nat, T # {}
    PROVE  \E x \in T : \A y \in T : x <= y
  <1> DEFINE R == OpToRel(<, Nat)
  <1>1. \A a, b \in Nat : a < b => <<a, b>> \in R
    BY DEF OpToRel
  <1>2. IsWellFoundedOn(R, Nat)
    BY NatLessThanWellFounded
  <1> HIDE DEF R
  <1>3. PICK x \in T : \A y \in T : ~ (<<y, x>> \in R)
    BY <1>2, WFMin
  <1>4. \A y \in T : ~ (y < x)
    BY <1>1, <1>3
  <1>5. \A y \in T : x \in Int /\ y \in Int
    OBVIOUS
  <1>6. \A y \in T : x <= y
    BY <1>4, <1>5
  <1> QED
    BY <1>6

\* Induction over the natural numbers, as a property of sets.
LEMMA SetInduction ==
    ASSUME NEW S, 0 \in S, \A n \in Nat : n \in S => n + 1 \in S
    PROVE  Nat \subseteq S
  <1> DEFINE T == {n \in Nat : n \notin S}
  <1> SUFFICES ASSUME T # {} PROVE FALSE
    OBVIOUS
  <1>1. PICK x \in T : \A y \in T : x <= y
    BY Least
  <1>2. x # 0 /\ x - 1 \in Nat /\ x - 1 \notin T
    BY <1>1
  <1> QED
    BY <1>2

\* Min of a set of integers with a lower bound.
LEMMA MinIs ==
    ASSUME NEW T, T \subseteq Nat, T # {}
    PROVE  Min(T) \in T /\ \A y \in T : Min(T) <= y
  <1>1. \E x \in T : \A y \in T : x <= y
    BY Least
  <1> QED
    BY <1>1 DEF Min

LEMMA MinOfTwo ==
    ASSUME NEW a \in Int, NEW b \in Int
    PROVE  Min({a, b}) = IF a <= b THEN a ELSE b
  <1>1. \E x \in {a, b} : \A y \in {a, b} : x <= y
    OBVIOUS
  <1>2. Min({a, b}) \in {a, b} /\ \A y \in {a, b} : Min({a, b}) <= y
    BY <1>1 DEF Min
  <1> QED
    BY <1>2

LEMMA MaxOfTwo ==
    ASSUME NEW a \in Int, NEW b \in Int
    PROVE  Max({a, b}) = IF a >= b THEN a ELSE b
  <1>1. \E x \in {a, b} : \A y \in {a, b} : x >= y
    OBVIOUS
  <1>2. Max({a, b}) \in {a, b} /\ \A y \in {a, b} : Max({a, b}) >= y
    BY <1>1 DEF Max
  <1> QED
    BY <1>2

\* Sequence numbers: a remainder and its quotient.
LEMMA SnIs ==
    ASSUME NEW a \in Int
    PROVE  /\ a % SnMod \in 0 .. SnMod - 1
           /\ a \div SnMod \in Int
           /\ a = SnMod * (a \div SnMod) + (a % SnMod)
  BY RlcAssumption

\* A number that is a remainder apart from a multiple.
LEMMA SnUnique ==
    ASSUME NEW a \in Int, NEW k \in Int, NEW d \in 0 .. SnMod - 1, a = SnMod * k + d
    PROVE  a % SnMod = d
  <1> DEFINE q == a \div SnMod
             r == a % SnMod
  <1>1. q \in Int /\ r \in 0 .. SnMod - 1 /\ a = SnMod * q + r
    BY SnIs
  <1>2. SnMod \in Nat \ {0}
    BY RlcAssumption
  <1> HIDE DEF q, r
  <1>3. CASE q = k
    <2>1. SnMod * k \in Int /\ SnMod * q = SnMod * k
      BY <1>2, <1>3
    <2>2. r = d
      BY <1>1, <2>1
    <2> QED
      BY <2>2 DEF r
  <1>4. CASE q > k
    <2>1. PICK e \in Nat : q = k + 1 + e
      <3>1. q - k - 1 \in Nat
        BY <1>1, <1>4
      <3> QED
        BY <1>1, <3>1
    <2>2. SnMod * q = SnMod * k + SnMod + SnMod * e /\ SnMod * e >= 0 /\ SnMod * k \in Int /\ SnMod * e \in Int
      BY <2>1, <1>2
    <2> QED
      BY <1>1, <1>2, <2>2
  <1>5. CASE q < k
    <2>1. PICK e \in Nat : k = q + 1 + e
      <3>1. k - q - 1 \in Nat
        BY <1>1, <1>5
      <3> QED
        BY <1>1, <3>1
    <2>2. SnMod * k = SnMod * q + SnMod + SnMod * e /\ SnMod * e >= 0 /\ SnMod * q \in Int /\ SnMod * e \in Int
      BY <2>1, <1>1, <1>2
    <2> QED
      BY <1>1, <1>2, <2>2
  <1>6. q = k \/ q > k \/ q < k
    BY <1>1
  <1> QED
    BY <1>3, <1>4, <1>5, <1>6 DEF r

\* Sums of sequence numbers.
LEMMA SnAdd ==
    ASSUME NEW a \in Int, NEW b \in Int
    PROVE  ((a % SnMod) + b) % SnMod = (a + b) % SnMod
  <1> DEFINE q == a \div SnMod
             r == a % SnMod
             u == (r + b) \div SnMod
             v == (r + b) % SnMod
  <1>1. q \in Int /\ r \in 0 .. SnMod - 1 /\ a = SnMod * q + r
    BY SnIs
  <1> HIDE DEF q, r
  <1>2. u \in Int /\ v \in 0 .. SnMod - 1 /\ r + b = SnMod * u + v
    BY <1>1, SnIs
  <1> HIDE DEF u, v
  <1>3. SnMod \in Nat
    BY RlcAssumption
  <1>4. a + b = SnMod * (q + u) + v
    <2>1. SnMod * (q + u) = SnMod * q + SnMod * u /\ SnMod * q \in Int /\ SnMod * u \in Int
      BY <1>1, <1>2, <1>3
    <2> QED
      BY <2>1, <1>1, <1>2
  <1>5. q + u \in Int /\ a + b \in Int
    BY <1>1, <1>2
  <1>6. (a + b) % SnMod = v
    BY <1>2, <1>4, <1>5, SnUnique
  <1> QED
    BY <1>6 DEF r, v

\* The distance of two sequence numbers.
LEMMA SnDistance ==
    ASSUME NEW a \in Int, NEW b \in Int, 0 <= a - b, a - b < SnMod
    PROVE  ((a % SnMod) - (b % SnMod)) % SnMod = a - b
  <1> DEFINE q == a \div SnMod
             r == a % SnMod
             u == b \div SnMod
             v == b % SnMod
  <1>1. q \in Int /\ r \in 0 .. SnMod - 1 /\ a = SnMod * q + r
    BY SnIs
  <1>2. u \in Int /\ v \in 0 .. SnMod - 1 /\ b = SnMod * u + v
    BY SnIs
  <1> HIDE DEF q, r, u, v
  <1>3. SnMod \in Nat
    BY RlcAssumption
  <1>4. r - v = SnMod * (u - q) + (a - b)
    <2>1. SnMod * (u - q) = SnMod * u - SnMod * q /\ SnMod * q \in Int /\ SnMod * u \in Int
      BY <1>1, <1>2, <1>3
    <2> QED
      BY <2>1, <1>1, <1>2
  <1>5. u - q \in Int /\ r - v \in Int /\ a - b \in 0 .. SnMod - 1
    BY <1>1, <1>2, <1>3
  <1>6. (r - v) % SnMod = a - b
    BY <1>4, <1>5, SnUnique
  <1> QED
    BY <1>6 DEF r, v

\* Numbers less than SnMod apart have different sequence numbers.
LEMMA SnInjective ==
    ASSUME NEW a \in Int, NEW b \in Int, a % SnMod = b % SnMod, a - b < SnMod, b - a < SnMod
    PROVE  a = b
  <1>0. SnMod \in Nat /\ 0 % SnMod = 0
    <2>1. SnMod \in Nat \ {0} /\ 0 = SnMod * 0 + 0 /\ 0 \in 0 .. SnMod - 1
      BY RlcAssumption
    <2> QED
      BY <2>1, SnUnique
  <1>1. CASE a >= b
    <2>0. 0 <= a - b /\ a - b < SnMod
      BY <1>0, <1>1
    <2>1. ((a % SnMod) - (b % SnMod)) % SnMod = a - b
      BY <2>0, SnDistance
    <2>2. (a % SnMod) - (b % SnMod) = 0
      BY SnIs
    <2> QED
      BY <1>0, <2>1, <2>2
  <1>2. CASE b >= a
    <2>0. 0 <= b - a /\ b - a < SnMod
      BY <1>0, <1>2
    <2>1. ((b % SnMod) - (a % SnMod)) % SnMod = b - a
      BY <2>0, SnDistance
    <2>2. (b % SnMod) - (a % SnMod) = 0
      BY SnIs
    <2> QED
      BY <1>0, <2>1, <2>2
  <1> QED
    BY <1>1, <1>2

-----------------------------------------------------------------------------
(* The window and the reception buffer                                      *)

\* Offsets from a number are distances from it.
LEMMA OffsetIs ==
    ASSUME NEW m \in Int, NEW b \in Int, 0 <= m - b, m - b < SnMod
    PROVE  Offset(m % SnMod, b % SnMod) = m - b
  BY SnDistance DEF Offset

LEMMA OffsetFromBase ==
    ASSUME NEW r, NEW H \in Int, r.vrUh = H % SnMod,
           NEW m \in Int, 0 <= m - (H - Window), m - (H - Window) < SnMod
    PROVE  Offset(m % SnMod, Base(r)) = m - (H - Window)
  <1>1. Window \in Int
    BY RlcAssumption
  <1>2. PICK w \in Int : w = 0 - Window
    BY <1>1
  <1>3. ((H % SnMod) + w) % SnMod = (H + w) % SnMod
    BY <1>2, SnAdd
  <1>4. (H % SnMod) + w = (H % SnMod) - Window /\ H + w = H - Window
    BY <1>1, <1>2, SnIs
  <1>5. Base(r) = (H - Window) % SnMod
    BY <1>3, <1>4 DEF Base
  <1>6. H - Window \in Int
    BY <1>1
  <1> QED
    BY <1>5, <1>6, OffsetIs

\* Which numbers are in the buffer.
LEMMA InHolds ==
    ASSUME NEW buffer, NEW P, NEW B, Holds(buffer, P, B),
           NEW U \in Int, B \subseteq U .. U + SnMod - 1,
           NEW m \in U .. U + SnMod - 1
    PROVE  m % SnMod \in DOMAIN buffer <=> m \in B
  <1>1. m \in B => m % SnMod \in DOMAIN buffer
    BY DEF Holds
  <1>2. ASSUME m % SnMod \in DOMAIN buffer PROVE m \in B
    <2>1. PICK n \in B : m % SnMod = n % SnMod
      BY <1>2 DEF Holds
    <2>2. n \in Int /\ m - n < SnMod /\ n - m < SnMod
      BY RlcAssumption
    <2>3. m = n
      BY <2>1, <2>2, SnInjective
    <2> QED
      BY <2>1, <2>3
  <1> QED
    BY <1>1, <1>2

LEMMA HoldsForget ==
    ASSUME NEW buffer, NEW P, NEW B, Holds(buffer, P, B),
           NEW U \in Int, B \subseteq U .. U + SnMod - 1, NEW m \in B
    PROVE  Holds(Forget(buffer, {m % SnMod}), P, B \ {m})
  <1>1. \A n \in B : n # m => n % SnMod # m % SnMod
    <2> TAKE n \in B
    <2>1. n \in Int /\ m \in Int /\ m - n < SnMod /\ n - m < SnMod
      BY RlcAssumption
    <2> QED
      BY <2>1, SnInjective
  <1>2. DOMAIN Forget(buffer, {m % SnMod}) = DOMAIN buffer \ {m % SnMod}
    BY DEF Forget
  <1>3. DOMAIN buffer \ {m % SnMod} = {n % SnMod : n \in B \ {m}}
    BY <1>1 DEF Holds
  <1>4. \A n \in B \ {m} : Forget(buffer, {m % SnMod})[n % SnMod] = P[n]
    BY <1>1 DEF Forget, Holds
  <1> QED
    BY <1>2, <1>3, <1>4 DEF Holds

LEMMA HoldsPlaced ==
    ASSUME NEW buffer, NEW P, NEW B, Holds(buffer, P, B),
           NEW U \in Int, B \subseteq U .. U + SnMod - 1,
           NEW m \in U .. U + SnMod - 1, NEW q, q = P[m]
    PROVE  Holds([s \in DOMAIN buffer \cup {m % SnMod} |->
                     IF s = m % SnMod THEN q ELSE buffer[s]], P, B \cup {m})
  <1> DEFINE new == [s \in DOMAIN buffer \cup {m % SnMod} |->
                     IF s = m % SnMod THEN q ELSE buffer[s]]
  <1>1. \A n \in B : n # m => n % SnMod # m % SnMod
    <2> TAKE n \in B
    <2>1. n \in Int /\ m \in Int /\ m - n < SnMod /\ n - m < SnMod
      BY RlcAssumption
    <2> QED
      BY <2>1, SnInjective
  <1>2. DOMAIN new = {n % SnMod : n \in B \cup {m}}
    BY DEF Holds
  <1>3. \A n \in B \cup {m} : new[n % SnMod] = P[n]
    BY <1>1 DEF Holds
  <1> QED
    BY <1>2, <1>3 DEF Holds

-----------------------------------------------------------------------------
(* Walking over sequence numbers                                            *)

Walks(f, r, low, len) ==
    f = [k \in 0 .. len |-> IF k = 0 THEN r ELSE Deliver(f[k - 1], (low + k - 1) % SnMod)]

\* The walk is defined for any length.
LEMMA WalksExists ==
    ASSUME NEW r, NEW low, NEW len \in Nat
    PROVE  \E f : Walks(f, r, low, len)
  <1> DEFINE T == {n \in Nat : \E f : Walks(f, r, low, n)}
  <1>1. 0 \in T
    <2> DEFINE f == [k \in 0 .. 0 |-> r]
    <2>1. \A k \in 0 .. 0 : k = 0
      OBVIOUS
    <2>2. Walks(f, r, low, 0)
      BY <2>1 DEF Walks
    <2> QED
      BY <2>2
  <1>2. ASSUME NEW n \in Nat, n \in T PROVE n + 1 \in T
    <2>1. PICK f : Walks(f, r, low, n)
      BY <1>2
    <2> DEFINE E(h, k) == IF k = 0 THEN r ELSE Deliver(h[k - 1], (low + k - 1) % SnMod)
               g == [k \in 0 .. (n + 1) |-> E(f, k)]
    <2>2. \A k \in 0 .. n : f[k] = E(f, k)
      BY <2>1 DEF Walks
    <2>3. \A k \in 0 .. n : g[k] = f[k]
      BY <2>2
    <2>4. \A k \in 0 .. (n + 1) : k = 0 \/ k - 1 \in 0 .. n
      OBVIOUS
    <2>5. \A k \in 0 .. (n + 1) : E(g, k) = E(f, k)
      <3> TAKE k \in 0 .. (n + 1)
      <3>1. k = 0 \/ g[k - 1] = f[k - 1]
        BY <2>3, <2>4
      <3> HIDE DEF g
      <3> QED
        BY <3>1
    <2>6. g = [k \in 0 .. (n + 1) |-> E(g, k)]
      BY <2>5
    <2>7. Walks(g, r, low, n + 1)
      BY <2>6 DEF Walks
    <2> QED
      BY <2>7
  <1> HIDE DEF T
  <1>3. Nat \subseteq T
    BY <1>1, <1>2, SetInduction
  <1> QED
    BY <1>3 DEF T

LEMMA DeliverAllIs ==
    ASSUME NEW r, NEW low, NEW len \in Nat
    PROVE  \E f : /\ f[0] = r
                  /\ \A k \in 1 .. len : f[k] = Deliver(f[k - 1], (low + k - 1) % SnMod)
                  /\ DeliverAll(r, low, len) = f[len]
  <1> DEFINE f == CHOOSE g : Walks(g, r, low, len)
  <1>1. Walks(f, r, low, len)
    BY WalksExists
  <1>2. DeliverAll(r, low, len) = f[len]
    BY DEF DeliverAll, Walks
  <1> HIDE DEF f
  <1>3. f[0] = r
    BY <1>1 DEF Walks
  <1>4. \A k \in 1 .. len : f[k] = Deliver(f[k - 1], (low + k - 1) % SnMod)
    BY <1>1 DEF Walks
  <1> QED
    BY <1>2, <1>3, <1>4

\* Nothing happens when none of the numbers is in the buffer.
LEMMA DeliverNone ==
    ASSUME NEW r, NEW low, NEW len \in Nat,
           \A k \in 1 .. len : (low + k - 1) % SnMod \notin DOMAIN r.buffer
    PROVE  DeliverAll(r, low, len) = r
  <1>1. PICK f : /\ f[0] = r
                 /\ \A k \in 1 .. len : f[k] = Deliver(f[k - 1], (low + k - 1) % SnMod)
                 /\ DeliverAll(r, low, len) = f[len]
    BY DeliverAllIs
  <1> DEFINE T == {n \in Nat : n <= len => f[n] = r}
  <1>2. 0 \in T
    BY <1>1
  <1>3. ASSUME NEW n \in Nat, n \in T PROVE n + 1 \in T
    <2> SUFFICES ASSUME n + 1 <= len PROVE f[n + 1] = r
      OBVIOUS
    <2>1. n + 1 \in 1 .. len /\ (n + 1) - 1 = n /\ f[n] = r
      BY <1>3
    <2>2. f[n + 1] = Deliver(f[(n + 1) - 1], (low + (n + 1) - 1) % SnMod)
      BY <1>1, <2>1
    <2>3. (low + (n + 1) - 1) % SnMod \notin DOMAIN r.buffer
      BY <2>1
    <2> QED
      BY <2>1, <2>2, <2>3 DEF Deliver
  <1> HIDE DEF T
  <1>4. len \in T
    BY <1>2, <1>3, SetInduction
  <1> QED
    BY <1>1, <1>4 DEF T

-----------------------------------------------------------------------------
(* Segmentation                                                             *)

Rooms(f, b, bytes, len) ==
    f = [i \in 1 .. len |->
           IF i = 1 THEN bytes - 2
           ELSE f[i - 1] - SizeOf(b[i - 1]) - (IF i % 2 = 0 THEN 2 ELSE 1)]

LEMMA RoomsExist ==
    ASSUME NEW b, NEW bytes, NEW len \in Nat
    PROVE  \E f : Rooms(f, b, bytes, len)
  <1> DEFINE T == {n \in Nat : \E f : Rooms(f, b, bytes, n)}
  <1>1. 0 \in T
    <2> DEFINE f == [i \in 1 .. 0 |-> 0]
    <2>1. \A i \in 1 .. 0 : FALSE
      OBVIOUS
    <2>2. Rooms(f, b, bytes, 0)
      BY <2>1 DEF Rooms
    <2> QED
      BY <2>2
  <1>2. ASSUME NEW n \in Nat, n \in T PROVE n + 1 \in T
    <2>1. PICK f : Rooms(f, b, bytes, n)
      BY <1>2
    <2> DEFINE E(h, i) ==
                  IF i = 1 THEN bytes - 2
                  ELSE h[i - 1] - SizeOf(b[i - 1]) - (IF i % 2 = 0 THEN 2 ELSE 1)
               g == [i \in 1 .. (n + 1) |-> E(f, i)]
    <2>2. \A i \in 1 .. n : f[i] = E(f, i)
      BY <2>1 DEF Rooms
    <2>3. \A i \in 1 .. n : g[i] = f[i]
      BY <2>2
    <2>4. \A i \in 1 .. (n + 1) : i = 1 \/ i - 1 \in 1 .. n
      OBVIOUS
    <2>5. \A i \in 1 .. (n + 1) : E(g, i) = E(f, i)
      <3> TAKE i \in 1 .. (n + 1)
      <3>1. i = 1 \/ g[i - 1] = f[i - 1]
        BY <2>3, <2>4
      <3> HIDE DEF g
      <3> QED
        BY <3>1
    <2> HIDE DEF E
    <2>6. g = [i \in 1 .. (n + 1) |-> E(g, i)]
      BY <2>5
    <2>7. Rooms(g, b, bytes, n + 1)
      BY <2>6 DEF Rooms, E
    <2> QED
      BY <2>7
  <1> HIDE DEF T
  <1>3. Nat \subseteq T
    BY <1>1, <1>2, SetInduction
  <1> QED
    BY <1>3 DEF T

\* The data field holds the first k - 1 pieces and at least one octet of piece k.
LEMMA DataFieldIs ==
    ASSUME NEW b \in Seq(Segment), b # << >>, NEW bytes \in Nat, bytes > 2,
           \A i \in 1 .. Len(b) : b[i].from <= b[i].to
    PROVE  \E k \in 1 .. Len(b) : \E n \in 1 .. SizeOf(b[k]) :
               DataField(b, bytes) =
                   [data |-> Append(SubSeq(b, 1, k - 1), Taken(b[k], n)),
                    left |-> GivenBack(b[k], n) \o SubSeq(b, k + 1, Len(b))]
  <1>1. Len(b) \in Nat \ {0} /\ DOMAIN b = 1 .. Len(b)
    BY EmptySeq, LenProperties
  <1> DEFINE f == CHOOSE g : Rooms(g, b, bytes, Len(b))
             Stops(i) == \/ SizeOf(b[i]) > f[i] \/ SizeOf(b[i]) > MaxLi
                         \/ f[i] - SizeOf(b[i]) <= 2 \/ i = Len(b)
             k == Min({i \in 1 .. Len(b) : Stops(i)})
             n == Min({SizeOf(b[k]), f[k]})
  <1>2. Rooms(f, b, bytes, Len(b))
    BY <1>1, RoomsExist
  <1>3. DataField(b, bytes) =
                   [data |-> Append(SubSeq(b, 1, k - 1), Taken(b[k], n)),
                    left |-> GivenBack(b[k], n) \o SubSeq(b, k + 1, Len(b))]
    BY <1>1 DEF DataField, Rooms
  <1> HIDE DEF f
  <1>4. k \in 1 .. Len(b) /\ Stops(k) /\ \A i \in 1 .. Len(b) : i < k => ~Stops(i)
    <2> DEFINE T == {i \in 1 .. Len(b) : Stops(i)}
    <2>1. T \subseteq Nat /\ Len(b) \in T
      BY <1>1
    <2> HIDE DEF T
    <2>2. Min(T) \in T /\ \A y \in T : Min(T) <= y
      BY <2>1, MinIs
    <2>3. k \in T /\ \A y \in T : k <= y
      BY <2>2 DEF T
    <2> HIDE DEF k, Stops
    <2>4. k \in Nat
      BY <2>1, <2>3
    <2>5. \A i \in 1 .. Len(b) : i < k => ~(k <= i)
      BY <2>4
    <2> QED
      BY <2>3, <2>5 DEF T
  <1> HIDE DEF k
  <1>5. \A i \in 1 .. Len(b) : SizeOf(b[i]) \in Nat \ {0}
    <2> TAKE i \in 1 .. Len(b)
    <2>1. b[i] \in Segment /\ b[i].from <= b[i].to
      BY ElementOfSeq
    <2>2. b[i].from \in Nat /\ b[i].to \in Nat
      BY <2>1 DEF Segment
    <2> QED
      BY <2>1, <2>2 DEF SizeOf
  <1>6. f[1] = bytes - 2 /\ 1 \in 1 .. Len(b)
    BY <1>1, <1>2 DEF Rooms
  <1>7. \A i \in 1 .. Len(b) : i # 1 =>
            i - 1 \in 1 .. Len(b)
            /\ f[i] = f[i - 1] - SizeOf(b[i - 1]) - (IF i % 2 = 0 THEN 2 ELSE 1)
    BY <1>1, <1>2 DEF Rooms
  <1> DEFINE W == {i \in Nat : i + 1 <= Len(b) => f[i + 1] \in Int}
  <1>8. 0 \in W
    BY <1>6
  <1>9. ASSUME NEW i \in Nat, i \in W PROVE i + 1 \in W
    <2> SUFFICES ASSUME i + 2 <= Len(b) PROVE f[i + 2] \in Int
      OBVIOUS
    <2>1. i + 2 \in 1 .. Len(b) /\ i + 2 # 1 /\ (i + 2) - 1 = i + 1 /\ f[i + 1] \in Int
      BY <1>1, <1>9
    <2>2. i + 1 \in 1 .. Len(b)
          /\ f[i + 2] = f[i + 1] - SizeOf(b[i + 1]) - (IF (i + 2) % 2 = 0 THEN 2 ELSE 1)
      BY <1>7, <2>1
    <2>3. SizeOf(b[i + 1]) \in Nat
      BY <1>5, <2>2
    <2> DEFINE h == IF (i + 2) % 2 = 0 THEN 2 ELSE 1
    <2>4. h \in Nat
      OBVIOUS
    <2>5. f[i + 2] = f[i + 1] - SizeOf(b[i + 1]) - h
      BY <2>2
    <2> HIDE DEF h
    <2> QED
      BY <2>1, <2>3, <2>4, <2>5
  <1> HIDE DEF W
  <1>10a. Nat \subseteq W
    BY <1>8, <1>9, SetInduction
  <1>10b. k \in Nat /\ 1 <= k
    <2> HIDE DEF Stops
    <2>1. k \in 1 .. Len(b)
      BY <1>4
    <2> QED
      BY <1>1, <2>1
  <1>10. k - 1 \in Nat /\ k - 1 \in W
    <2>1. k - 1 \in Nat
      BY <1>10b
    <2> QED
      BY <1>10a, <2>1
  <1>11. f[k] \in Int
    <2>1. (k - 1) + 1 = k
      BY <1>4
    <2> QED
      BY <1>4, <1>10, <2>1 DEF W
  <1>12. f[k] >= 1
    <2>1. CASE k = 1
      BY <1>6, <2>1
    <2>2. CASE k # 1
      <3>1. k - 1 \in 1 .. Len(b) /\ k - 1 < k
            /\ f[k] = f[k - 1] - SizeOf(b[k - 1]) - (IF k % 2 = 0 THEN 2 ELSE 1)
        BY <1>4, <1>7, <2>2
      <3>2. k - 2 \in Nat /\ (k - 2) + 1 = k - 1 /\ k - 2 \in W
        <4>1. k - 2 \in Nat /\ (k - 2) + 1 = k - 1
          BY <1>10b, <2>2
        <4> QED
          BY <1>10a, <4>1
      <3>3. f[k - 1] \in Int
        BY <3>1, <3>2 DEF W
      <3>4. ~(f[k - 1] - SizeOf(b[k - 1]) <= 2)
        BY <1>4, <3>1
      <3> QED
        BY <1>5, <3>1, <3>3, <3>4
    <2> QED
      BY <2>1, <2>2
  <1>13. n \in 1 .. SizeOf(b[k])
    <2>1. SizeOf(b[k]) \in Nat \ {0}
      BY <1>4, <1>5
    <2> QED
      BY <1>11, <1>12, <2>1, MinOfTwo
  <1> HIDE DEF n
  <1> QED
    BY <1>3, <1>4, <1>13

-----------------------------------------------------------------------------
(* The sender                                                               *)

\* One more SDU changes nothing about the others.
LEMMA SizeGrows ==
    ASSUME NEW sz \in Seq(Nat \ {0}), NEW s \in Nat \ {0}
    PROVE  /\ Append(sz, s) \in Seq(Nat \ {0})
           /\ Len(sz) \in Nat /\ Len(Append(sz, s)) = Len(sz) + 1
           /\ Append(sz, s)[Len(sz) + 1] = s
           /\ \A k \in 1 .. Len(sz) : Append(sz, s)[k] = sz[k] /\ k \in 1 .. Len(sz) + 1
  OBVIOUS

LEMMA PieceGrows ==
    ASSUME NEW sz \in Seq(Nat \ {0}), NEW s \in Nat \ {0}, NEW p, PieceOK(p, sz)
    PROVE  PieceOK(p, Append(sz, s)) /\ (Ends(p, Append(sz, s)) <=> Ends(p, sz))
  <1>1. p.sdu \in 1 .. Len(sz)
    BY DEF PieceOK
  <1>2. Append(sz, s)[p.sdu] = sz[p.sdu] /\ p.sdu \in 1 .. Len(Append(sz, s))
    BY <1>1, SizeGrows
  <1> QED
    BY <1>2 DEF PieceOK, Ends

LEMMA ListGrows ==
    ASSUME NEW sz \in Seq(Nat \ {0}), NEW s \in Nat \ {0}, NEW d, ListOK(d, sz)
    PROVE  /\ ListOK(d, Append(sz, s))
           /\ \A i \in 1 .. Len(d) : Ends(d[i], Append(sz, s)) <=> Ends(d[i], sz)
  BY PieceGrows DEF ListOK

LEMMA ChainGrows ==
    ASSUME NEW sz \in Seq(Nat \ {0}), NEW s \in Nat \ {0}, NEW c, Chain(c, sz)
    PROVE  Chain(c, Append(sz, s))
  <1>1. c[1].sdu \in 1 .. Len(Append(sz, s))
    BY SizeGrows DEF Chain
  <1> QED
    BY <1>1 DEF Chain

LEMMA SentGrows ==
    ASSUME NEW P, NEW N, NEW tx, NEW sz, SentOK(P, N, tx, sz), NEW s \in Nat \ {0}
    PROVE  SentOK(P, N, tx, Append(sz, s))
  <1>1. sz \in Seq(Nat \ {0}) /\ N \in Nat
    BY DEF SentOK
  <1>2. Append(sz, s) \in Seq(Nat \ {0})
    BY <1>1, SizeGrows
  <1>3. TxOK(tx, Append(sz, s))
    BY <1>1, ListGrows DEF SentOK, TxOK
  <1>4. \A n \in 0 .. N - 1 :
            /\ ListOK(P[n].data, sz) /\ ListOK(P[n].data, Append(sz, s))
            /\ Len(P[n].data) \in 1 .. Len(P[n].data)
            /\ \A i \in 1 .. Len(P[n].data) :
                   Ends(P[n].data[i], Append(sz, s)) <=> Ends(P[n].data[i], sz)
    <2> TAKE n \in 0 .. N - 1
    <2>1. PduOK(P[n], n, sz)
      BY DEF SentOK
    <2>2. ListOK(P[n].data, sz) /\ P[n].data # << >> /\ P[n].data \in Seq(Segment)
      BY <2>1 DEF PduOK, ListOK
    <2>3. Len(P[n].data) \in 1 .. Len(P[n].data)
      BY <2>2, EmptySeq
    <2> QED
      BY <1>1, <2>2, <2>3, ListGrows
  <1>5. \A n \in 0 .. N - 1 : PduOK(P[n], n, Append(sz, s))
    BY <1>4 DEF SentOK, PduOK
  <1>6. \A n, m \in 0 .. N - 1 : n < m =>
           \A i \in 1 .. Len(P[n].data), j \in 1 .. Len(P[m].data) :
               Before(P[n].data[i], P[m].data[j], Append(sz, s))
    BY <1>4 DEF SentOK, Before
  <1>7. \A n \in 0 .. N - 1 :
           \A i \in 1 .. Len(P[n].data), j \in 1 .. Len(tx) :
               Before(P[n].data[i], tx[j], Append(sz, s))
    BY <1>4 DEF SentOK, Before
  <1> QED
    BY <1>1, <1>2, <1>3, <1>5, <1>6, <1>7 DEF SentOK

\* An SDU that comes last may be put into the transmission buffer.
LEMMA SentAppended ==
    ASSUME NEW P, NEW N, NEW tx, NEW sz, SentOK(P, N, tx, sz), NEW s \in Nat \ {0},
           NEW x, x = Piece(Len(sz) + 1, 1, s, "FULL_SDU")
    PROVE  SentOK(P, N, Append(tx, x), Append(sz, s))
  <1> DEFINE z == Append(sz, s)
             t == Append(tx, x)
  <1>1. SentOK(P, N, tx, z)
    BY SentGrows
  <1>2. /\ sz \in Seq(Nat \ {0}) /\ z \in Seq(Nat \ {0}) /\ N \in Nat
        /\ Len(sz) \in Nat /\ Len(z) = Len(sz) + 1 /\ z[Len(sz) + 1] = s
    BY SizeGrows DEF SentOK
  <1>3. x \in Segment /\ x.sdu = Len(sz) + 1 /\ x.from = 1 /\ x.to = s /\ x.status = "FULL_SDU"
    BY <1>2 DEF Piece, Segment
  <1> HIDE DEF z
  <1>4. PieceOK(x, z) /\ Ends(x, z)
    BY <1>2, <1>3 DEF PieceOK, Ends
  <1>5. tx \in Seq(Segment)
    BY DEF SentOK, TxOK, ListOK
  <1>6. /\ t \in Seq(Segment) /\ Len(tx) \in Nat /\ Len(t) = Len(tx) + 1 /\ t[Len(tx) + 1] = x
        /\ \A i \in 1 .. Len(tx) : t[i] = tx[i] /\ i \in 1 .. Len(t)
    BY <1>3, <1>5
  <1> HIDE DEF t
  <1>7. \A i \in 1 .. Len(t) : i = Len(tx) + 1 \/ i \in 1 .. Len(tx)
    BY <1>6
  <1>8. \A i \in 1 .. Len(tx) : tx[i].sdu \in 1 .. Len(sz) /\ tx[i].sdu < x.sdu
    BY <1>2, <1>3 DEF SentOK, TxOK, ListOK, PieceOK
  <1>9. \A n \in 0 .. N - 1 : \A i \in 1 .. Len(P[n].data) :
            P[n].data[i].sdu \in 1 .. Len(sz) /\ P[n].data[i].sdu < x.sdu
    BY <1>2, <1>3 DEF SentOK, PduOK, ListOK, PieceOK
  <1>10. ListOK(tx, z) /\ \A i \in 1 .. Len(tx) : Ends(tx[i], z)
    BY <1>1 DEF SentOK, TxOK
  <1>11. TxOK(t, z)
    <2>1. \A i \in 1 .. Len(t) : PieceOK(t[i], z) /\ Ends(t[i], z)
      BY <1>4, <1>6, <1>7, <1>10 DEF ListOK
    <2>2. \A i \in 1 .. Len(t) : i > 1 => t[i].from = 1
      BY <1>3, <1>6, <1>7, <1>10 DEF ListOK
    <2>3. \A i, j \in 1 .. Len(t) : i < j => t[i].sdu < t[j].sdu
      <3> TAKE i, j \in 1 .. Len(t)
      <3> HAVE i < j
      <3>1. i \in 1 .. Len(tx) /\ t[i] = tx[i]
        BY <1>6, <1>7
      <3>2. CASE j = Len(tx) + 1
        BY <1>6, <1>8, <3>1, <3>2
      <3>3. CASE j \in 1 .. Len(tx)
        BY <1>6, <1>10, <3>1, <3>3 DEF ListOK
      <3> QED
        BY <1>7, <3>2, <3>3
    <2> QED
      BY <1>6, <2>1, <2>2, <2>3 DEF TxOK, ListOK
  <1>12. \A n \in 0 .. N - 1 : ~P[n].last =>
           GoesOn(P, n + 1, P[n].data[Len(P[n].data)].sdu,
                  P[n].data[Len(P[n].data)].to + 1, N, t)
    <2>1. tx # << >> => Len(tx) >= 1 /\ t # << >> /\ t[1] = tx[1]
      <3>1. tx # << >> => Len(tx) >= 1
        BY <1>5, EmptySeq
      <3>2. t # << >>
        BY <1>6, EmptySeq
      <3> QED
        BY <1>6, <3>1, <3>2
    <2> QED
      BY <1>1, <2>1 DEF SentOK, GoesOn
  <1>13. \A n \in 0 .. N - 1 :
           \A i \in 1 .. Len(P[n].data), j \in 1 .. Len(t) : Before(P[n].data[i], t[j], z)
    <2> TAKE n \in 0 .. N - 1
    <2> TAKE i \in 1 .. Len(P[n].data), j \in 1 .. Len(t)
    <2>1. CASE j = Len(tx) + 1
      <3>1. P[n].data[i].sdu < x.sdu /\ P[n].data[i].sdu \in Int /\ x.sdu \in Int
        BY <1>2, <1>3, <1>9, SMTT(20)
      <3> QED
        BY <1>6, <2>1, <3>1 DEF Before
    <2>2. CASE j \in 1 .. Len(tx)
      BY <1>1, <1>6, <2>2 DEF SentOK
    <2> QED
      BY <1>7, <2>1, <2>2
  <1> QED
    BY <1>1, <1>2, <1>11, <1>12, <1>13 DEF SentOK, t, z

\* A piece is cut in two.
LEMMA CutPiece ==
    ASSUME NEW sz \in Seq(Nat \ {0}), NEW p, PieceOK(p, sz), Ends(p, sz), NEW n \in 1 .. SizeOf(p)
    PROVE  /\ PieceOK(Taken(p, n), sz)
           /\ Taken(p, n).sdu = p.sdu /\ Taken(p, n).from = p.from
           /\ Ends(Taken(p, n), sz) <=> n = SizeOf(p)
           /\ n = SizeOf(p) => GivenBack(p, n) = << >>
           /\ n # SizeOf(p) => \E g : /\ GivenBack(p, n) = <<g>>
                                      /\ PieceOK(g, sz) /\ Ends(g, sz)
                                      /\ g.sdu = p.sdu /\ g.from = Taken(p, n).to + 1
  <1>1. /\ p \in Segment /\ p.sdu \in Nat /\ p.from \in Nat /\ p.to \in Nat
        /\ p.status \in {"FULL_SDU", "FIRST_SEGMENT", "MIDDLE_SEGMENT", "LAST_SEGMENT"}
    BY DEF PieceOK, Segment
  <1>2. p.sdu \in 1 .. Len(sz) /\ sz[p.sdu] = p.to /\ 1 <= p.from /\ p.from <= p.to
    BY DEF PieceOK, Ends
  <1>3. n \in Nat /\ n >= 1 /\ n <= p.to - p.from + 1
    BY <1>1 DEF SizeOf
  <1> DEFINE st == IF n = SizeOf(p) THEN p.status
                   ELSE IF p.status = "FULL_SDU" THEN "FIRST_SEGMENT" ELSE "MIDDLE_SEGMENT"
             t == Taken(p, n)
             g == Piece(p.sdu, p.from + n, p.to, "LAST_SEGMENT")
  <1>4. st \in {"FULL_SDU", "FIRST_SEGMENT", "MIDDLE_SEGMENT", "LAST_SEGMENT"}
    BY <1>1
  <1>5. /\ t.sdu = p.sdu /\ t.from = p.from /\ t.to = p.from + n - 1 /\ t.status = st
        /\ t = [sdu |-> p.sdu, from |-> p.from, to |-> p.from + n - 1, status |-> st]
    BY DEF Taken, Piece
  <1>6. t \in Segment
    <2>1. p.from + n - 1 \in Nat
      BY <1>1, <1>3
    <2> HIDE DEF st, t
    <2> QED
      BY <1>1, <1>4, <1>5, <2>1 DEF Segment
  <1> HIDE DEF t
  <1>6a. /\ p.from + n - 1 <= p.to /\ p.from <= p.from + n - 1
         /\ p.from + n - 1 = p.to <=> n = p.to - p.from + 1
         /\ n # p.to - p.from + 1 => p.from + n <= p.to
         /\ p.from + n # 1 /\ 1 <= p.from + n /\ p.from + n = (p.from + n - 1) + 1
    <2> DEFINE a == p.from
               z == p.to
    <2>1. a \in Nat /\ z \in Nat /\ 1 <= a /\ n <= z - a + 1 /\ n \in Nat /\ n >= 1
      BY <1>1, <1>2, <1>3
    <2> HIDE DEF a, z
    <2>2. /\ a + n - 1 <= z /\ a <= a + n - 1
          /\ a + n - 1 = z <=> n = z - a + 1
          /\ n # z - a + 1 => a + n <= z
          /\ a + n # 1 /\ 1 <= a + n /\ a + n = (a + n - 1) + 1
      BY <2>1
    <2> QED
      BY <2>2, Zenon DEF a, z
  <1>7. p.from + n - 1 <= p.to /\ (p.from + n - 1 = p.to <=> n = SizeOf(p)) /\ p.from <= p.from + n - 1
    BY <1>6a, Zenon DEF SizeOf
  <1>8. p.status \in {"FULL_SDU", "LAST_SEGMENT"} /\ (p.status = "FULL_SDU" <=> p.from = 1)
    BY DEF PieceOK, Ends
  <1>9. st \in {"FULL_SDU", "FIRST_SEGMENT"} <=> p.from = 1
    BY <1>8
  <1>10. st \in {"FULL_SDU", "LAST_SEGMENT"} <=> n = SizeOf(p)
    BY <1>8
  <1> HIDE DEF st
  <1>11. PieceOK(t, sz) /\ (Ends(t, sz) <=> n = SizeOf(p))
    <2>1. Ends(t, sz) <=> n = SizeOf(p)
      BY <1>2, <1>5, <1>7 DEF Ends
    <2> QED
      BY <1>2, <1>5, <1>6, <1>7, <1>9, <1>10, <2>1 DEF PieceOK, Ends
  <1>12. n = SizeOf(p) => GivenBack(p, n) = << >>
    BY DEF GivenBack
  <1>13. ASSUME n # SizeOf(p)
         PROVE  /\ GivenBack(p, n) = <<g>>
                /\ PieceOK(g, sz) /\ Ends(g, sz)
                /\ g.sdu = p.sdu /\ g.from = t.to + 1
    <2>1. GivenBack(p, n) = <<g>>
      BY <1>13 DEF GivenBack
    <2>2. /\ g.sdu = p.sdu /\ g.from = p.from + n /\ g.to = p.to /\ g.status = "LAST_SEGMENT"
          /\ g \in Segment
      <3>1. p.from + n \in Nat
        BY <1>1, <1>3
      <3> QED
        BY <1>1, <3>1 DEF Piece, Segment
    <2> HIDE DEF g
    <2>3. g.from # 1 /\ g.from <= g.to /\ 1 <= g.from /\ g.from = t.to + 1
      <3>1. n # p.to - p.from + 1
        BY <1>13 DEF SizeOf
      <3>2. /\ p.from + n # 1 /\ p.from + n <= p.to /\ 1 <= p.from + n
            /\ p.from + n = (p.from + n - 1) + 1
        BY <1>6a, <3>1, Zenon
      <3> QED
        BY <1>5, <2>2, <3>2
    <2>4. Ends(g, sz)
      BY <1>2, <2>2 DEF Ends
    <2>5. PieceOK(g, sz)
      BY <1>1, <1>2, <2>2, <2>3 DEF PieceOK
    <2> QED
      BY <2>1, <2>2, <2>3, <2>4, <2>5 DEF g
  <1> QED
    BY <1>5, <1>11, <1>12, <1>13 DEF t

\* Sequences with one more element.
LEMMA AppendIs ==
    ASSUME NEW S, NEW s \in Seq(S), NEW x \in S
    PROVE  /\ Append(s, x) \in Seq(S) /\ Append(s, x) # << >>
           /\ Len(s) \in Nat /\ Len(Append(s, x)) = Len(s) + 1
           /\ Append(s, x)[Len(s) + 1] = x
           /\ \A i \in 1 .. Len(s) : Append(s, x)[i] = s[i] /\ i \in 1 .. Len(s) + 1
  OBVIOUS

LEMMA ConsIs ==
    ASSUME NEW S, NEW s \in Seq(S), NEW x \in S
    PROVE  /\ <<x>> \o s \in Seq(S) /\ <<x>> \o s # << >>
           /\ Len(s) \in Nat /\ Len(<<x>> \o s) = Len(s) + 1
           /\ (<<x>> \o s)[1] = x
           /\ \A i \in 2 .. Len(s) + 1 : (<<x>> \o s)[i] = s[i - 1] /\ i - 1 \in 1 .. Len(s)
  <1>1. <<x>> \in Seq(S) /\ Len(<<x>>) = 1 /\ <<x>>[1] = x /\ Len(s) \in Nat
    OBVIOUS
  <1>2. /\ <<x>> \o s \in Seq(S) /\ Len(<<x>> \o s) = 1 + Len(s)
        /\ \A i \in 1 .. 1 + Len(s) : (<<x>> \o s)[i] = IF i <= 1 THEN <<x>>[i] ELSE s[i - 1]
    BY <1>1, ConcatProperties
  <1>3. 1 \in 1 .. 1 + Len(s) /\ 1 <= 1
    BY <1>1
  <1>4. (<<x>> \o s)[1] = x
    BY <1>1, <1>2, <1>3
  <1>5. \A i \in 2 .. Len(s) + 1 : i \in 1 .. 1 + Len(s) /\ ~(i <= 1) /\ i - 1 \in 1 .. Len(s)
    BY <1>1
  <1>6. <<x>> \o s # << >>
    BY <1>1, <1>2, EmptySeq
  <1>7. Len(<<x>> \o s) = Len(s) + 1
    BY <1>1, <1>2
  <1> QED
    BY <1>1, <1>2, <1>4, <1>5, <1>6, <1>7

IsSplit(data, left, tx, k, n) ==
    /\ data = Append(SubSeq(tx, 1, k - 1), Taken(tx[k], n))
    /\ left = GivenBack(tx[k], n) \o SubSeq(tx, k + 1, Len(tx))

\* What the first k pieces of the transmission buffer become when n octets of
\* piece k are taken.
LEMMA SplitIs ==
    ASSUME NEW sz \in Seq(Nat \ {0}), NEW tx, TxOK(tx, sz),
           NEW k \in 1 .. Len(tx), NEW n \in 1 .. SizeOf(tx[k]),
           NEW data, NEW left, IsSplit(data, left, tx, k, n)
    PROVE  /\ ListOK(data, sz) /\ Len(data) = k
           /\ \A i \in 1 .. k : data[i].sdu = tx[i].sdu /\ data[i].from = tx[i].from
           /\ TxOK(left, sz)
           /\ \A j \in 1 .. Len(left) : \E m \in k .. Len(tx) :
                  left[j].sdu = tx[m].sdu /\ (m = k => ~Ends(data[k], sz))
           /\ ~Ends(data[k], sz) => /\ left # << >>
                                    /\ left[1].sdu = data[k].sdu
                                    /\ left[1].from = data[k].to + 1
  <1>1. tx \in Seq(Segment) /\ Len(tx) \in Nat /\ k \in Nat /\ k >= 1 /\ k <= Len(tx)
    <2>1. tx \in Seq(Segment)
      BY DEF TxOK, ListOK
    <2>2. Len(tx) \in Nat
      BY <2>1, LenProperties
    <2> QED
      BY <2>1, <2>2
  <1>2. \A i \in 1 .. Len(tx) : /\ tx[i] \in Segment /\ PieceOK(tx[i], sz) /\ Ends(tx[i], sz)
                                /\ tx[i].sdu \in Nat
                                /\ i > 1 => tx[i].from = 1
                                /\ \A j \in 1 .. Len(tx) : i < j => tx[i].sdu < tx[j].sdu
    BY DEF TxOK, ListOK, PieceOK, Segment
  <1> DEFINE p == tx[k]
             t == Taken(p, n)
             a == SubSeq(tx, 1, k - 1)
             b == SubSeq(tx, k + 1, Len(tx))
  <1>3. /\ a \in Seq(Segment) /\ Len(a) = k - 1
        /\ \A i \in 1 .. k - 1 : a[i] = tx[i] /\ i \in 1 .. Len(tx)
    <2>1. \A i \in 1 .. k - 1 : tx[i] \in Segment /\ i \in 1 .. Len(tx)
      BY <1>1, <1>2
    <2>2. k - 1 \in Int /\ 1 \in Int /\ (k - 1) - 1 + 1 = k - 1
      BY <1>1
    <2>3. /\ a \in Seq(Segment) /\ Len(a) = IF 1 <= k - 1 THEN (k - 1) - 1 + 1 ELSE 0
          /\ \A i \in 1 .. (k - 1) - 1 + 1 : a[i] = tx[1 + i - 1]
      BY <2>1, <2>2, SubSeqProperties
    <2> HIDE DEF a
    <2>4. Len(a) = k - 1
      BY <1>1, <2>3
    <2>5. \A i \in 1 .. k - 1 : 1 + i - 1 = i
      BY <1>1
    <2> QED
      BY <2>1, <2>2, <2>3, <2>4, <2>5
  <1>4. /\ b \in Seq(Segment) /\ Len(b) = Len(tx) - k
        /\ \A i \in 1 .. Len(tx) - k : b[i] = tx[k + i] /\ k + i \in 1 .. Len(tx)
    <2>1. \A i \in k + 1 .. Len(tx) : tx[i] \in Segment
      BY <1>1, <1>2
    <2>2. k + 1 \in Int /\ Len(tx) - (k + 1) + 1 = Len(tx) - k
      BY <1>1
    <2>3. /\ b \in Seq(Segment) /\ Len(b) = IF k + 1 <= Len(tx) THEN Len(tx) - (k + 1) + 1 ELSE 0
          /\ \A i \in 1 .. Len(tx) - (k + 1) + 1 : b[i] = tx[(k + 1) + i - 1]
      BY <1>1, <2>1, <2>2, SubSeqProperties
    <2> HIDE DEF b
    <2>4. Len(b) = Len(tx) - k
      BY <1>1, <2>3
    <2>5. \A i \in 1 .. Len(tx) - k : (k + 1) + i - 1 = k + i /\ k + i \in 1 .. Len(tx)
      BY <1>1
    <2> QED
      BY <2>2, <2>3, <2>4, <2>5
  <1>5. /\ PieceOK(t, sz) /\ t.sdu = p.sdu /\ t.from = p.from
        /\ Ends(t, sz) <=> n = SizeOf(p)
        /\ n = SizeOf(p) => GivenBack(p, n) = << >>
        /\ n # SizeOf(p) => \E g : /\ GivenBack(p, n) = <<g>>
                                   /\ PieceOK(g, sz) /\ Ends(g, sz)
                                   /\ g.sdu = p.sdu /\ g.from = t.to + 1
    BY <1>2, CutPiece
  <1>6. t \in Segment /\ left = GivenBack(p, n) \o b /\ data = Append(a, t)
    BY <1>5 DEF PieceOK, IsSplit
  <1> HIDE DEF t, a, b
  <1>7. /\ data \in Seq(Segment) /\ Len(data) = k /\ data[k] = t
        /\ \A i \in 1 .. k - 1 : data[i] = tx[i]
    <2>1. k - 1 + 1 = k
      BY <1>1
    <2> QED
      BY <1>3, <1>6, <2>1, AppendIs
  <1>8. \A i \in 1 .. k : i \in 1 .. Len(tx) /\ (i = k \/ i \in 1 .. k - 1)
    BY <1>1
  <1>9. \A i \in 1 .. k : data[i].sdu = tx[i].sdu /\ data[i].from = tx[i].from
    BY <1>5, <1>7, <1>8
  <1>10. ListOK(data, sz)
    <2>1. \A i \in 1 .. k : PieceOK(data[i], sz)
      BY <1>2, <1>5, <1>7, <1>8
    <2>2. \A i \in 1 .. k : i > 1 => data[i].from = 1
      BY <1>2, <1>8, <1>9
    <2>3. \A i, j \in 1 .. k : i < j => data[i].sdu < data[j].sdu /\ Ends(data[i], sz)
      <3> TAKE i, j \in 1 .. k
      <3> HAVE i < j
      <3>1. i \in 1 .. k - 1 /\ i \in 1 .. Len(tx) /\ j \in 1 .. Len(tx)
        BY <1>1
      <3> QED
        BY <1>2, <1>7, <1>9, <3>1
    <2> QED
      BY <1>7, <2>1, <2>2, <2>3 DEF ListOK
  <1>11. CASE n = SizeOf(p)
    <2>1. left = b
      BY <1>4, <1>5, <1>6, <1>11, ConcatEmptySeq
    <2>2. Ends(data[k], sz)
      BY <1>5, <1>7, <1>11
    <2>3. \A i \in 1 .. Len(left) : left[i] = tx[k + i] /\ k + i \in 1 .. Len(tx) /\ k + i \in k .. Len(tx)
                                    /\ k + i > k /\ k + i > 1
      <3>1. Len(left) = Len(tx) - k
        BY <1>4, <2>1
      <3>2. \A i \in 1 .. Len(tx) - k : k + i \in k .. Len(tx) /\ k + i > k /\ k + i > 1
        BY <1>1
      <3> QED
        BY <1>4, <2>1, <3>1, <3>2
    <2>4. TxOK(left, sz)
      <3>1. \A i, j \in 1 .. Len(left) : i < j => k + i < k + j
        BY <1>1
      <3>2. \A i, j \in 1 .. Len(left) : i < j => left[i].sdu < left[j].sdu
        BY <1>2, <2>3, <3>1
      <3>3. \A i \in 1 .. Len(left) : PieceOK(left[i], sz) /\ Ends(left[i], sz) /\ left[i].from = 1
        BY <1>2, <2>3
      <3> QED
        BY <1>4, <2>1, <3>2, <3>3 DEF TxOK, ListOK
    <2>5. \A i \in 1 .. Len(left) : k + i # k
      BY <1>1
    <2> QED
      BY <1>7, <1>9, <1>10, <2>2, <2>3, <2>4, <2>5
  <1>12. CASE n # SizeOf(p)
    <2>1. PICK g : /\ GivenBack(p, n) = <<g>>
                   /\ PieceOK(g, sz) /\ Ends(g, sz)
                   /\ g.sdu = p.sdu /\ g.from = t.to + 1
      BY <1>5, <1>12
    <2>2. g \in Segment /\ left = <<g>> \o b
      BY <1>6, <2>1 DEF PieceOK
    <2>3. /\ left \in Seq(Segment) /\ Len(left) = Len(tx) - k + 1 /\ left[1] = g /\ left # << >>
          /\ \A i \in 2 .. Len(left) : left[i] = b[i - 1]
      BY <1>4, <2>2, ConsIs
    <2>3a. Len(left) \in Nat
      BY <1>1, <2>3
    <2>4. \A i \in 2 .. Len(left) : i - 1 \in 1 .. Len(tx) - k
                                    /\ k + (i - 1) \in k .. Len(tx) /\ k + (i - 1) # k
                                    /\ k + (i - 1) > 1 /\ k < k + (i - 1)
      <3>1. \A i \in 2 .. Len(tx) - k + 1 :
                i - 1 \in 1 .. Len(tx) - k /\ k + (i - 1) \in k .. Len(tx)
                /\ k + (i - 1) # k /\ k + (i - 1) > 1 /\ k < k + (i - 1)
        BY <1>1
      <3> QED
        BY <2>3, <3>1
    <2>5. \A i \in 2 .. Len(left) : left[i] = tx[k + (i - 1)] /\ k + (i - 1) \in 1 .. Len(tx)
      BY <1>4, <2>3, <2>4
    <2>6. \A i \in 1 .. Len(left) : i = 1 \/ i \in 2 .. Len(left)
      BY <2>3a
    <2>7. TxOK(left, sz)
      <3>1. \A i \in 1 .. Len(left) : PieceOK(left[i], sz) /\ Ends(left[i], sz)
        BY <1>2, <2>1, <2>3, <2>5, <2>6
      <3>2. \A i \in 2 .. Len(left) : left[i].from = 1 /\ left[1].sdu < left[i].sdu
        <4> TAKE i \in 2 .. Len(left)
        <4>1. PICK m \in 1 .. Len(tx) : m = k + (i - 1) /\ left[i] = tx[m]
          BY <2>5
        <4>2. m > 1 /\ k < m
          BY <2>4, <4>1
        <4>3. tx[k].sdu < tx[m].sdu /\ tx[m].from = 1
          BY <1>2, <4>2
        <4> QED
          BY <2>1, <2>3, <4>1, <4>3
      <3>3. \A i, j \in 2 .. Len(left) : i < j => left[i].sdu < left[j].sdu
        <4>1. \A i, j \in 2 .. Len(left) : i < j => k + (i - 1) < k + (j - 1)
          BY <1>1, <2>3
        <4> QED
          BY <1>2, <2>5, <4>1
      <3>4. \A i, j \in 1 .. Len(left) : i < j => left[i].sdu < left[j].sdu
        <4>1. \A i, j \in 1 .. Len(left) : i < j => j \in 2 .. Len(left)
          BY <2>3a
        <4> QED
          BY <2>6, <3>2, <3>3, <4>1
      <3>5. \A i \in 1 .. Len(left) : i > 1 => left[i].from = 1
        BY <2>6, <3>2, <2>3a
      <3> QED
        BY <2>3, <3>1, <3>4, <3>5 DEF TxOK, ListOK
    <2>8. ~Ends(data[k], sz)
      BY <1>5, <1>7, <1>12
    <2>9. k \in k .. Len(tx) /\ left[1].sdu = tx[k].sdu
      BY <1>1, <2>1, <2>3
    <2>10. \A j \in 1 .. Len(left) : \E m \in k .. Len(tx) : left[j].sdu = tx[m].sdu
      BY <2>4, <2>5, <2>6, <2>9
    <2>11. left[1].sdu = data[k].sdu /\ left[1].from = data[k].to + 1
      BY <1>5, <1>7, <2>1, <2>3
    <2> QED
      BY <1>7, <1>9, <1>10, <2>3, <2>7, <2>8, <2>10, <2>11
  <1> QED
    BY <1>11, <1>12

\* The record of PDUs with one more.
Recorded(P, N, data) == [n \in 0 .. N |-> IF n = N THEN Pdu(N, data) ELSE P[n]]

\* A PDU is built: what was sent and what will be sent are still one stream.
LEMMA SentPdu ==
    ASSUME NEW P, NEW N, NEW tx, NEW sz, SentOK(P, N, tx, sz),
           NEW bytes \in Nat, bytes > 2, tx # << >>,
           NEW data, NEW left, DataField(tx, bytes) = [data |-> data, left |-> left]
    PROVE  LET Q == Recorded(P, N, data) IN
           /\ SentOK(Q, N + 1, left, sz)
           /\ \A r, e, l : e \in 0 .. N /\ ReassemblyOK(r, e, l, P, N, tx, sz)
                               => ReassemblyOK(r, e, l, Q, N + 1, left, sz)
  <1> DEFINE Q == Recorded(P, N, data)
  <1>1. sz \in Seq(Nat \ {0}) /\ N \in Nat /\ TxOK(tx, sz) /\ tx \in Seq(Segment)
    BY DEF SentOK, TxOK, ListOK
  <1>2. \A i \in 1 .. Len(tx) : PieceOK(tx[i], sz) /\ Ends(tx[i], sz) /\ tx[i].from <= tx[i].to
                                /\ tx[i].sdu \in Nat
    BY DEF SentOK, TxOK, ListOK, PieceOK, Segment
  <1>3. PICK k \in 1 .. Len(tx) : \E n \in 1 .. SizeOf(tx[k]) :
               DataField(tx, bytes) =
                   [data |-> Append(SubSeq(tx, 1, k - 1), Taken(tx[k], n)),
                    left |-> GivenBack(tx[k], n) \o SubSeq(tx, k + 1, Len(tx))]
    BY <1>1, <1>2, DataFieldIs
  <1>4. PICK n \in 1 .. SizeOf(tx[k]) :
               DataField(tx, bytes) =
                   [data |-> Append(SubSeq(tx, 1, k - 1), Taken(tx[k], n)),
                    left |-> GivenBack(tx[k], n) \o SubSeq(tx, k + 1, Len(tx))]
    BY <1>3
  <1>5. IsSplit(data, left, tx, k, n)
    <2> DEFINE x == GivenBack(tx[k], n) \o SubSeq(tx, k + 1, Len(tx))
               y == Append(SubSeq(tx, 1, k - 1), Taken(tx[k], n))
    <2>1. DataField(tx, bytes) = [data |-> y, left |-> x]
      BY <1>4
    <2> HIDE DEF x, y
    <2>2. y = data /\ x = left
      BY <2>1
    <2> QED
      BY <2>2 DEF x, y, IsSplit
  <1>7. /\ ListOK(data, sz) /\ Len(data) = k
        /\ \A i \in 1 .. k : data[i].sdu = tx[i].sdu /\ data[i].from = tx[i].from
        /\ TxOK(left, sz)
        /\ \A j \in 1 .. Len(left) : \E m \in k .. Len(tx) :
               left[j].sdu = tx[m].sdu /\ (m = k => ~Ends(data[k], sz))
        /\ ~Ends(data[k], sz) => /\ left # << >>
                                 /\ left[1].sdu = data[k].sdu
                                 /\ left[1].from = data[k].to + 1
    BY <1>1, <1>5, SplitIs
  <1>8. Len(tx) \in Nat /\ k \in Nat /\ 1 <= k /\ k <= Len(tx) /\ 1 \in 1 .. k /\ k \in 1 .. k
    <2>1. Len(tx) \in Nat
      BY <1>1, LenProperties
    <2> QED
      BY <2>1
  <1>9. data \in Seq(Segment) /\ data # << >>
    <2>1. data \in Seq(Segment)
      BY <1>7 DEF ListOK
    <2> QED
      BY <1>7, <1>8, <2>1, EmptySeq
  <1>10. Q[N] = Pdu(N, data) /\ \A i \in 0 .. N - 1 : Q[i] = P[i]
    BY <1>1 DEF Recorded
  <1> HIDE DEF Q
  <1>11. Q[N].data = data /\ PduOK(Q[N], N, sz) /\ (Q[N].last <=> Ends(data[k], sz))
    <2>1. /\ Q[N].n = N /\ Q[N].sn = N % SnMod /\ Q[N].data = data
          /\ Q[N].first = (data[1].status \in {"FULL_SDU", "FIRST_SEGMENT"})
          /\ Q[N].last = (data[Len(data)].status \in {"FULL_SDU", "LAST_SEGMENT"})
      BY <1>10 DEF Pdu, Last
    <2>2. PieceOK(data[1], sz) /\ PieceOK(data[k], sz)
      BY <1>7, <1>8 DEF ListOK
    <2>3. (data[1].status \in {"FULL_SDU", "FIRST_SEGMENT"}) <=> data[1].from = 1
      BY <2>2 DEF PieceOK
    <2>4. (data[k].status \in {"FULL_SDU", "LAST_SEGMENT"}) <=> Ends(data[k], sz)
      BY <2>2 DEF PieceOK, Ends
    <2>5. (Q[N].first <=> data[1].from = 1) /\ (Q[N].last <=> Ends(data[k], sz))
      BY <1>7, <2>1, <2>3, <2>4
    <2> QED
      BY <1>7, <1>9, <2>1, <2>5 DEF PduOK
  <1>12. \A m \in 0 .. (N + 1) - 1 : m = N \/ m \in 0 .. N - 1
    BY <1>1
  <1>13. \A i \in 1 .. k : i \in 1 .. Len(tx) /\ data[i].sdu = tx[i].sdu
    BY <1>7, <1>8
  <1>14. \A j \in 1 .. Len(left) : \E m \in 1 .. Len(tx) :
             m >= k /\ left[j].sdu = tx[m].sdu /\ (m = k => ~Ends(data[k], sz))
    <2>1. \A m \in k .. Len(tx) : m \in 1 .. Len(tx) /\ m >= k
      BY <1>8
    <2> QED
      BY <1>7, <2>1
  <1>15. data[1].sdu = tx[1].sdu /\ data[1].from = tx[1].from
    BY <1>7, <1>8
  <1> HIDE DEF Recorded
  <1>16. SentOK(Q, N + 1, left, sz)
    <2>1. \A m \in 0 .. (N + 1) - 1 : PduOK(Q[m], m, sz)
      BY <1>10, <1>11, <1>12 DEF SentOK
    <2>2. \A m \in 0 .. (N + 1) - 1 : ~Q[m].last =>
              GoesOn(Q, m + 1, Q[m].data[Len(Q[m].data)].sdu,
                     Q[m].data[Len(Q[m].data)].to + 1, N + 1, left)
      <3> TAKE m \in 0 .. (N + 1) - 1
      <3> HAVE ~Q[m].last
      <3>1. CASE m = N
        <4>1. ~Ends(data[k], sz) /\ Q[m].data[Len(Q[m].data)] = data[k]
          BY <1>7, <1>11, <3>1
        <4>2. ~(N + 1 < N + 1)
          BY <1>1
        <4> QED
          BY <1>7, <3>1, <4>1, <4>2 DEF GoesOn
      <3>2. CASE m \in 0 .. N - 1
        <4>1. GoesOn(P, m + 1, P[m].data[Len(P[m].data)].sdu,
                     P[m].data[Len(P[m].data)].to + 1, N, tx) /\ Q[m] = P[m]
          BY <1>10, <3>2 DEF SentOK
        <4>2. CASE m + 1 = N
          <5>1. m + 1 >= N /\ m + 1 < N + 1
            BY <1>1, <4>2
          <5> QED
            BY <1>1, <1>11, <1>15, <4>1, <4>2, <5>1 DEF GoesOn
        <4>3. CASE m + 1 # N
          <5>1. m + 1 < N /\ m + 1 < N + 1 /\ m + 1 \in 0 .. N - 1 /\ ~(m + 1 >= N + 1)
            BY <1>1, <3>2, <4>3
          <5> QED
            BY <1>10, <4>1, <5>1 DEF GoesOn
        <4> QED
          BY <4>2, <4>3
      <3> QED
        BY <1>12, <3>1, <3>2
    <2>3. \A m \in 0 .. N - 1 : \A i \in 1 .. Len(P[m].data), j \in 1 .. k :
              Before(P[m].data[i], data[j], sz)
      BY <1>13 DEF SentOK, Before
    <2>4. \A m, q \in 0 .. (N + 1) - 1 : m < q =>
              \A i \in 1 .. Len(Q[m].data), j \in 1 .. Len(Q[q].data) :
                  Before(Q[m].data[i], Q[q].data[j], sz)
      <3> TAKE m, q \in 0 .. (N + 1) - 1
      <3> HAVE m < q
      <3>1. m \in 0 .. N - 1 /\ Q[m] = P[m]
        BY <1>1, <1>10
      <3>2. CASE q = N
        BY <1>7, <1>11, <2>3, <3>1, <3>2
      <3>3. CASE q \in 0 .. N - 1
        BY <1>10, <3>1, <3>3 DEF SentOK
      <3> QED
        BY <1>12, <3>2, <3>3
    <2>5. \A m \in 0 .. N - 1 : \A i \in 1 .. Len(P[m].data), j \in 1 .. Len(left) :
              Before(P[m].data[i], left[j], sz)
      BY <1>14 DEF SentOK, Before
    <2>6. \A i \in 1 .. k, j \in 1 .. Len(left) : Before(data[i], left[j], sz)
      <3> TAKE i \in 1 .. k, j \in 1 .. Len(left)
      <3>1. PICK m \in 1 .. Len(tx) :
                m >= k /\ left[j].sdu = tx[m].sdu /\ (m = k => ~Ends(data[k], sz))
        BY <1>14
      <3>2. i \in 1 .. Len(tx) /\ data[i].sdu = tx[i].sdu /\ tx[i].sdu \in Nat /\ tx[m].sdu \in Nat
        BY <1>2, <1>13
      <3>3. CASE i = m
        <4>1. i = k
          BY <1>8, <3>1, <3>3
        <4> QED
          BY <3>1, <3>2, <3>3, <4>1 DEF Before
      <3>4. CASE i # m
        <4>1. i < m
          BY <1>8, <3>1, <3>4
        <4>2. tx[i].sdu < tx[m].sdu
          BY <1>1, <3>1, <3>2, <4>1 DEF TxOK, ListOK
        <4> QED
          BY <3>1, <3>2, <4>2 DEF Before
      <3> QED
        BY <3>3, <3>4
    <2>7. \A m \in 0 .. (N + 1) - 1 :
              \A i \in 1 .. Len(Q[m].data), j \in 1 .. Len(left) :
                  Before(Q[m].data[i], left[j], sz)
      BY <1>7, <1>10, <1>11, <1>12, <2>5, <2>6
    <2>8. N + 1 \in Nat
      BY <1>1
    <2> QED
      BY <1>1, <1>7, <2>1, <2>2, <2>4, <2>7, <2>8 DEF SentOK
  <1>17. ASSUME NEW r, NEW e \in 0 .. N, NEW l, ReassemblyOK(r, e, l, P, N, tx, sz)
         PROVE  ReassemblyOK(r, e, l, Q, N + 1, left, sz)
    <2>1. \A i \in 1 .. Len(tx) : l < tx[i].sdu
      BY <1>17 DEF ReassemblyOK
    <2>2. \A i \in 1 .. Len(left) : l < left[i].sdu
      BY <1>14, <2>1
    <2>3. \A m \in e .. (N + 1) - 1 : m = N \/ (m \in e .. N - 1 /\ m \in 0 .. N - 1)
      BY <1>1
    <2>4. \A m \in e .. (N + 1) - 1 : \A i \in 1 .. Len(Q[m].data) : l < Q[m].data[i].sdu
      <3> TAKE m \in e .. (N + 1) - 1
      <3>1. CASE m = N
        BY <1>7, <1>11, <1>13, <2>1, <3>1
      <3>2. CASE m \in e .. N - 1 /\ m \in 0 .. N - 1
        BY <1>10, <1>17, <3>2 DEF ReassemblyOK
      <3> QED
        BY <2>3, <3>1, <3>2
    <2>5. ASSUME NEW s, NEW o, GoesOn(P, e, s, o, N, tx)
          PROVE  GoesOn(Q, e, s, o, N + 1, left)
      <3>1. CASE e = N
        <4>1. e >= N /\ e < N + 1 /\ ~(e >= N + 1)
          BY <1>1, <3>1
        <4> QED
          BY <1>11, <1>15, <2>5, <3>1, <4>1 DEF GoesOn
      <3>2. CASE e # N
        <4>1. e < N /\ e \in 0 .. N - 1 /\ ~(e >= N + 1)
          BY <1>1, <3>2
        <4> QED
          BY <1>10, <2>5, <4>1 DEF GoesOn
      <3> QED
        BY <3>1, <3>2
    <2> QED
      BY <1>17, <2>2, <2>4, <2>5 DEF ReassemblyOK
  <1> QED
    BY <1>16, <1>17 DEF Q

-----------------------------------------------------------------------------
(* Reassembly                                                               *)

\* The beginnings of SDUs that a PDU with the pieces d leads to.
RestOK(rest, d, l, sz) ==
    /\ rest \in Seq(Seq(Segment))
    /\ \A i \in 1 .. Len(rest) : Chain(rest[i], sz) /\ l < rest[i][1].sdu
    /\ \A i, j \in 1 .. Len(rest) : i < j => rest[i][1].sdu < rest[j][1].sdu /\ Whole(rest[i], sz)
    /\ rest # << >> => /\ rest[Len(rest)][1].sdu = d[Len(d)].sdu
                       /\ rest[Len(rest)][Len(rest[Len(rest)])] = d[Len(d)]

LEMMA SingleChain ==
    ASSUME NEW p, NEW sz, PieceOK(p, sz), p.from = 1
    PROVE  /\ Chain(<<p>>, sz) /\ <<p>>[1] = p /\ Len(<<p>>) = 1 /\ <<p>> \in Seq(Segment)
           /\ Whole(<<p>>, sz) <=> Ends(p, sz)
  <1>1. p \in Segment /\ p.sdu \in 1 .. Len(sz)
    BY DEF PieceOK
  <1>2. <<p>>[1] = p /\ Len(<<p>>) = 1 /\ <<p>> \in Seq(Segment) /\ <<p>> # << >>
    BY <1>1
  <1>3. \A i \in 1 .. Len(<<p>>) : i = 1
    BY <1>2
  <1>4. \A i \in 1 .. Len(<<p>>) - 1 : FALSE
    BY <1>2
  <1>5. Chain(<<p>>, sz)
    BY <1>1, <1>2, <1>3, <1>4 DEF Chain
  <1> QED
    BY <1>2, <1>5 DEF Whole, Ends

\* The first of them is c, which ends with the first piece of the PDU.
LEMMA RestWithFirst ==
    ASSUME NEW d, NEW sz, ListOK(d, sz), d # << >>, NEW l, \A i \in 1 .. Len(d) : l < d[i].sdu,
           NEW c, Chain(c, sz), c[1].sdu = d[1].sdu, c[Len(c)] = d[1],
           NEW rest \in Seq(Seq(Segment)), Len(rest) = Len(d), rest[1] = c,
           \A i \in 2 .. Len(d) : rest[i] = <<d[i]>>
    PROVE  RestOK(rest, d, l, sz) /\ rest # << >>
  <1>1. Len(d) \in Nat /\ Len(d) >= 1
    <2>1. d \in Seq(Segment)
      BY DEF ListOK
    <2> QED
      BY <2>1, EmptySeq
  <1>2. \A i \in 1 .. Len(d) : i = 1 \/ (i \in 2 .. Len(d) /\ i > 1)
    BY <1>1
  <1>3. \A i \in 1 .. Len(d) : PieceOK(d[i], sz) /\ (i > 1 => d[i].from = 1)
    BY DEF ListOK
  <1>4. \A i \in 2 .. Len(d) : /\ Chain(<<d[i]>>, sz) /\ <<d[i]>>[1] = d[i] /\ Len(<<d[i]>>) = 1
                               /\ Whole(<<d[i]>>, sz) <=> Ends(d[i], sz)
    <2> TAKE i \in 2 .. Len(d)
    <2>1. i \in 1 .. Len(d) /\ i > 1
      BY <1>1
    <2> QED
      BY <1>3, <2>1, SingleChain
  <1>5. \A i \in 2 .. Len(d) : /\ Chain(rest[i], sz) /\ rest[i][1] = d[i] /\ Len(rest[i]) = 1
                               /\ Whole(rest[i], sz) <=> Ends(d[i], sz)
    BY <1>4
  <1>6. \A i \in 1 .. Len(d) : rest[i][1].sdu = d[i].sdu /\ rest[i][Len(rest[i])] = d[i] /\ Chain(rest[i], sz)
    BY <1>2, <1>5
  <1>7. \A i \in 1 .. Len(d) : Ends(d[i], sz) => Whole(rest[i], sz)
    BY <1>6 DEF Ends, Whole
  <1>8. \A i, j \in 1 .. Len(d) : i < j => d[i].sdu < d[j].sdu /\ Ends(d[i], sz)
    BY DEF ListOK
  <1>9. Len(d) \in 1 .. Len(d) /\ rest # << >>
    <2>1. rest # << >>
      BY <1>1, EmptySeq
    <2> QED
      BY <1>1, <2>1
  <1>10. \A i \in 1 .. Len(rest) : Chain(rest[i], sz) /\ l < rest[i][1].sdu
    BY <1>6
  <1>11. \A i, j \in 1 .. Len(rest) : i < j => rest[i][1].sdu < rest[j][1].sdu /\ Whole(rest[i], sz)
    <2> TAKE i, j \in 1 .. Len(rest)
    <2> HAVE i < j
    <2>1. d[i].sdu < d[j].sdu /\ Ends(d[i], sz)
      BY <1>8
    <2>2. rest[i][1].sdu = d[i].sdu /\ rest[j][1].sdu = d[j].sdu
      BY <1>6
    <2>3. Whole(rest[i], sz)
      BY <1>7, <2>1
    <2> QED
      BY <2>1, <2>2, <2>3
  <1>12. /\ rest[Len(rest)][1].sdu = d[Len(d)].sdu
         /\ rest[Len(rest)][Len(rest[Len(rest)])] = d[Len(d)]
    BY <1>6, <1>9
  <1> QED
    BY <1>9, <1>10, <1>11, <1>12 DEF RestOK

\* The first piece is dropped.
LEMMA RestWithoutFirst ==
    ASSUME NEW d, NEW sz, ListOK(d, sz), d # << >>, NEW l, \A i \in 1 .. Len(d) : l < d[i].sdu,
           NEW rest \in Seq(Seq(Segment)), Len(rest) = Len(d) - 1,
           \A i \in 1 .. Len(d) - 1 : rest[i] = <<d[i + 1]>>
    PROVE  RestOK(rest, d, l, sz)
  <1>1. Len(d) \in Nat /\ Len(d) >= 1
    <2>1. d \in Seq(Segment)
      BY DEF ListOK
    <2> QED
      BY <2>1, EmptySeq
  <1>2. \A i \in 1 .. Len(d) - 1 : i + 1 \in 1 .. Len(d) /\ i + 1 > 1
    BY <1>1
  <1>3. \A i \in 1 .. Len(d) - 1 : PieceOK(d[i + 1], sz) /\ d[i + 1].from = 1
    BY <1>2 DEF ListOK
  <1>4. \A i \in 1 .. Len(d) - 1 : /\ Chain(<<d[i + 1]>>, sz) /\ <<d[i + 1]>>[1] = d[i + 1]
                                   /\ Len(<<d[i + 1]>>) = 1
                                   /\ Whole(<<d[i + 1]>>, sz) <=> Ends(d[i + 1], sz)
    BY <1>3, SingleChain
  <1>5. \A i \in 1 .. Len(d) - 1 : /\ Chain(rest[i], sz) /\ rest[i][1] = d[i + 1]
                                   /\ Len(rest[i]) = 1 /\ l < rest[i][1].sdu
                                   /\ Whole(rest[i], sz) <=> Ends(d[i + 1], sz)
    BY <1>2, <1>4
  <1>6. \A i, j \in 1 .. Len(d) - 1 : i < j => d[i + 1].sdu < d[j + 1].sdu /\ Ends(d[i + 1], sz)
    <2> TAKE i, j \in 1 .. Len(d) - 1
    <2> HAVE i < j
    <2>1. i + 1 < j + 1
      BY <1>1
    <2> QED
      BY <1>2, <2>1 DEF ListOK
  <1>7. rest # << >> => Len(rest) \in 1 .. Len(d) - 1 /\ Len(rest) + 1 = Len(d)
    <2>1. rest # << >> => Len(rest) \in Nat \ {0}
      BY EmptySeq
    <2> QED
      BY <1>1, <2>1
  <1>8. rest # << >> => /\ rest[Len(rest)][1] = d[Len(d)]
                        /\ rest[Len(rest)][Len(rest[Len(rest)])] = d[Len(d)]
    <2> SUFFICES ASSUME rest # << >>
                 PROVE  /\ rest[Len(rest)][1] = d[Len(d)]
                        /\ rest[Len(rest)][Len(rest[Len(rest)])] = d[Len(d)]
      OBVIOUS
    <2>1. PICK i \in 1 .. Len(d) - 1 : i = Len(rest) /\ i + 1 = Len(d)
      BY <1>7
    <2>2. rest[i][1] = d[i + 1] /\ Len(rest[i]) = 1
      BY <1>5
    <2>3. rest[i][Len(rest[i])] = d[i + 1]
      BY <2>2
    <2> DEFINE x == rest[Len(rest)]
               y == d[Len(d)]
    <2>4. x = rest[i] /\ y = d[i + 1]
      BY <2>1
    <2>5. x[1] = y /\ x[Len(x)] = y
      <3> HIDE DEF x, y
      <3> QED
        BY <2>2, <2>3, <2>4
    <2> QED
      BY <2>5, Zenon
  <1>9. 1 .. Len(rest) = 1 .. Len(d) - 1
    OBVIOUS
  <1>10. \A i \in 1 .. Len(d) - 1 : Chain(rest[i], sz) /\ l < rest[i][1].sdu
    BY <1>5
  <1>11. \A i, j \in 1 .. Len(d) - 1 :
             i < j => rest[i][1].sdu < rest[j][1].sdu /\ Whole(rest[i], sz)
    BY <1>5, <1>6
  <1> QED
    BY <1>8, <1>9, <1>10, <1>11, Zenon DEF RestOK

\* More SDUs are delivered.
LEMMA UpExtends ==
    ASSUME NEW up, NEW l0 \in Nat, NEW sz \in Seq(Nat \ {0}), UpOK(up, l0, sz),
           NEW add, UpOK(add, LastOf(up, l0), sz)
    PROVE  /\ UpOK(up \o add, l0, sz)
           /\ LastOf(up \o add, l0) = LastOf(add, LastOf(up, l0))
  <1> DEFINE l == LastOf(up, l0)
             all == up \o add
  <1>1. up \in Seq(Seq(Segment)) /\ add \in Seq(Seq(Segment)) /\ Len(up) \in Nat /\ Len(add) \in Nat
    BY DEF UpOK
  <1>2. /\ all \in Seq(Seq(Segment)) /\ Len(all) = Len(up) + Len(add)
        /\ \A i \in 1 .. Len(up) + Len(add) :
               all[i] = IF i <= Len(up) THEN up[i] ELSE add[i - Len(up)]
    BY <1>1, ConcatProperties
  <1> HIDE DEF all
  <1>3. \A i \in 1 .. Len(all) : \/ i \in 1 .. Len(up) /\ all[i] = up[i]
                                 \/ /\ i - Len(up) \in 1 .. Len(add) /\ i > Len(up)
                                    /\ all[i] = add[i - Len(up)]
    <2> TAKE i \in 1 .. Len(all)
    <2>1. i \in 1 .. Len(up) + Len(add)
      BY <1>2
    <2>2. CASE i <= Len(up)
      BY <1>1, <1>2, <2>1, <2>2
    <2>3. CASE ~(i <= Len(up))
      <3>1. i - Len(up) \in 1 .. Len(add) /\ i > Len(up)
        BY <1>1, <2>1, <2>3
      <3> QED
        BY <1>2, <2>1, <2>3, <3>1
    <2> QED
      BY <2>2, <2>3
  <1>4. \A i \in 1 .. Len(up) : up[i][1].sdu \in Nat /\ l0 < up[i][1].sdu /\ Chain(up[i], sz) /\ Whole(up[i], sz)
    BY DEF UpOK, Chain
  <1>5. \A i \in 1 .. Len(add) : add[i][1].sdu \in Nat /\ l < add[i][1].sdu /\ Chain(add[i], sz) /\ Whole(add[i], sz)
    BY DEF UpOK, Chain
  <1>6. l \in Nat /\ l0 <= l /\ \A i \in 1 .. Len(up) : up[i][1].sdu <= l
    <2>1. CASE up = << >>
      <3>1. l = l0 /\ Len(up) = 0
        BY <2>1, EmptySeq DEF LastOf
      <3> QED
        BY <3>1
    <2>2. CASE up # << >>
      <3>1. Len(up) \in 1 .. Len(up) /\ l = up[Len(up)][1].sdu
        BY <1>1, <2>2, EmptySeq DEF LastOf
      <3>2. \A i \in 1 .. Len(up) : i = Len(up) \/ i < Len(up)
        BY <1>1
      <3>3. \A i \in 1 .. Len(up) : up[i][1].sdu = l \/ up[i][1].sdu < l
        BY <3>1, <3>2 DEF UpOK
      <3>4. l \in Nat /\ l0 < l
        BY <1>4, <3>1
      <3> HIDE DEF l
      <3> QED
        BY <1>4, <3>3, <3>4
    <2> QED
      BY <2>1, <2>2
  <1> HIDE DEF l
  <1>7. \A i \in 1 .. Len(all) : Chain(all[i], sz) /\ Whole(all[i], sz) /\ l0 < all[i][1].sdu
    <2>1. \A i \in 1 .. Len(add) : l0 < add[i][1].sdu
      BY <1>5, <1>6
    <2> QED
      BY <1>3, <1>4, <1>5, <2>1
  <1>8. \A i, j \in 1 .. Len(all) : i < j => all[i][1].sdu < all[j][1].sdu
    <2> TAKE i, j \in 1 .. Len(all)
    <2> HAVE i < j
    <2>1. CASE j \in 1 .. Len(up) /\ all[j] = up[j]
      <3>1. i \in 1 .. Len(up) /\ all[i] = up[i]
        BY <1>1, <1>3, <2>1
      <3> QED
        BY <2>1, <3>1 DEF UpOK
    <2>2. CASE j - Len(up) \in 1 .. Len(add) /\ all[j] = add[j - Len(up)]
      <3>1. CASE i \in 1 .. Len(up) /\ all[i] = up[i]
        <4>1. up[i][1].sdu \in Nat /\ up[i][1].sdu <= l
          BY <1>4, <1>6, <3>1
        <4>2. add[j - Len(up)][1].sdu \in Nat /\ l < add[j - Len(up)][1].sdu
          BY <1>5, <2>2
        <4>3. \A y, z \in Nat : y <= l /\ l < z => y < z
          BY <1>6
        <4>4. up[i][1].sdu < add[j - Len(up)][1].sdu
          BY <4>1, <4>2, <4>3
        <4> QED
          BY <2>2, <3>1, <4>4
      <3>2. CASE i - Len(up) \in 1 .. Len(add) /\ all[i] = add[i - Len(up)]
        <4>1. i - Len(up) < j - Len(up)
          BY <1>1
        <4> QED
          BY <2>2, <3>2, <4>1 DEF UpOK
      <3> QED
        BY <1>3, <3>1, <3>2
    <2> QED
      BY <1>3, <2>1, <2>2
  <1>9. UpOK(all, l0, sz)
    BY <1>2, <1>7, <1>8 DEF UpOK
  <1>10. LastOf(all, l0) = LastOf(add, l)
    <2>1. CASE add = << >>
      <3>1. all = up
        BY <1>1, <2>1, ConcatEmptySeq DEF all
      <3> QED
        BY <2>1, <3>1 DEF LastOf, l
    <2>2. CASE add # << >>
      <3>1. Len(add) \in Nat \ {0}
        BY <1>1, <2>2, EmptySeq
      <3>2. /\ Len(all) \in 1 .. Len(up) + Len(add) /\ ~(Len(all) <= Len(up))
            /\ Len(all) - Len(up) = Len(add) /\ Len(all) # 0
        BY <1>1, <1>2, <3>1
      <3>3. all[Len(all)] = add[Len(add)]
        BY <1>2, <3>2
      <3>4. all # << >>
        BY <3>2, EmptySeq
      <3> QED
        BY <2>2, <3>3, <3>4 DEF LastOf
    <2> QED
      BY <2>1, <2>2
  <1> QED
    BY <1>9, <1>10 DEF all, l

\* The variables of the receiver that reassembly leaves alone.
SameWindow(r, q) ==
    /\ DOMAIN q = DOMAIN r
    /\ q.vrUr = r.vrUr /\ q.vrUx = r.vrUx /\ q.vrUh = r.vrUh
    /\ q.timer = r.timer /\ q.firstPduRxed = r.firstPduRxed

\* The local definitions of NrSlReassembleAndDeliver.
IsRest(list, joins, rest, r, pdu) ==
    /\ list = r.sdus \o [i \in DOMAIN pdu.data |-> <<pdu.data[i]>>]
    /\ joins = (r.state = "WAITING_SI_SF" /\ pdu.sn = r.expected)
    /\ rest = IF joins THEN <<r.keepS0 \o Head(list)>> \o Tail(list)
              ELSE IF pdu.first THEN list ELSE Tail(list)

\* What a PDU leads to, apart from the transitions that are called impossible.
LEMMA RestIs ==
    ASSUME NEW P, NEW N, NEW tx, NEW sz, SentOK(P, N, tx, sz),
           NEW e \in Nat, NEW n \in e .. N - 1, n - e < SnMod,
           NEW r, NEW l, ReassemblyOK(r, e, l, P, N, tx, sz),
           NEW list, NEW joins, NEW rest, IsRest(list, joins, rest, r, P[n])
    PROVE  /\ ~(joins /\ P[n].first)
           /\ RestOK(rest, P[n].data, l, sz)
  <1> DEFINE d == P[n].data
             m == Len(d)
             singles == [i \in 1 .. m |-> <<d[i]>>]
  <1>1. n \in 0 .. N - 1 /\ N \in Nat /\ n < N /\ n \in Nat
    BY DEF SentOK
  <1>2. PduOK(P[n], n, sz)
    BY <1>1 DEF SentOK
  <1>3. /\ ListOK(d, sz) /\ d # << >> /\ d \in Seq(Segment)
        /\ P[n].sn = n % SnMod /\ (P[n].first <=> d[1].from = 1)
    BY <1>2 DEF PduOK, ListOK
  <1>4. m \in Nat /\ m >= 1 /\ DOMAIN d = 1 .. m /\ 1 \in 1 .. m
    BY <1>3, EmptySeq, LenProperties
  <1>5. \A i \in 1 .. m : d[i] \in Segment /\ <<d[i]>> \in Seq(Segment) /\ l < d[i].sdu /\ PieceOK(d[i], sz)
    BY <1>3 DEF ReassemblyOK, ListOK, PieceOK
  <1> HIDE DEF d, m
  <1>6. singles \in Seq(Seq(Segment)) /\ Len(singles) = m /\ \A i \in 1 .. m : singles[i] = <<d[i]>>
    <2>1. singles \in [1 .. m -> Seq(Segment)]
      BY <1>5
    <2>2. \A i \in 1 .. m : singles[i] = <<d[i]>>
      OBVIOUS
    <2> HIDE DEF singles
    <2> QED
      BY <1>4, <2>1, <2>2
  <1>7. list = singles
    <2>1. r.sdus = << >> /\ [i \in DOMAIN P[n].data |-> <<P[n].data[i]>>] = singles
      BY <1>4 DEF ReassemblyOK, d
    <2>2. list = r.sdus \o [i \in DOMAIN P[n].data |-> <<P[n].data[i]>>]
      BY DEF IsRest
    <2> HIDE DEF singles
    <2>3. list = << >> \o singles
      BY <2>1, <2>2
    <2> QED
      BY <1>6, <2>3, ConcatEmptySeq
  <1> HIDE DEF singles
  <1>8. /\ Head(list) = <<d[1]>> /\ Tail(list) \in Seq(Seq(Segment)) /\ Len(Tail(list)) = m - 1
        /\ \A i \in 1 .. m - 1 : Tail(list)[i] = <<d[i + 1]>>
    <2>1. list \in Seq(Seq(Segment)) /\ list # << >>
      BY <1>4, <1>6, <1>7, EmptySeq
    <2>2. /\ Tail(list) \in Seq(Seq(Segment)) /\ Len(Tail(list)) = Len(list) - 1
          /\ \A i \in 1 .. Len(Tail(list)) : Tail(list)[i] = list[i + 1]
      BY <2>1, HeadTailProperties
    <2>3. \A i \in 1 .. m - 1 : i + 1 \in 1 .. m
      BY <1>4
    <2>4. Head(list) = list[1]
      BY <2>1
    <2> QED
      BY <1>4, <1>6, <1>7, <2>2, <2>3, <2>4
  <1>9. \A i \in 1 .. Len(d) : l < d[i].sdu
    BY <1>5 DEF m
  <1>10. CASE joins
    <2>1. r.state = "WAITING_SI_SF" /\ n % SnMod = e % SnMod
      BY <1>3, <1>10 DEF ReassemblyOK, IsRest
    <2>2. n = e
      <3>1. n \in Int /\ e \in Int /\ n - e < SnMod /\ e - n < SnMod
        BY <1>1, RlcAssumption
      <3> QED
        BY <2>1, <3>1, SnInjective
    <2> DEFINE keep == r.keepS0
               c == keep \o <<d[1]>>
    <2>3. /\ Chain(keep, sz) /\ keep[Len(keep)].to \in Nat \ {0}
          /\ d[1].sdu = keep[1].sdu /\ d[1].from = keep[Len(keep)].to + 1
      BY <1>1, <2>1, <2>2 DEF ReassemblyOK, GoesOn, d
    <2>4. d[1].from # 1
      BY <2>3
    <2>5. keep \in Seq(Segment) /\ keep # << >> /\ Len(keep) \in Nat /\ Len(keep) >= 1
      BY <2>3, EmptySeq DEF Chain
    <2> HIDE DEF keep
    <2>6. c = Append(keep, d[1])
      BY <1>4, <1>5, <2>5
    <2>7. /\ c \in Seq(Segment) /\ c # << >> /\ Len(c) = Len(keep) + 1 /\ c[Len(keep) + 1] = d[1]
          /\ \A i \in 1 .. Len(keep) : c[i] = keep[i]
      BY <1>4, <1>5, <2>5, <2>6, AppendIs
    <2> HIDE DEF c
    <2>8. Chain(c, sz)
      <3>1. c[1] = keep[1]
        BY <2>5, <2>7
      <3>2. \A i \in 1 .. Len(c) : i \in 1 .. Len(keep) \/ i = Len(keep) + 1
        BY <2>5, <2>7
      <3>3. \A i \in 1 .. Len(c) : c[i].sdu = c[1].sdu
        BY <2>3, <2>7, <3>1, <3>2 DEF Chain
      <3>4. \A i \in 1 .. Len(c) - 1 : c[i + 1].from = c[i].to + 1
        <4> TAKE i \in 1 .. Len(c) - 1
        <4>1. CASE i = Len(keep)
          <5>1. c[i] = keep[Len(keep)] /\ c[i + 1] = d[1]
            BY <2>5, <2>7, <4>1
          <5> QED
            BY <2>3, <5>1
        <4>2. CASE i # Len(keep)
          <5>1. i \in 1 .. Len(keep) - 1 /\ i \in 1 .. Len(keep) /\ i + 1 \in 1 .. Len(keep)
            BY <2>5, <2>7, <4>2
          <5> QED
            BY <2>3, <2>7, <5>1 DEF Chain
        <4> QED
          BY <4>1, <4>2
      <3> QED
        BY <2>3, <2>7, <3>1, <3>3, <3>4 DEF Chain
    <2>9. c[1].sdu = d[1].sdu /\ c[Len(c)] = d[1]
      BY <2>3, <2>5, <2>7
    <2>10. rest = <<c>> \o Tail(list)
      BY <1>8, <1>10 DEF c, keep, IsRest
    <2>11. /\ rest \in Seq(Seq(Segment)) /\ Len(rest) = Len(d) /\ rest[1] = c
           /\ \A i \in 2 .. Len(d) : rest[i] = <<d[i]>>
      <3>1. /\ rest \in Seq(Seq(Segment)) /\ Len(rest) = (m - 1) + 1 /\ rest[1] = c
            /\ \A i \in 2 .. (m - 1) + 1 : rest[i] = Tail(list)[i - 1] /\ i - 1 \in 1 .. m - 1
        BY <1>8, <2>7, <2>10, ConsIs
      <3>2. (m - 1) + 1 = m /\ \A i \in 2 .. m : (i - 1) + 1 = i
        BY <1>4
      <3>3. \A i \in 2 .. m : rest[i] = <<d[i]>>
        BY <1>8, <3>1, <3>2
      <3> QED
        BY <3>1, <3>2, <3>3 DEF m
    <2>12. RestOK(rest, d, l, sz)
      BY <1>3, <1>9, <2>8, <2>9, <2>11, RestWithFirst
    <2> QED
      BY <1>3, <2>4, <2>12 DEF d
  <1>11. CASE ~joins /\ P[n].first
    <2>1. rest = list /\ d[1].from = 1
      BY <1>3, <1>11 DEF IsRest
    <2>2. Chain(<<d[1]>>, sz) /\ <<d[1]>>[1] = d[1] /\ Len(<<d[1]>>) = 1
      BY <1>4, <1>5, <2>1, SingleChain
    <2>3. /\ rest \in Seq(Seq(Segment)) /\ Len(rest) = Len(d) /\ rest[1] = <<d[1]>>
          /\ \A i \in 2 .. Len(d) : rest[i] = <<d[i]>>
      <3>1. \A i \in 2 .. m : i \in 1 .. m
        BY <1>4
      <3> QED
        BY <1>4, <1>6, <1>7, <2>1, <3>1 DEF m
    <2> DEFINE c == <<d[1]>>
    <2>4. Chain(c, sz) /\ c[1].sdu = d[1].sdu /\ c[Len(c)] = d[1] /\ rest[1] = c
      BY <2>2, <2>3
    <2> HIDE DEF c
    <2>5. RestOK(rest, d, l, sz)
      BY <1>3, <1>9, <2>3, <2>4, RestWithFirst
    <2> QED
      BY <1>11, <2>5 DEF d
  <1>12. CASE ~joins /\ ~P[n].first
    <2>1. rest = Tail(list)
      BY <1>12 DEF IsRest
    <2>2. /\ rest \in Seq(Seq(Segment)) /\ Len(rest) = Len(d) - 1
          /\ \A i \in 1 .. Len(d) - 1 : rest[i] = <<d[i + 1]>>
      BY <1>8, <2>1 DEF m
    <2>3. RestOK(rest, d, l, sz)
      BY <1>3, <1>9, <2>2, RestWithoutFirst
    <2> QED
      BY <1>12, <2>3 DEF d
  <1> QED
    BY <1>10, <1>11, <1>12

\* NrSlReassembleAndDeliver: PDU n, when everything below e is dealt with.
LEMMA Reassembles ==
    ASSUME NEW P, NEW N, NEW tx, NEW sz, SentOK(P, N, tx, sz),
           NEW e \in Nat, NEW n \in e .. N - 1, n - e < SnMod,
           NEW r, DOMAIN r = Fields, NEW l0 \in Nat, UpOK(r.up, l0, sz),
           ReassemblyOK(r, e, LastOf(r.up, l0), P, N, tx, sz)
    PROVE  LET q == NrSlReassembleAndDeliver(r, P[n]) IN
           /\ SameWindow(r, q) /\ q.buffer = r.buffer
           /\ UpOK(q.up, l0, sz)
           /\ ReassemblyOK(q, n + 1, LastOf(q.up, l0), P, N, tx, sz)
  <1> DEFINE q == NrSlReassembleAndDeliver(r, P[n])
             d == P[n].data
             m == Len(d)
             l == LastOf(r.up, l0)
  <1>1. PICK list, joins, rest : IsRest(list, joins, rest, r, P[n])
    <2> DEFINE list == r.sdus \o [i \in DOMAIN P[n].data |-> <<P[n].data[i]>>]
               joins == (r.state = "WAITING_SI_SF" /\ P[n].sn = r.expected)
               rest == IF joins THEN <<r.keepS0 \o Head(list)>> \o Tail(list)
                       ELSE IF P[n].first THEN list ELSE Tail(list)
    <2>1. IsRest(list, joins, rest, r, P[n])
      BY DEF IsRest
    <2> QED
      BY <2>1
  <1>2. ~(joins /\ P[n].first) /\ RestOK(rest, d, l, sz)
    BY <1>1, RestIs
  <1> DEFINE keeps == ~P[n].last /\ rest # << >>
             add == IF keeps THEN Front(rest) ELSE rest
  <1>3. q = [r EXCEPT !.expected = (P[n].sn + 1) % SnMod,
                      !.sdus = << >>,
                      !.state = IF keeps THEN "WAITING_SI_SF" ELSE "WAITING_S0_FULL",
                      !.keepS0 = IF keeps THEN Last(rest) ELSE << >>,
                      !.up = @ \o add]
    BY <1>1, <1>2 DEF NrSlReassembleAndDeliver, IsRest
  <1> HIDE DEF q, keeps, add
  <1>4. /\ SameWindow(r, q) /\ q.buffer = r.buffer
        /\ q.expected = (P[n].sn + 1) % SnMod /\ q.sdus = << >>
        /\ q.state = IF keeps THEN "WAITING_SI_SF" ELSE "WAITING_S0_FULL"
        /\ q.keepS0 = IF keeps THEN Last(rest) ELSE << >>
        /\ q.up = r.up \o add
    BY <1>3 DEF SameWindow, Fields
  <1>5. n \in 0 .. N - 1 /\ N \in Nat /\ n < N /\ n \in Nat /\ sz \in Seq(Nat \ {0}) /\ Len(sz) \in Nat
    BY LenProperties DEF SentOK
  <1>6. /\ ListOK(d, sz) /\ d \in Seq(Segment) /\ d # << >>
        /\ P[n].sn = n % SnMod /\ (P[n].last <=> Ends(d[m], sz))
    BY <1>5 DEF SentOK, PduOK, ListOK
  <1>7. m \in Nat /\ m >= 1 /\ m \in 1 .. m /\ PieceOK(d[m], sz)
    <2>1. m \in Nat /\ m >= 1
      BY <1>6, EmptySeq
    <2> QED
      BY <1>6, <2>1 DEF ListOK
  <1>8. /\ d[m].sdu \in 1 .. Len(sz) /\ d[m].sdu \in Nat /\ d[m].to \in Nat \ {0}
    BY <1>7 DEF PieceOK, Segment
  <1>9. q.expected = (n + 1) % SnMod
    BY <1>4, <1>5, <1>6, SnAdd
  <1>10. l \in 0 .. Len(sz) /\ l \in Nat
    BY <1>5 DEF ReassemblyOK
  <1>11. /\ rest \in Seq(Seq(Segment)) /\ Len(rest) \in Nat /\ (rest # << >> => Len(rest) >= 1)
    BY <1>2, EmptySeq DEF RestOK
  <1> DEFINE x == rest[Len(rest)]
  <1>12. rest # << >> => /\ Len(rest) \in 1 .. Len(rest) /\ Chain(x, sz)
                         /\ l < x[1].sdu /\ x[1].sdu = d[m].sdu /\ x[Len(x)] = d[m]
    <2>1. rest # << >> => Len(rest) \in 1 .. Len(rest)
      BY <1>11
    <2> QED
      BY <1>2, <2>1 DEF RestOK
  <1>13. rest # << >> => (Whole(x, sz) <=> P[n].last)
    <2> SUFFICES ASSUME rest # << >> PROVE Whole(x, sz) <=> P[n].last
      OBVIOUS
    <2>1. x[1].sdu = d[m].sdu /\ x[Len(x)] = d[m]
      BY <1>12
    <2> HIDE DEF x, m, d
    <2> QED
      BY <1>6, <2>1 DEF Whole, Ends
  <1> HIDE DEF d, m, x
  <1>14. /\ add \in Seq(Seq(Segment)) /\ Len(add) \in Nat
         /\ \A i \in 1 .. Len(add) : i \in 1 .. Len(rest) /\ add[i] = rest[i]
         /\ keeps => Len(add) = Len(rest) - 1
         /\ ~keeps => add = rest
    <2>1. CASE keeps
      <3>0. Len(rest) >= 1
        BY <1>11, <2>1 DEF keeps
      <3>1. add = SubSeq(rest, 1, Len(rest) - 1)
        BY <2>1 DEF add, Front
      <3>2. \A i \in 1 .. Len(rest) - 1 : rest[i] \in Seq(Segment) /\ i \in 1 .. Len(rest) /\ 1 + i - 1 = i
        BY <1>11
      <3>3. Len(rest) - 1 \in Int /\ 1 \in Int /\ (Len(rest) - 1) - 1 + 1 = Len(rest) - 1
        BY <1>11
      <3>4. /\ add \in Seq(Seq(Segment))
            /\ Len(add) = IF 1 <= Len(rest) - 1 THEN (Len(rest) - 1) - 1 + 1 ELSE 0
            /\ \A i \in 1 .. (Len(rest) - 1) - 1 + 1 : add[i] = rest[1 + i - 1]
        BY <3>1, <3>2, <3>3, SubSeqProperties
      <3>5. Len(add) = Len(rest) - 1
        <4>1. Len(add) = IF 1 <= Len(rest) - 1 THEN (Len(rest) - 1) - 1 + 1 ELSE 0
          BY <3>4, Zenon
        <4>2. Len(rest) \in Nat
          BY <1>11
        <4>3. PICK k \in Nat : k = Len(rest) /\ k >= 1
          BY <3>0, <4>2
        <4>4. k - 1 = IF 1 <= k - 1 THEN (k - 1) - 1 + 1 ELSE 0
          BY <4>3
        <4> QED
          BY <4>1, <4>3, <4>4, Zenon
      <3>6. Len(add) \in Nat
        BY <1>11, <3>0, <3>5
      <3> QED
        BY <2>1, <3>2, <3>3, <3>4, <3>5, <3>6
    <2>2. CASE ~keeps
      BY <1>11, <2>2 DEF add
    <2> QED
      BY <2>1, <2>2
  <1>15. \A i \in 1 .. Len(add) : Whole(add[i], sz)
    <2> TAKE i \in 1 .. Len(add)
    <2>1. CASE i < Len(rest)
      <3>1. i \in 1 .. Len(rest) /\ Len(rest) \in 1 .. Len(rest) /\ add[i] = rest[i]
        BY <1>11, <1>14, <2>1
      <3> QED
        BY <1>2, <2>1, <3>1 DEF RestOK
    <2>2. CASE ~(i < Len(rest))
      <3>1. i = Len(rest) /\ add[i] = rest[i]
        BY <1>11, <1>14, <2>2
      <3>2. ~keeps
        BY <1>11, <1>14, <3>1
      <3>3. rest # << >>
        BY <1>11, <1>14, <3>1, EmptySeq
      <3>4. P[n].last
        BY <3>2, <3>3 DEF keeps
      <3> QED
        BY <1>13, <3>1, <3>3, <3>4 DEF x
    <2> QED
      BY <2>1, <2>2
  <1>16. UpOK(add, l, sz)
    BY <1>2, <1>14, <1>15 DEF UpOK, RestOK
  <1>17. UpOK(q.up, l0, sz) /\ LastOf(q.up, l0) = LastOf(add, l)
    BY <1>4, <1>5, <1>16, UpExtends
  <1> DEFINE w == LastOf(add, l)
  <1>18. \/ w = l /\ add = << >>
         \/ w \in 1 .. Len(sz) /\ w < d[m].sdu
         \/ w = d[m].sdu /\ P[n].last /\ ~keeps
    <2>1. CASE add = << >>
      BY <2>1 DEF LastOf
    <2>2. CASE add # << >>
      <3>1. Len(add) \in 1 .. Len(add) /\ w = add[Len(add)][1].sdu
        <4>1. Len(add) \in Nat \ {0}
          BY <1>14, <2>2, EmptySeq
        <4> QED
          BY <2>2, <4>1 DEF LastOf
      <3>2. Len(add) \in 1 .. Len(rest) /\ w = rest[Len(add)][1].sdu /\ Chain(rest[Len(add)], sz)
        BY <1>2, <1>14, <3>1 DEF RestOK
      <3>3. w \in 1 .. Len(sz)
        BY <3>2 DEF Chain
      <3>4. rest # << >> /\ Len(rest) \in 1 .. Len(rest)
        BY <1>11, <3>2, EmptySeq
      <3>5. CASE keeps
        <4>1. Len(add) < Len(rest)
          BY <1>11, <1>14, <3>5
        <4>2. w < rest[Len(rest)][1].sdu
          BY <1>2, <3>2, <3>4, <4>1 DEF RestOK
        <4> QED
          BY <1>12, <3>3, <3>4, <4>2 DEF x
      <3>6. CASE ~keeps
        <4>1. Len(add) = Len(rest) /\ P[n].last
          BY <1>14, <3>4, <3>6 DEF keeps
        <4> QED
          BY <1>12, <3>2, <3>4, <3>6, <4>1 DEF x
      <3> QED
        BY <3>5, <3>6
    <2> QED
      BY <2>1, <2>2
  <1>19. w \in 0 .. Len(sz)
    <2>1. \A z \in 1 .. Len(sz) : z \in 0 .. Len(sz)
      BY <1>5
    <2> QED
      BY <1>8, <1>10, <1>18, <2>1
  <1> HIDE DEF w
  <1>20. ASSUME NEW s \in Nat, l < s, Before(d[m], [sdu |-> s], sz) PROVE w < s
    <2>1. d[m].sdu <= s /\ (Ends(d[m], sz) => d[m].sdu < s)
      BY <1>20 DEF Before
    <2>2. w \in Int
      BY <1>5, <1>19
    <2>3. CASE w = l
      BY <1>20, <2>3
    <2>4. CASE w < d[m].sdu
      BY <1>8, <2>1, <2>2, <2>4
    <2>5. CASE w = d[m].sdu /\ P[n].last
      BY <1>6, <2>1, <2>5
    <2> QED
      BY <1>18, <2>3, <2>4, <2>5
  <1>21. \A k \in n + 1 .. N - 1 : \A i \in 1 .. Len(P[k].data) : w < P[k].data[i].sdu
    <2> TAKE k \in n + 1 .. N - 1
    <2> TAKE i \in 1 .. Len(P[k].data)
    <2>1. k \in e .. N - 1 /\ k \in 0 .. N - 1 /\ n < k
      BY <1>5
    <2>2. l < P[k].data[i].sdu
      BY <2>1 DEF ReassemblyOK
    <2>3. Before(d[m], P[k].data[i], sz)
      <3>1. m \in 1 .. Len(P[n].data)
        BY <1>7 DEF m, d
      <3>2. Before(P[n].data[m], P[k].data[i], sz)
        BY <1>5, <2>1, <3>1 DEF SentOK
      <3> QED
        BY <3>2 DEF d
    <2>4. P[k].data[i].sdu \in Nat
      BY <2>1 DEF SentOK, PduOK, ListOK, PieceOK, Segment
    <2> QED
      BY <1>20, <2>2, <2>3, <2>4 DEF Before
  <1>22. \A i \in 1 .. Len(tx) : w < tx[i].sdu
    <2> TAKE i \in 1 .. Len(tx)
    <2>1. l < tx[i].sdu
      BY DEF ReassemblyOK
    <2>2. Before(d[m], tx[i], sz)
      <3>1. m \in 1 .. Len(P[n].data)
        BY <1>7 DEF m, d
      <3>2. Before(P[n].data[m], tx[i], sz)
        BY <1>5, <3>1 DEF SentOK
      <3> QED
        BY <3>2 DEF d
    <2>3. tx[i].sdu \in Nat
      BY DEF SentOK, TxOK, ListOK, PieceOK, Segment
    <2> QED
      BY <1>20, <2>1, <2>2, <2>3 DEF Before
  <1>23. ASSUME keeps
         PROVE  /\ Chain(x, sz) /\ w < x[1].sdu /\ x[Len(x)].to \in Nat \ {0}
                /\ GoesOn(P, n + 1, x[1].sdu, x[Len(x)].to + 1, N, tx)
                /\ q.keepS0 = x
    <2>1. rest # << >> /\ ~P[n].last
      BY <1>23 DEF keeps
    <2>2. Chain(x, sz) /\ l < x[1].sdu /\ x[1].sdu = d[m].sdu /\ x[Len(x)] = d[m]
      BY <1>12, <2>1
    <2>3. GoesOn(P, n + 1, d[m].sdu, d[m].to + 1, N, tx)
      BY <1>5, <2>1 DEF SentOK, d, m
    <2>4. w < x[1].sdu
      <3>1. w = l \/ w < d[m].sdu
        BY <1>18, <1>23 DEF w
      <3> QED
        BY <2>2, <3>1
    <2> QED
      BY <1>4, <1>8, <1>23, <2>2, <2>3, <2>4 DEF Last, x
  <1>24. q.state \in {"WAITING_S0_FULL", "WAITING_SI_SF"} /\ (q.state = "WAITING_SI_SF" => keeps)
    BY <1>4
  <1>25. ReassemblyOK(q, n + 1, w, P, N, tx, sz)
    BY <1>4, <1>9, <1>19, <1>21, <1>22, <1>23, <1>24 DEF ReassemblyOK
  <1>26. w = LastOf(q.up, l0)
    BY <1>17 DEF w
  <1> QED
    BY <1>4, <1>17, <1>25, <1>26 DEF q

\* A PDU is delivered and erased.
LEMMA Delivers ==
    ASSUME NEW P, NEW N, NEW tx, NEW sz, SentOK(P, N, tx, sz),
           NEW e \in Nat, NEW n \in e .. N - 1, n - e < SnMod,
           NEW r, DOMAIN r = Fields, NEW l0 \in Nat, UpOK(r.up, l0, sz),
           ReassemblyOK(r, e, LastOf(r.up, l0), P, N, tx, sz),
           NEW B, Holds(r.buffer, P, B), NEW U \in Int, B \subseteq U .. U + SnMod - 1, n \in B
    PROVE  LET q == Deliver(r, n % SnMod) IN
           /\ SameWindow(r, q) /\ Holds(q.buffer, P, B \ {n})
           /\ UpOK(q.up, l0, sz)
           /\ ReassemblyOK(q, n + 1, LastOf(q.up, l0), P, N, tx, sz)
  <1> DEFINE x == NrSlReassembleAndDeliver(r, P[n])
             b == Forget(r.buffer, {n % SnMod})
             q == Deliver(r, n % SnMod)
  <1>1. n % SnMod \in DOMAIN r.buffer /\ r.buffer[n % SnMod] = P[n]
    BY DEF Holds
  <1>2. /\ SameWindow(r, x) /\ x.buffer = r.buffer
        /\ UpOK(x.up, l0, sz)
        /\ ReassemblyOK(x, n + 1, LastOf(x.up, l0), P, N, tx, sz)
    BY Reassembles
  <1>3. Holds(b, P, B \ {n})
    BY HoldsForget
  <1>4. q = [x EXCEPT !.buffer = Forget(@, {n % SnMod})]
    BY <1>1 DEF Deliver
  <1> HIDE DEF x
  <1>5. q = [x EXCEPT !.buffer = b]
    BY <1>2, <1>4
  <1> HIDE DEF q, b
  <1>6. DOMAIN x = Fields
    BY <1>2 DEF SameWindow
  <1>7. /\ DOMAIN q = Fields /\ q.buffer = b /\ q.up = x.up /\ q.vrUr = x.vrUr /\ q.vrUx = x.vrUx
        /\ q.vrUh = x.vrUh /\ q.timer = x.timer /\ q.firstPduRxed = x.firstPduRxed
        /\ q.sdus = x.sdus /\ q.expected = x.expected /\ q.state = x.state /\ q.keepS0 = x.keepS0
    BY <1>5, <1>6 DEF Fields
  <1>8. SameWindow(r, q)
    BY <1>2, <1>7 DEF SameWindow
  <1>9. ReassemblyOK(q, n + 1, LastOf(q.up, l0), P, N, tx, sz)
    BY <1>2, <1>7 DEF ReassemblyOK
  <1> QED
    BY <1>2, <1>3, <1>7, <1>8, <1>9 DEF q

LEMMA SameTransitive ==
    ASSUME NEW a, NEW b, NEW c, SameWindow(a, b), SameWindow(b, c)
    PROVE  SameWindow(a, c)
  BY DEF SameWindow

\* NrSlReassembleSnInterval: the PDUs that are there from number U on are
\* delivered, up to one that is there.
LEMMA WalkDelivers ==
    ASSUME NEW P, NEW N, NEW tx, NEW sz, SentOK(P, N, tx, sz),
           NEW U \in Nat, NEW len \in Nat, len <= SnMod,
           NEW r, DOMAIN r = Fields, NEW l0 \in Nat, UpOK(r.up, l0, sz),
           ReassemblyOK(r, U, LastOf(r.up, l0), P, N, tx, sz),
           NEW B, Holds(r.buffer, P, B), B \subseteq U .. U + SnMod - 1, B \subseteq U .. N - 1,
           len = 0 \/ U + len - 1 \in B
    PROVE  LET q == DeliverAll(r, U % SnMod, len) IN
           /\ SameWindow(r, q) /\ Holds(q.buffer, P, B \ (U .. U + len - 1))
           /\ UpOK(q.up, l0, sz)
           /\ ReassemblyOK(q, U + len, LastOf(q.up, l0), P, N, tx, sz)
  <1>1. PICK f : /\ f[0] = r
                 /\ \A k \in 1 .. len : f[k] = Deliver(f[k - 1], ((U % SnMod) + k - 1) % SnMod)
                 /\ DeliverAll(r, U % SnMod, len) = f[len]
    BY DeliverAllIs
  <1> DEFINE OK(k, e) ==
                 /\ SameWindow(r, f[k]) /\ Holds(f[k].buffer, P, B \ (U .. U + k - 1))
                 /\ UpOK(f[k].up, l0, sz)
                 /\ ReassemblyOK(f[k], e, LastOf(f[k].up, l0), P, N, tx, sz)
                 /\ k = 0 \/ U + k - 1 \in B => e = U + k
             T == {k \in Nat : k <= len => \E e \in U .. U + k : OK(k, e)}
  <1>2. 0 \in T
    <2>1. B \ (U .. U + 0 - 1) = B
      OBVIOUS
    <2>2. U \in U .. U + 0 /\ U = U + 0
      OBVIOUS
    <2>3. OK(0, U)
      BY <1>1, <2>1, <2>2 DEF SameWindow
    <2> HIDE DEF OK
    <2> QED
      BY <2>2, <2>3
  <1>3. ASSUME NEW k \in Nat, k \in T PROVE k + 1 \in T
    <2> SUFFICES ASSUME k + 1 <= len PROVE \E e \in U .. U + (k + 1) : OK(k + 1, e)
      OBVIOUS
    <2>1. k <= len /\ k + 1 \in 1 .. len /\ (k + 1) - 1 = k /\ k < SnMod
      BY RlcAssumption
    <2>2. PICK e \in U .. U + k : OK(k, e)
      BY <1>3, <2>1
    <2> DEFINE c == U + k
               C == B \ (U .. U + k - 1)
    <2>3. ((U % SnMod) + (k + 1) - 1) % SnMod = c % SnMod
      <3>1. (U % SnMod) + (k + 1) - 1 = (U % SnMod) + k
        BY SnIs
      <3> QED
        BY <3>1, SnAdd
    <2>4. f[k + 1] = Deliver(f[k], c % SnMod)
      BY <1>1, <2>1, <2>3
    <2>5. C \subseteq U .. U + SnMod - 1 /\ c \in U .. U + SnMod - 1 /\ c \in Nat
      <3>1. c \in U .. U + SnMod - 1 /\ c \in Nat
        BY <2>1, RlcAssumption
      <3>2. C \subseteq U .. U + SnMod - 1
        OBVIOUS
      <3> QED
        BY <3>1, <3>2
    <2>5a. Holds(f[k].buffer, P, C)
      BY <2>2
    <2>6. c % SnMod \in DOMAIN f[k].buffer <=> c \in C
      <3> HIDE DEF c, C, OK
      <3>1. U \in Int
        OBVIOUS
      <3> QED
        BY <2>5, <2>5a, <3>1, InHolds
    <2>7. c \in C <=> c \in B
      OBVIOUS
    <2>8. B \ (U .. U + (k + 1) - 1) = C \ {c}
      OBVIOUS
    <2>9. U + (k + 1) - 1 = c /\ k + 1 # 0 /\ U + (k + 1) = c + 1
      OBVIOUS
    <2>10. DOMAIN f[k] = Fields
      BY <2>2 DEF SameWindow
    <2>11. CASE c \notin B
      <3>1. f[k + 1] = f[k] /\ C \ {c} = C
        BY <2>4, <2>6, <2>7, <2>11 DEF Deliver
      <3>2. OK(k + 1, e)
        BY <2>2, <2>8, <2>9, <2>11, <3>1
      <3>3. e \in U .. U + (k + 1)
        OBVIOUS
      <3> HIDE DEF OK
      <3> QED
        BY <3>2, <3>3
    <2>12. CASE c \in B
      <3>1. c \in e .. N - 1 /\ c - e < SnMod /\ e \in Nat /\ c \in C
        <4>1. c \in U .. N - 1 /\ N \in Nat
          BY <2>12 DEF SentOK
        <4> QED
          BY <2>1, <2>7, <2>12, <4>1, RlcAssumption
      <3> DEFINE q == Deliver(f[k], c % SnMod)
      <3> HIDE DEF c, C
      <3>2. /\ SameWindow(f[k], q) /\ Holds(q.buffer, P, C \ {c})
            /\ UpOK(q.up, l0, sz)
            /\ ReassemblyOK(q, c + 1, LastOf(q.up, l0), P, N, tx, sz)
        <4>1. /\ Holds(f[k].buffer, P, C) /\ UpOK(f[k].up, l0, sz)
              /\ ReassemblyOK(f[k], e, LastOf(f[k].up, l0), P, N, tx, sz)
          BY <2>2 DEF C
        <4>2. U \in Int
          OBVIOUS
        <4> HIDE DEF OK
        <4> QED
          BY <2>5, <2>10, <3>1, <4>1, <4>2, Delivers
      <3>3. SameWindow(r, q)
        BY <2>2, <3>2, SameTransitive
      <3> HIDE DEF q
      <3>4. f[k + 1] = q
        BY <2>4 DEF q
      <3>5. OK(k + 1, c + 1)
        BY <2>8, <2>9, <3>2, <3>3, <3>4
      <3>6. c + 1 \in U .. U + (k + 1)
        BY DEF c
      <3> HIDE DEF OK
      <3> QED
        BY <3>5, <3>6
    <2> QED
      BY <2>11, <2>12
  <1> HIDE DEF T
  <1>4. len \in T
    BY <1>2, <1>3, SetInduction
  <1>5. PICK e \in U .. U + len : OK(len, e)
    BY <1>4 DEF T
  <1>6. e = U + len
    BY <1>5
  <1> QED
    BY <1>1, <1>5, <1>6

-----------------------------------------------------------------------------
(* The reordering window                                                    *)

\* What a step leaves of the receiver: VR(UR) stands for V, and what was below
\* V is delivered.
Advanced(r, q, B, V, l0, P, N, tx, sz) ==
    /\ DOMAIN q = Fields
    /\ q.vrUr = V % SnMod /\ q.vrUx = r.vrUx /\ q.vrUh = r.vrUh
    /\ q.timer = r.timer /\ q.firstPduRxed = r.firstPduRxed
    /\ Holds(q.buffer, P, B \ (0 .. V - 1))
    /\ UpOK(q.up, l0, sz)
    /\ ReassemblyOK(q, V, LastOf(q.up, l0), P, N, tx, sz)

\* NrSlReassembleSnInterval from VR(UR) up to V, where V - 1 is in the buffer.
LEMMA IntervalDelivers ==
    ASSUME NEW P, NEW N, NEW tx, NEW sz, SentOK(P, N, tx, sz),
           NEW U \in Nat, NEW H \in Nat, U <= H, H <= N, H - U < SnMod,
           NEW V \in U .. H, NEW base \in Int, 0 <= U - base, V - base < SnMod,
           NEW r, DOMAIN r = Fields, NEW l0 \in Nat, UpOK(r.up, l0, sz),
           r.vrUr = V % SnMod,
           ReassemblyOK(r, U, LastOf(r.up, l0), P, N, tx, sz),
           NEW B, Holds(r.buffer, P, B), B \subseteq U .. H - 1,
           V = U \/ V - 1 \in B
    PROVE  Advanced(r, NrSlReassembleSnInterval(r, U % SnMod, V % SnMod, base % SnMod),
                    B, V, l0, P, N, tx, sz)
  <1>0. SnMod \in Nat \ {0}
    BY RlcAssumption
  <1>1. /\ Offset(V % SnMod, base % SnMod) = V - base
        /\ Offset(U % SnMod, base % SnMod) = U - base
    <2>1. /\ 0 <= V - base /\ V - base < SnMod /\ 0 <= U - base /\ U - base < SnMod
          /\ U \in Int /\ V \in Int
      BY <1>0
    <2> QED
      BY <2>1, OffsetIs
  <1> DEFINE len == V - U
             q == DeliverAll(r, U % SnMod, len)
  <1>2. len \in Nat /\ len <= SnMod /\ (V - base) - (U - base) = len /\ U + len = V
    BY <1>0
  <1>3. Max({0, (V - base) - (U - base)}) = len
    BY <1>2, MaxOfTwo
  <1>4. NrSlReassembleSnInterval(r, U % SnMod, V % SnMod, base % SnMod) = q
    BY <1>1, <1>3 DEF NrSlReassembleSnInterval
  <1>5. B \subseteq U .. U + SnMod - 1 /\ B \subseteq U .. N - 1
    <2>1. N \in Nat
      BY DEF SentOK
    <2>2. \A x \in U .. H - 1 : x \in U .. U + SnMod - 1 /\ x \in U .. N - 1
      BY <1>0, <2>1
    <2> QED
      BY <2>2
  <1>6. len = 0 \/ U + len - 1 \in B
    BY <1>2
  <1> HIDE DEF len
  <1>7. /\ SameWindow(r, q) /\ Holds(q.buffer, P, B \ (U .. U + len - 1))
        /\ UpOK(q.up, l0, sz)
        /\ ReassemblyOK(q, U + len, LastOf(q.up, l0), P, N, tx, sz)
    BY <1>2, <1>5, <1>6, WalkDelivers
  <1> HIDE DEF q
  <1>8. B \ (U .. U + len - 1) = B \ (0 .. V - 1)
    <2>1. \A x \in U .. H - 1 : x \in U .. V - 1 <=> x \in 0 .. V - 1
      OBVIOUS
    <2>2. U + len - 1 = V - 1
      BY <1>2
    <2> QED
      BY <2>1, <2>2
  <1> QED
    BY <1>2, <1>4, <1>7, <1>8 DEF Advanced, SameWindow

\* AdvanceVrUr: VR(UR) moves over PDUs that are there.
LEMMA Advances ==
    ASSUME NEW P, NEW N, NEW tx, NEW sz, SentOK(P, N, tx, sz),
           NEW U \in Nat, NEW H \in Nat, U <= H, H <= N, H - U < SnMod,
           NEW base \in Int, 0 <= U - base, H - base < SnMod,
           NEW r, DOMAIN r = Fields, NEW l0 \in Nat, UpOK(r.up, l0, sz),
           r.vrUr = U % SnMod,
           ReassemblyOK(r, U, LastOf(r.up, l0), P, N, tx, sz),
           NEW B, Holds(r.buffer, P, B), B \subseteq U .. H - 1
    PROVE  \E V \in U .. H :
               Advanced(r, AdvanceVrUr(r, base % SnMod), B, V, l0, P, N, tx, sz)
  <1>0. SnMod \in Nat \ {0} /\ U % SnMod \in 0 .. SnMod - 1
    BY RlcAssumption, SnIs
  <1>1. \A x \in U .. H - 1 : x \in U .. U + SnMod - 1
    BY <1>0
  <1>2. B \subseteq U .. U + SnMod - 1
    BY <1>1
  <1>3. CASE r.vrUr \notin DOMAIN r.buffer
    <2>1. U \notin B
      BY <1>3 DEF Holds
    <2>2. B \ (0 .. U - 1) = B
      <3>1. \A x \in U .. H - 1 : x \notin 0 .. U - 1
        OBVIOUS
      <3> QED
        BY <3>1
    <2>3. AdvanceVrUr(r, base % SnMod) = r
      BY <1>3 DEF AdvanceVrUr
    <2>4. U \in U .. H
      OBVIOUS
    <2> QED
      BY <2>2, <2>3, <2>4 DEF Advanced
  <1>4. CASE r.vrUr \in DOMAIN r.buffer
    <2> DEFINE o == U % SnMod
               T == {m \in o + 1 .. SnMod : m \notin DOMAIN r.buffer}
               m == Min(T)
               V == U + (m - o)
    <2>1. \A x \in DOMAIN r.buffer : x \in 0 .. SnMod - 1
      <3>1. \A n \in B : n % SnMod \in 0 .. SnMod - 1
        <4> TAKE n \in B
        <4>1. n \in Int
          OBVIOUS
        <4> QED
          BY <4>1, SnIs
      <3> QED
        BY <3>1 DEF Holds
    <2>2. SnMod \in T /\ T \subseteq Nat
      BY <1>0, <2>1
    <2> HIDE DEF T
    <2>3. m \in T /\ \A y \in T : m <= y
      BY <2>2, MinIs
    <2> HIDE DEF m
    <2>4. m \in o + 1 .. SnMod /\ m \notin DOMAIN r.buffer /\ m \in Nat
      BY <2>2, <2>3 DEF T
    <2> HIDE DEF o
    <2>5. o \in 0 .. SnMod - 1 /\ o = U % SnMod
      BY <1>0 DEF o
    <2>5a. m \in Int /\ o \in Int /\ 0 <= o /\ o + 1 <= m /\ m <= SnMod /\ SnMod \in Nat
      BY <1>0, <2>4, <2>5
    <2>6. FirstMissing(r, o + 1) = m % SnMod
      BY DEF FirstMissing, m, T
    <2>7. V \in Nat /\ V > U /\ V - U <= SnMod
      BY <1>0, <2>4, <2>5
    <2>8. V % SnMod = m % SnMod
      <3>1. (o + (m - o)) % SnMod = (U + (m - o)) % SnMod
        <4>1. m - o \in Int
          BY <2>4, <2>5
        <4> QED
          BY <4>1, SnAdd DEF o
      <3>2. o + (m - o) = m
        BY <2>4, <2>5
      <3> QED
        BY <3>1, <3>2
    <2>9. \A x \in U .. V - 1 : x \in B
      <3> TAKE x \in U .. V - 1
      <3>1. x \in U .. U + SnMod - 1 /\ x \in Int
        BY <1>0, <2>7
      <3> DEFINE y == o + (x - U)
      <3>1a. y \in Int /\ o <= y /\ y < m /\ x - U \in Int /\ (x # U => o + 1 <= y)
        BY <2>5a
      <3>2. x % SnMod = y
        <4>1. y \in 0 .. SnMod - 1 /\ x - U \in Int
          BY <2>5a, <3>1a
        <4>2. (o + (x - U)) % SnMod = (U + (x - U)) % SnMod
          BY <4>1, SnAdd DEF o
        <4>3. U + (x - U) = x
          OBVIOUS
        <4>4. y = SnMod * 0 + y /\ y \in Int
          BY <1>0, <4>1
        <4>5. y % SnMod = y
          BY <4>1, <4>4, SnUnique
        <4> QED
          BY <4>2, <4>3, <4>5
      <3>3. y \in DOMAIN r.buffer
        <4>1. CASE x = U
          <5>1. y = r.vrUr
            BY <2>5, <4>1
          <5> QED
            BY <1>4, <5>1
        <4>2. CASE x # U
          <5>1. y \in o + 1 .. SnMod /\ y < m /\ y \in Int
            BY <2>5a, <3>1a, <4>2
          <5>2. y \notin T
            BY <2>3, <2>5a, <5>1
          <5> HIDE DEF y
          <5> QED
            BY <5>1, <5>2 DEF T
        <4> QED
          BY <4>1, <4>2
      <3>4. x % SnMod \in DOMAIN r.buffer
        BY <3>2, <3>3
      <3>5. U \in Int
        OBVIOUS
      <3> QED
        BY <1>2, <3>1, <3>4, <3>5, InHolds
    <2>10. V - 1 \in B /\ V \in U .. H
      <3>1. V - 1 \in U .. V - 1
        BY <2>7
      <3>2. V - 1 \in B
        BY <2>9, <3>1
      <3>3. V - 1 \in U .. H - 1
        BY <3>2
      <3> QED
        BY <2>7, <3>2, <3>3
    <2> DEFINE s == [r EXCEPT !.vrUr = V % SnMod]
               q == NrSlReassembleSnInterval(s, U % SnMod, V % SnMod, base % SnMod)
    <2>11. AdvanceVrUr(r, base % SnMod) = q
      BY <1>4, <2>5, <2>6, <2>8 DEF AdvanceVrUr
    <2> HIDE DEF V
    <2>12. /\ DOMAIN s = Fields /\ s.vrUr = V % SnMod /\ s.up = r.up /\ s.buffer = r.buffer
           /\ s.vrUx = r.vrUx /\ s.vrUh = r.vrUh /\ s.timer = r.timer /\ s.firstPduRxed = r.firstPduRxed
           /\ s.sdus = r.sdus /\ s.expected = r.expected /\ s.state = r.state /\ s.keepS0 = r.keepS0
      BY DEF Fields
    <2> HIDE DEF s
    <2>13. ReassemblyOK(s, U, LastOf(s.up, l0), P, N, tx, sz)
      BY <2>12 DEF ReassemblyOK
    <2>14. V - base < SnMod
      BY <1>0, <2>10
    <2>15. Advanced(s, q, B, V, l0, P, N, tx, sz)
      BY <2>10, <2>12, <2>13, <2>14, IntervalDelivers
    <2>16. Advanced(r, q, B, V, l0, P, N, tx, sz)
      BY <2>12, <2>15 DEF Advanced
    <2> QED
      BY <2>10, <2>11, <2>16
  <1> QED
    BY <1>3, <1>4

\* The window has moved up to K.
Moved(r, q, K) ==
    /\ DOMAIN q = Fields /\ q.vrUh = K % SnMod
    /\ q.vrUr = r.vrUr /\ q.vrUx = r.vrUx /\ q.buffer = r.buffer /\ q.timer = r.timer
    /\ q.firstPduRxed = r.firstPduRxed /\ q.expected = r.expected /\ q.state = r.state
    /\ q.keepS0 = r.keepS0 /\ q.sdus = r.sdus /\ q.up = r.up

\* MoveWindow: the window moves up to a new PDU, and nothing falls out of it.
LEMMA MovesWindow ==
    ASSUME NEW P, NEW U \in Nat, NEW H \in Nat, NEW n \in Nat, NEW K \in Nat,
           U <= H, U <= n, H <= K, n < K, n < H => K = H, n >= H => K = n + 1,
           K - U < Window, 2 * Window <= SnMod,
           NEW r, DOMAIN r = Fields, r.vrUr = U % SnMod, r.vrUh = H % SnMod,
           NEW B, Holds(r.buffer, P, B), B \subseteq U .. K - 1
    PROVE  Moved(r, MoveWindow(r, n % SnMod), K)
  <1>0. SnMod \in Nat \ {0} /\ Window \in Nat /\ Window >= 1 /\ Window < SnMod
    BY RlcAssumption
  <1>1. Offset(n % SnMod, Base(r)) = n - (H - Window)
    <2>1. n \in Int /\ H \in Int /\ 0 <= n - (H - Window) /\ n - (H - Window) < SnMod
      BY <1>0
    <2> QED
      BY <2>1, OffsetFromBase
  <1>2. IsInsideReorderingWindow(r, n % SnMod) <=> n < H
    <2>1. n - (H - Window) < Window <=> n < H
      BY <1>0
    <2> QED
      BY <1>1, <2>1 DEF IsInsideReorderingWindow
  <1>3. CASE n < H
    <2>1. MoveWindow(r, n % SnMod) = r
      BY <1>2, <1>3 DEF MoveWindow
    <2>2. r.vrUh = K % SnMod
      BY <1>3
    <2> QED
      BY <2>1, <2>2 DEF Moved
  <1>4. CASE ~(n < H)
    <2> DEFINE s == [r EXCEPT !.vrUh = ((n % SnMod) + 1) % SnMod]
               inside == {sn \in DOMAIN s.buffer : IsInsideReorderingWindow(s, sn)}
               stop == IF inside = {} THEN SnMod ELSE Min(inside)
               m == NrSlReassembleOutsideWindow(s)
    <2>1. K = n + 1
      BY <1>4
    <2>2. ((n % SnMod) + 1) % SnMod = K % SnMod
      BY <2>1, SnAdd
    <2>3. Moved(r, s, K)
      BY <2>2 DEF Moved, Fields
    <2>4. s.vrUh = K % SnMod /\ s.buffer = r.buffer /\ s.vrUr = U % SnMod
      BY <2>3 DEF Moved
    <2>5. MoveWindow(r, n % SnMod) = IF IsInsideReorderingWindow(m, m.vrUr) THEN m
                                     ELSE [m EXCEPT !.vrUr = Base(m)]
      BY <1>2, <1>4 DEF MoveWindow
    <2>6. m = DeliverAll(s, 0, stop)
      BY DEF NrSlReassembleOutsideWindow
    <2> HIDE DEF s, m
    <2>7. \A x \in U .. K - 1 : IsInsideReorderingWindow(s, x % SnMod)
      <3> TAKE x \in U .. K - 1
      <3>1. /\ x \in Int /\ K \in Int /\ 0 <= x - (K - Window) /\ x - (K - Window) < SnMod
            /\ x - (K - Window) < Window
        BY <1>0
      <3>2. Offset(x % SnMod, Base(s)) = x - (K - Window)
        BY <2>4, <3>1, OffsetFromBase
      <3> QED
        BY <3>1, <3>2 DEF IsInsideReorderingWindow
    <2>8. inside = DOMAIN r.buffer
      BY <2>4, <2>7 DEF Holds
    <2>9. \A x \in DOMAIN r.buffer : x \in 0 .. SnMod - 1
      <3>1. \A x \in B : x % SnMod \in 0 .. SnMod - 1
        <4> TAKE x \in B
        <4>1. x \in Int
          OBVIOUS
        <4> QED
          BY <4>1, SnIs
      <3> QED
        BY <3>1 DEF Holds
    <2> HIDE DEF inside
    <2>10. stop \in 0 .. SnMod /\ \A x \in DOMAIN r.buffer : stop <= x
      <3>1. CASE inside = {}
        BY <1>0, <2>8, <3>1
      <3>2. CASE inside # {}
        <4>1. inside \subseteq Nat
          BY <1>0, <2>8, <2>9
        <4>2. Min(inside) \in inside /\ \A y \in inside : Min(inside) <= y
          BY <3>2, <4>1, MinIs
        <4>3. stop = Min(inside) /\ stop \in 0 .. SnMod - 1
          BY <2>8, <2>9, <3>2, <4>2
        <4> HIDE DEF stop
        <4> QED
          BY <1>0, <2>8, <4>2, <4>3
      <3> QED
        BY <3>1, <3>2
    <2> HIDE DEF stop
    <2>11. \A k \in 1 .. stop : (0 + k - 1) % SnMod \notin DOMAIN s.buffer
      <3> TAKE k \in 1 .. stop
      <3>1. 0 + k - 1 \in 0 .. SnMod - 1 /\ 0 + k - 1 < stop /\ stop \in Int
        BY <1>0, <2>10
      <3>2. PICK y \in Int : y = 0 + k - 1
        BY <3>1
      <3>3. y = SnMod * 0 + y
        BY <1>0
      <3>4. y % SnMod = y
        BY <3>1, <3>2, <3>3, SnUnique
      <3>5. y \notin DOMAIN r.buffer
        <4>1. ~(stop <= y)
          BY <3>1, <3>2
        <4> QED
          BY <2>10, <4>1
      <3> QED
        BY <2>4, <3>2, <3>4, <3>5
    <2>12. m = s
      <3>1. stop \in Nat
        BY <1>0, <2>10
      <3> QED
        BY <2>6, <2>11, <3>1, DeliverNone
    <2>13. IsInsideReorderingWindow(m, m.vrUr)
      <3>1. U \in U .. K - 1
        BY <1>0
      <3> QED
        BY <2>4, <2>7, <2>12, <3>1
    <2> QED
      BY <2>3, <2>5, <2>12, <2>13
  <1> QED
    BY <1>3, <1>4

\* The timer after a PDU was received, for numbers V, H and X.
TimerAfter(r, q, V, H, X) ==
    /\ DOMAIN q = Fields
    /\ q.vrUr = r.vrUr /\ q.vrUh = r.vrUh /\ q.buffer = r.buffer
    /\ q.firstPduRxed = r.firstPduRxed /\ q.expected = r.expected /\ q.state = r.state
    /\ q.keepS0 = r.keepS0 /\ q.sdus = r.sdus /\ q.up = r.up
    /\ q.timer \in BOOLEAN /\ (q.timer <=> V < H)
    /\ r.timer /\ V < X => q.vrUx = r.vrUx
    /\ ~(r.timer /\ V < X) /\ V < H => q.vrUx = H % SnMod

LEMMA Restarts ==
    ASSUME NEW V \in Nat, NEW H \in Nat, V <= H, H - V < Window,
           NEW r, DOMAIN r = Fields, r.vrUr = V % SnMod, r.vrUh = H % SnMod, r.timer = FALSE,
           NEW X
    PROVE  TimerAfter(r, Restart(r), V, H, X)
  <1>0. SnMod \in Nat \ {0} /\ Window \in Nat /\ Window >= 1 /\ Window < SnMod
    BY RlcAssumption
  <1>1. /\ Offset(V % SnMod, Base(r)) = V - (H - Window)
        /\ Offset(H % SnMod, Base(r)) = H - (H - Window)
    <2>1. /\ V \in Int /\ H \in Int /\ 0 <= V - (H - Window) /\ V - (H - Window) < SnMod
          /\ 0 <= H - (H - Window) /\ H - (H - Window) < SnMod
      BY <1>0
    <2> QED
      BY <2>1, OffsetFromBase
  <1>2. Starts(r) <=> V < H
    <2>1. V - (H - Window) < H - (H - Window) <=> V < H
      BY <1>0
    <2> QED
      BY <1>1, <2>1 DEF Starts, Below
  <1>3. CASE V < H
    <2>1. Restart(r) = [r EXCEPT !.timer = TRUE, !.vrUx = r.vrUh]
      BY <1>2, <1>3 DEF Restart
    <2> QED
      BY <1>3, <2>1 DEF TimerAfter, Fields
  <1>4. CASE ~(V < H)
    <2>1. Restart(r) = r
      BY <1>2, <1>4 DEF Restart
    <2> QED
      BY <1>4, <2>1 DEF TimerAfter
  <1> QED
    BY <1>3, <1>4

\* ReorderingTimer: it runs while something is missing.
LEMMA TimerIs ==
    ASSUME NEW V \in Nat, NEW H \in Nat, V <= H, H - V < Window, 
           NEW r, DOMAIN r = Fields, r.vrUr = V % SnMod, r.vrUh = H % SnMod, r.timer \in BOOLEAN,
           NEW X, r.timer => X \in Nat /\ r.vrUx = X % SnMod /\ X <= H /\ H - X < Window
    PROVE  TimerAfter(r, ReorderingTimer(r), V, H, X)
  <1>0. SnMod \in Nat \ {0} /\ Window \in Nat /\ Window >= 1 /\ Window < SnMod
    BY RlcAssumption
  <1> DEFINE stops == \/ ~Below(r.vrUr, r.vrUx, Base(r))
                      \/ ~IsInsideReorderingWindow(r, r.vrUx) /\ r.vrUx /= r.vrUh
  <1>1. ReorderingTimer(r) = IF r.timer /\ ~stops THEN r ELSE Restart([r EXCEPT !.timer = FALSE])
    BY DEF ReorderingTimer
  <1>2. ASSUME r.timer PROVE stops <=> ~(V < X)
    <2>1. X \in Nat /\ r.vrUx = X % SnMod /\ X <= H /\ H - X < Window
      BY <1>2
    <2>2. /\ Offset(V % SnMod, Base(r)) = V - (H - Window)
          /\ Offset(X % SnMod, Base(r)) = X - (H - Window)
      <3>1. /\ V \in Int /\ X \in Int /\ 0 <= V - (H - Window) /\ V - (H - Window) < SnMod
            /\ 0 <= X - (H - Window) /\ X - (H - Window) < SnMod /\ H \in Int
        BY <1>0, <2>1
      <3> QED
        BY <3>1, OffsetFromBase
    <2>3. Below(r.vrUr, r.vrUx, Base(r)) <=> V < X
      <3>1. V - (H - Window) < X - (H - Window) <=> V < X
        BY <1>0, <2>1
      <3> QED
        BY <2>1, <2>2, <3>1 DEF Below
    <2>4. X # H => IsInsideReorderingWindow(r, r.vrUx)
      <3>1. X # H => X - (H - Window) < Window
        BY <1>0, <2>1
      <3> QED
        BY <2>1, <2>2, <3>1 DEF IsInsideReorderingWindow
    <2>5. X = H => r.vrUx = r.vrUh
      BY <2>1
    <2> QED
      BY <2>3, <2>4, <2>5
  <1> HIDE DEF stops
  <1>3. CASE r.timer /\ V < X
    <2>1. ReorderingTimer(r) = r
      BY <1>1, <1>2, <1>3
    <2>2. V < H
      BY <1>3
    <2> QED
      BY <1>3, <2>1, <2>2 DEF TimerAfter
  <1>4. CASE ~(r.timer /\ V < X)
    <2> DEFINE s == [r EXCEPT !.timer = FALSE]
    <2>1. ReorderingTimer(r) = Restart(s)
      BY <1>1, <1>2, <1>4
    <2>2. /\ DOMAIN s = Fields /\ s.timer = FALSE
          /\ s.vrUr = r.vrUr /\ s.vrUh = r.vrUh /\ s.buffer = r.buffer
          /\ s.firstPduRxed = r.firstPduRxed /\ s.expected = r.expected /\ s.state = r.state
          /\ s.keepS0 = r.keepS0 /\ s.sdus = r.sdus /\ s.up = r.up
      BY DEF Fields
    <2> HIDE DEF s
    <2>3. TimerAfter(s, Restart(s), V, H, X)
      BY <2>2, Restarts
    <2> QED
      BY <1>4, <2>1, <2>2, <2>3 DEF TimerAfter
  <1> QED
    BY <1>3, <1>4

-----------------------------------------------------------------------------
(* The width of the window                                                  *)

\* An interval covered by two small sets and a short interval at its end.
LEMMA Spread ==
    ASSUME NEW U \in Nat, NEW T \in Nat, U <= T, NEW g \in Nat,
           NEW C, IsFiniteSet(C), NEW M, IsFiniteSet(M),
           \A x \in U .. T - 1 : x \in C \/ x \in M \/ x >= T - g
    PROVE  T - U <= Cardinality(C) + Cardinality(M) + g
  <1> DEFINE D == T - g .. T - 1
             S == (C \cup M) \cup D
  <1>1. IsFiniteSet(D) /\ Cardinality(D) = g
    <2>1. T - g \in Int /\ T - 1 \in Int
      OBVIOUS
    <2>2. IsFiniteSet(D) /\ Cardinality(D) = IF T - g > T - 1 THEN 0 ELSE (T - 1) - (T - g) + 1
      BY <2>1, FS_Interval
    <2> QED
      BY <2>2
  <1>2. IsFiniteSet(U .. T - 1) /\ Cardinality(U .. T - 1) = T - U
    <2>1. U \in Int /\ T - 1 \in Int
      OBVIOUS
    <2>2. IsFiniteSet(U .. T - 1) /\ Cardinality(U .. T - 1) = IF U > T - 1 THEN 0 ELSE (T - 1) - U + 1
      BY <2>1, FS_Interval
    <2> QED
      BY <2>2
  <1>3. U .. T - 1 \subseteq S
    OBVIOUS
  <1> HIDE DEF D
  <1>4. /\ IsFiniteSet(C \cup M)
        /\ Cardinality(C \cup M) = Cardinality(C) + Cardinality(M) - Cardinality(C \cap M)
    BY FS_Union
  <1>5. /\ IsFiniteSet(S)
        /\ Cardinality(S) = Cardinality(C \cup M) + Cardinality(D) - Cardinality((C \cup M) \cap D)
    BY <1>1, <1>4, FS_Union
  <1>6. IsFiniteSet(C \cap M) /\ IsFiniteSet((C \cup M) \cap D)
    BY <1>4, FS_Intersection
  <1> HIDE DEF S
  <1>7. /\ Cardinality(C) \in Nat /\ Cardinality(M) \in Nat /\ Cardinality(C \cup M) \in Nat
        /\ Cardinality(S) \in Nat /\ Cardinality(C \cap M) \in Nat
        /\ Cardinality((C \cup M) \cap D) \in Nat
    BY <1>4, <1>5, <1>6, FS_CardinalityType
  <1>8. Cardinality(U .. T - 1) <= Cardinality(S)
    BY <1>3, <1>5, FS_Subset
  <1> QED
    BY <1>1, <1>2, <1>4, <1>5, <1>7, <1>8

LEMMA MissingFinite ==
    ASSUME NEW B, NEW U \in Nat, NEW a, NEW N \in Nat
    PROVE  IsFiniteSet(Missing(B, U, a, N)) /\ Cardinality(Missing(B, U, a, N)) \in Nat
  <1>1. IsFiniteSet(U .. N - 1)
    <2>1. U \in Int /\ N - 1 \in Int
      OBVIOUS
    <2> QED
      BY <2>1, FS_Interval
  <1>2. Missing(B, U, a, N) \subseteq U .. N - 1
    BY DEF Missing
  <1> QED
    BY <1>1, <1>2, FS_Subset, FS_CardinalityType

\* A set of numbers in an interval, and what is kept of it.
LEMMA PartFinite ==
    ASSUME NEW U \in Nat, NEW H \in Nat, NEW B, B \subseteq U .. H - 1
    PROVE  /\ IsFiniteSet(B) /\ Cardinality(B) \in Nat
           /\ \A C : C \subseteq B => /\ IsFiniteSet(C) /\ Cardinality(C) \in Nat
                                      /\ Cardinality(C) <= Cardinality(B)
  <1>1. IsFiniteSet(U .. H - 1)
    <2>1. U \in Int /\ H - 1 \in Int
      OBVIOUS
    <2> QED
      BY <2>1, FS_Interval
  <1>2. IsFiniteSet(B)
    BY <1>1, FS_Subset
  <1>3. \A C : C \subseteq B => IsFiniteSet(C) /\ Cardinality(C) <= Cardinality(B)
    BY <1>2, FS_Subset
  <1> QED
    BY <1>2, <1>3, FS_CardinalityType

\* What may be added to a small set.
LEMMA AddsOne ==
    ASSUME NEW B, IsFiniteSet(B), NEW n, NEW C, C \subseteq B \cup {n}
    PROVE  /\ IsFiniteSet(C) /\ Cardinality(C) \in Nat
           /\ Cardinality(B) \in Nat /\ Cardinality(C) <= Cardinality(B) + 1
  <1>1. /\ IsFiniteSet(B \cup {n})
        /\ Cardinality(B \cup {n}) = IF n \in B THEN Cardinality(B) ELSE Cardinality(B) + 1
    BY FS_AddElement
  <1>2. IsFiniteSet(C) /\ Cardinality(C) <= Cardinality(B \cup {n})
    BY <1>1, FS_Subset
  <1>3. Cardinality(B) \in Nat /\ Cardinality(C) \in Nat
    BY <1>2, FS_CardinalityType
  <1> QED
    BY <1>1, <1>2, <1>3

\* The numbers the model bounds.
LEMMA BoundsAre ==
    /\ MaxWaiting \in Nat /\ MaxLate \in Nat /\ MaxFaults \in Nat
    /\ SnMod \in Nat \ {0} /\ Window \in Nat /\ Window >= 1 /\ Window < SnMod
  BY RlcAssumption

(***************************************************************************)
(* The PDUs from VR(UR) to VR(UH) fit in the window: they were received,    *)
(* are in flight, so that few overtook them, or were lost.                  *)
(***************************************************************************)
LEMMA InsideWindow ==
    ASSUME WindowSuffices, NEW P, NEW N \in Nat, NEW a, NEW r, NEW B, NEW U, NEW H, NEW X,
           NEW w, NEW f,
           AirOK(a, H, P, N), WindowOK(r, B, U, H, X, P, N),
           CountOK(B, U, H, X, a, N, w, f)
    PROVE  H - U < Window
  <1>0. /\ U \in Nat /\ H \in Nat /\ U <= H /\ H <= N /\ B \subseteq U .. H - 1
        /\ (U < H => H - 1 \in B)
    BY DEF WindowOK
  <1>a. /\ w \in 0 .. MaxWaiting /\ f \in 0 .. MaxFaults
        /\ Cardinality(B) <= MaxWaiting + 1 + w
        /\ Cardinality(Missing(B, U, a, N)) <= f
    BY DEF CountOK
  <1>1. CASE ~(U < H)
    BY <1>0, <1>1, BoundsAre
  <1>2. CASE U < H
    <2> DEFINE M == Missing(B, U, a, N)
               C == B \ {H - 1}
               T == H - 1
    <2>1. IsFiniteSet(M) /\ Cardinality(M) \in Nat
      BY <1>0, MissingFinite
    <2>2. IsFiniteSet(B) /\ Cardinality(B) \in Nat
      BY <1>0, PartFinite
    <2>3. IsFiniteSet(C) /\ Cardinality(C) = Cardinality(B) - 1
      BY <1>0, <1>2, <2>2, FS_RemoveElement
    <2>4. \A x \in U .. T - 1 : x \in C \/ x \in M \/ x >= T - MaxLate
      <3> TAKE x \in U .. T - 1
      <3>1. x \in Int /\ x \in U .. N - 1 /\ x # H - 1
        BY <1>0
      <3>2. CASE x \in NumbersOf(a)
        <4>1. PICK i \in 1 .. Len(a) : x = a[i].n
          BY <3>2 DEF NumbersOf
        <4>2. H - 1 - MaxLate <= x
          BY <4>1 DEF AirOK
        <4> QED
          BY <1>0, <3>1, <4>2, BoundsAre
      <3>3. CASE x \notin NumbersOf(a)
        BY <3>1, <3>3 DEF Missing
      <3> QED
        BY <3>2, <3>3
    <2>5. T \in Nat /\ U <= T /\ MaxLate \in Nat
      BY <1>0, <1>2, BoundsAre
    <2> HIDE DEF M, C, T
    <2>6. T - U <= Cardinality(C) + Cardinality(M) + MaxLate
      BY <1>0, <2>1, <2>3, <2>4, <2>5, Spread
    <2>7. Cardinality(M) <= f /\ T = H - 1
      BY <1>a DEF M, T
    <2> QED
      BY <1>0, <1>a, <2>1, <2>2, <2>3, <2>6, <2>7, BoundsAre DEF WindowSuffices
  <1> QED
    BY <1>1, <1>2

\* The same, with the PDU that is now received.
LEMMA StaysInWindow ==
    ASSUME WindowSuffices, NEW P, NEW N \in Nat, NEW a, NEW r, NEW B, NEW U, NEW H, NEW X,
           NEW w, NEW f,
           AirOK(a, H, P, N), WindowOK(r, B, U, H, X, P, N),
           CountOK(B, U, H, X, a, N, w, f), U < H => w < MaxWaiting,
           NEW n \in 0 .. N - 1, H <= n,
           \A j \in 1 .. Len(a) : n - MaxLate <= a[j].n
    PROVE  n + 1 - U < Window
  <1>0. U \in Nat /\ H \in Nat /\ U <= H /\ H <= N /\ B \subseteq U .. H - 1
    BY DEF WindowOK
  <1>a. /\ w \in 0 .. MaxWaiting /\ f \in 0 .. MaxFaults
        /\ Cardinality(B) <= MaxWaiting + 1 + w
        /\ Cardinality(Missing(B, U, a, N)) <= f
    BY DEF CountOK
  <1> DEFINE M == Missing(B, U, a, N)
  <1>1. IsFiniteSet(M) /\ Cardinality(M) \in Nat
    BY <1>0, MissingFinite
  <1>2. IsFiniteSet(B) /\ Cardinality(B) \in Nat
    BY <1>0, PartFinite
  <1>3. \A x \in U .. n - 1 : x \in B \/ x \in M \/ x >= n - MaxLate
    <2> TAKE x \in U .. n - 1
    <2>1. x \in Int /\ x \in U .. N - 1
      BY <1>0
    <2>2. CASE x \in NumbersOf(a)
      <3>1. PICK i \in 1 .. Len(a) : x = a[i].n
        BY <2>2 DEF NumbersOf
      <3>2. n - MaxLate <= x
        BY <3>1
      <3> QED
        BY <1>0, <2>1, <3>2, BoundsAre
    <2>3. CASE x \notin NumbersOf(a)
      BY <2>1, <2>3 DEF Missing
    <2> QED
      BY <2>2, <2>3
  <1>4. n \in Nat /\ U <= n /\ MaxLate \in Nat
    BY <1>0, BoundsAre
  <1>5. Cardinality(M) <= f
    BY <1>a
  <1> HIDE DEF M
  <1>6. n - U <= Cardinality(B) + Cardinality(M) + MaxLate
    BY <1>0, <1>1, <1>2, <1>3, <1>4, Spread
  <1>7. CASE U < H
    BY <1>0, <1>a, <1>1, <1>2, <1>4, <1>5, <1>6, <1>7, BoundsAre, SMTT(20) DEF WindowSuffices
  <1>8. CASE ~(U < H)
    <2>1. B = {}
      BY <1>0, <1>8
    <2>2. Cardinality(B) = 0
      BY <2>1, FS_EmptySet
    <2> QED
      BY <1>0, <1>a, <1>1, <2>2, <1>4, <1>5, <1>6, BoundsAre DEF WindowSuffices
  <1> QED
    BY <1>7, <1>8

-----------------------------------------------------------------------------
(* DoReceiveNrSlRlcPdu                                                      *)

\* The receiver and the channel, of which RlcInv speaks.
RxOK(r, B, U, H, X, P, N, tx, sz, a, w, f, l) ==
    /\ AirOK(a, H, P, N)
    /\ WindowOK(r, B, U, H, X, P, N)
    /\ TimerOK(r, B, U, H, X)
    /\ CountOK(B, U, H, X, a, N, w, f)
    /\ ReassemblyOK(r, U, l, P, N, tx, sz)

\* What is missing shrinks.
LEMMA FewerMissing ==
    ASSUME NEW B, NEW U \in Nat, NEW a, NEW N \in Nat, NEW f,
           Cardinality(Missing(B, U, a, N)) <= f, f \in Nat,
           NEW B2, NEW V \in Nat, NEW a2,
           Missing(B2, V, a2, N) \subseteq Missing(B, U, a, N)
    PROVE  Cardinality(Missing(B2, V, a2, N)) <= f
  <1>1. /\ IsFiniteSet(Missing(B, U, a, N)) /\ Cardinality(Missing(B, U, a, N)) \in Nat
        /\ Cardinality(Missing(B2, V, a2, N)) \in Nat
    BY MissingFinite
  <1>2. Cardinality(Missing(B2, V, a2, N)) <= Cardinality(Missing(B, U, a, N))
    BY <1>1, FS_Subset
  <1> QED
    BY <1>1, <1>2

\* FirstPdu: the window begins at the first PDU that is received.
LEMMA FirstPduReady ==
    ASSUME NEW P, NEW N \in Nat, NEW tx, NEW sz, NEW a, NEW r, DOMAIN r = Fields,
           NEW B, NEW U, NEW H, NEW X, NEW w, NEW f, NEW l,
           RxOK(r, B, U, H, X, P, N, tx, sz, a, w, f, l), StartOK(r, U, H),
           NEW n \in 0 .. N - 1, \A j \in 1 .. Len(a) : n - MaxLate <= a[j].n,
           NEW q, q = FirstPdu(r, n % SnMod)
    PROVE  /\ DOMAIN q = Fields /\ q.up = r.up /\ q.firstPduRxed = TRUE
           /\ q.timer = r.timer /\ q.vrUx = r.vrUx
           /\ \E V, K : RxOK(q, B, V, K, X, P, N, tx, sz, a, w, f, l)
  <1>1. CASE r.firstPduRxed
    <2>1. q = r
      BY <1>1 DEF FirstPdu
    <2>2. r.firstPduRxed = TRUE
      BY <1>1 DEF StartOK
    <2> QED
      BY <2>1, <2>2
  <1>2. CASE ~r.firstPduRxed
    <2>1. U = 0 /\ H = 0 /\ r.state = "WAITING_S0_FULL"
      BY <1>2 DEF StartOK
    <2>2. q = [r EXCEPT !.vrUr = n % SnMod, !.vrUh = n % SnMod, !.expected = n % SnMod,
                        !.firstPduRxed = TRUE]
      BY <1>2 DEF FirstPdu
    <2>3. /\ DOMAIN q = Fields /\ q.up = r.up /\ q.firstPduRxed = TRUE
          /\ q.timer = r.timer /\ q.vrUx = r.vrUx
          /\ q.vrUr = n % SnMod /\ q.vrUh = n % SnMod /\ q.expected = n % SnMod
          /\ q.buffer = r.buffer /\ q.state = r.state /\ q.sdus = r.sdus
      BY <2>2 DEF Fields
    <2>4. B = {}
      BY <2>1 DEF RxOK, WindowOK
    <2>5. AirOK(a, n, P, N)
      <3>1. \A i \in 1 .. Len(a) : n - 1 - MaxLate <= a[i].n
        <4> TAKE i \in 1 .. Len(a)
        <4>1. a[i].n \in 0 .. N - 1 /\ n - MaxLate <= a[i].n
          BY DEF RxOK, AirOK
        <4> QED
          BY <4>1, BoundsAre, SMTT(20)
      <3> QED
        BY <3>1 DEF RxOK, AirOK
    <2>6. WindowOK(q, B, n, n, X, P, N)
      <3>1. n \in Nat /\ n <= N /\ n <= n /\ ~(n < n)
        OBVIOUS
      <3>2. Holds(q.buffer, P, B) /\ X \in Nat
        BY <2>3 DEF RxOK, WindowOK
      <3> QED
        BY <2>3, <2>4, <3>1, <3>2 DEF WindowOK
    <2>7. TimerOK(q, B, n, n, X)
      <3>1. ~(n < n)
        OBVIOUS
      <3>2. r.timer = FALSE
        <4>1. ~(U < H)
          BY <2>1
        <4> QED
          BY <4>1 DEF RxOK, TimerOK
      <3> QED
        BY <2>3, <3>1, <3>2 DEF TimerOK
    <2>8. CountOK(B, n, n, X, a, N, w, f)
      <3>1. f \in Nat /\ n \in Nat /\ U \in Nat
        BY <2>1, BoundsAre DEF RxOK, CountOK
      <3>2. Missing(B, n, a, N) \subseteq Missing(B, U, a, N)
        <4>1. n .. N - 1 \subseteq U .. N - 1
          BY <2>1
        <4> QED
          BY <4>1 DEF Missing
      <3>3. Cardinality(Missing(B, n, a, N)) <= f
        <4>1. Cardinality(Missing(B, U, a, N)) <= f
          BY DEF RxOK, CountOK
        <4> QED
          BY <3>1, <3>2, <4>1, FewerMissing
      <3>4. ~(n < n)
        OBVIOUS
      <3> QED
        BY <3>3, <3>4 DEF RxOK, CountOK
    <2>9. ReassemblyOK(q, n, l, P, N, tx, sz)
      <3>1. ReassemblyOK(r, 0, l, P, N, tx, sz)
        BY <2>1 DEF RxOK
      <3>2. \A m \in n .. N - 1 : m \in 0 .. N - 1
        OBVIOUS
      <3>3. q.state # "WAITING_SI_SF"
        BY <2>1, <2>3
      <3>4. \A m \in n .. N - 1 : \A i \in 1 .. Len(P[m].data) : l < P[m].data[i].sdu
        BY <3>1, <3>2 DEF ReassemblyOK
      <3> QED
        BY <2>3, <3>1, <3>3, <3>4 DEF ReassemblyOK
    <2>10. RxOK(q, B, n, n, X, P, N, tx, sz, a, w, f, l)
      BY <2>5, <2>6, <2>7, <2>8, <2>9 DEF RxOK
    <2> QED
      BY <2>3, <2>10
  <1> QED
    BY <1>1, <1>2

\* Discarded: a PDU below VR(UR), or one that is in the reception buffer.
LEMMA DiscardedIs ==
    ASSUME WindowSuffices, NEW P, NEW U \in Nat, NEW H \in Nat, U <= H, H - U < Window,
           NEW n \in Nat, H - 1 - MaxLate <= n, n - U < Window,
           NEW r, r.vrUr = U % SnMod, r.vrUh = H % SnMod,
           NEW B, Holds(r.buffer, P, B), B \subseteq U .. H - 1
    PROVE  Discarded(r, n % SnMod) <=> n < U \/ (U < n /\ n < H /\ n \in B)
  <1>1. H - Window <= n /\ n - H < Window /\ 2 * Window <= SnMod
    BY BoundsAre DEF WindowSuffices
  <1>2. /\ Offset(n % SnMod, Base(r)) = n - (H - Window)
        /\ Offset(U % SnMod, Base(r)) = U - (H - Window)
        /\ Offset(H % SnMod, Base(r)) = H - (H - Window)
    <2>1. /\ n \in Int /\ H \in Int /\ U \in Int
          /\ 0 <= n - (H - Window) /\ n - (H - Window) < SnMod
          /\ 0 <= U - (H - Window) /\ U - (H - Window) < SnMod
          /\ 0 <= H - (H - Window) /\ H - (H - Window) < SnMod
      BY <1>1, BoundsAre
    <2> QED
      BY <2>1, OffsetFromBase
  <1>3. /\ n - (H - Window) < U - (H - Window) <=> n < U
        /\ U - (H - Window) < n - (H - Window) <=> U < n
        /\ n - (H - Window) < H - (H - Window) <=> n < H
    BY BoundsAre
  <1>4. U < n /\ n < H => (n % SnMod \in DOMAIN r.buffer <=> n \in B)
    <2>1. \A x \in U .. H - 1 : x \in U .. U + SnMod - 1
      BY BoundsAre
    <2>2. U < n /\ n < H => n \in U .. U + SnMod - 1
      BY BoundsAre
    <2>3. U \in Int /\ B \subseteq U .. U + SnMod - 1
      BY <2>1
    <2> QED
      BY <2>2, <2>3, InHolds
  <1>5. /\ Below(n % SnMod, r.vrUr, Base(r)) <=> n < U
        /\ Below(r.vrUr, n % SnMod, Base(r)) <=> U < n
        /\ Below(n % SnMod, r.vrUh, Base(r)) <=> n < H
    BY <1>2, <1>3 DEF Below
  <1> QED
    BY <1>4, <1>5 DEF Discarded

\* A PDU with number n is in the reception buffer, the window ends at K, and
\* VR(UR) has moved to V.
Received(r, q, B, n, V, K, X, l, P, N, tx, sz) ==
    /\ DOMAIN q = Fields /\ q.firstPduRxed = r.firstPduRxed
    /\ q.vrUr = V % SnMod /\ q.vrUh = K % SnMod
    /\ Holds(q.buffer, P, (B \cup {n}) \ (0 .. V - 1))
    /\ UpOK(q.up, l, sz)
    /\ ReassemblyOK(q, V, LastOf(q.up, l), P, N, tx, sz)
    /\ q.timer \in BOOLEAN /\ (q.timer <=> V < K)
    /\ r.timer /\ V < X => q.vrUx = r.vrUx
    /\ ~(r.timer /\ V < X) /\ V < K => q.vrUx = K % SnMod

\* The modulus base is the lower edge of the window.
LEMMA BaseIs ==
    ASSUME NEW r, NEW H \in Nat, r.vrUh = H % SnMod
    PROVE  Base(r) = (H - Window) % SnMod
  <1>1. -Window \in Int /\ H \in Int /\ H + -Window = H - Window /\ H % SnMod \in Int
    BY BoundsAre, SnIs
  <1>2. ((H % SnMod) + -Window) % SnMod = (H + -Window) % SnMod
    BY <1>1, SnAdd
  <1>3. (H % SnMod) + -Window = (H % SnMod) - Window
    BY <1>1, BoundsAre
  <1> QED
    BY <1>1, <1>2, <1>3 DEF Base

\* Where nothing has been delivered in this step.
LEMMA NothingUp ==
    ASSUME NEW l, NEW sz
    PROVE  UpOK(<< >>, l, sz) /\ LastOf(<< >>, l) = l
  <1>1. << >> \in Seq(Seq(Segment)) /\ Len(<< >>) = 0
    OBVIOUS
  <1> QED
    BY <1>1 DEF UpOK, LastOf

\* The parts of DoReceiveNrSlRlcPdu.
IsReceived(r, pdu, placed, moved, base) ==
    /\ placed = [r EXCEPT !.buffer =
                    [s \in DOMAIN @ \cup {pdu.sn} |-> IF s = pdu.sn THEN pdu ELSE @[s]]]
    /\ moved = MoveWindow(placed, pdu.sn)
    /\ base = IF moved.vrUr = r.vrUr THEN Base(r) ELSE Base(moved)

\* DoReceiveNrSlRlcPdu for a PDU that is not discarded.
LEMMA PlacesPdu ==
    ASSUME WindowSuffices, NEW P, NEW N \in Nat, NEW tx, NEW sz, SentOK(P, N, tx, sz),
           NEW r, DOMAIN r = Fields, r.up = << >>, NEW l,
           NEW B, NEW U, NEW H, NEW X, NEW n \in 0 .. N - 1, U <= n,
           WindowOK(r, B, U, H, X, P, N), TimerOK(r, B, U, H, X),
           ReassemblyOK(r, U, l, P, N, tx, sz),
           NEW K \in Nat, H <= K, n < K, K <= N, n < H => K = H, n >= H => K = n + 1,
           K - U < Window,
           NEW placed, NEW moved, NEW base, IsReceived(r, P[n], placed, moved, base)
    PROVE  \E V \in U .. K :
               Received(r, ReorderingTimer(AdvanceVrUr(moved, base)), B, n, V, K, X, l, P, N, tx, sz)
  <1>0. /\ U \in Nat /\ H \in Nat /\ X \in Nat /\ U <= H /\ B \subseteq U .. H - 1
        /\ r.vrUr = U % SnMod /\ r.vrUh = H % SnMod /\ Holds(r.buffer, P, B)
    BY DEF WindowOK
  <1> DEFINE C == B \cup {n}
  <1>1. P[n].sn = n % SnMod
    BY DEF SentOK, PduOK
  <1>2. C \subseteq U .. K - 1
    BY <1>0
  <1>3. Holds(placed.buffer, P, C)
    <2>1. \A x \in U .. K - 1 : x \in U .. U + SnMod - 1
      BY <1>0, BoundsAre
    <2>2. U \in Int /\ B \subseteq U .. U + SnMod - 1 /\ n \in U .. U + SnMod - 1
      BY <1>0, <1>2, <2>1
    <2>3. Holds([s \in DOMAIN r.buffer \cup {n % SnMod} |->
                     IF s = n % SnMod THEN P[n] ELSE r.buffer[s]], P, B \cup {n})
      <3>1. Holds(r.buffer, P, B)
        BY <1>0
      <3>2. \A q : q = P[n] =>
                Holds([s \in DOMAIN r.buffer \cup {n % SnMod} |->
                          IF s = n % SnMod THEN q ELSE r.buffer[s]], P, B \cup {n})
        BY <2>2, <3>1, HoldsPlaced, Zenon
      <3> QED
        BY <3>2, Zenon
    <2>4. placed.buffer = [s \in DOMAIN r.buffer \cup {n % SnMod} |->
                               IF s = n % SnMod THEN P[n] ELSE r.buffer[s]]
      BY <1>1 DEF Fields, IsReceived
    <2> QED
      BY <2>3, <2>4
  <1>4. /\ DOMAIN placed = Fields /\ placed.vrUr = r.vrUr /\ placed.vrUh = r.vrUh
        /\ placed.vrUx = r.vrUx /\ placed.timer = r.timer /\ placed.firstPduRxed = r.firstPduRxed
        /\ placed.expected = r.expected /\ placed.state = r.state /\ placed.keepS0 = r.keepS0
        /\ placed.sdus = r.sdus /\ placed.up = r.up
    BY DEF Fields, IsReceived
  <1>5. 2 * Window <= SnMod
    BY DEF WindowSuffices
  <1>6. Moved(placed, moved, K)
    <2>1. placed.vrUr = U % SnMod /\ placed.vrUh = H % SnMod /\ n \in Nat
      BY <1>0, <1>4
    <2>2. Moved(placed, MoveWindow(placed, n % SnMod), K)
      BY <1>0, <1>2, <1>3, <1>4, <1>5, <2>1, MovesWindow
    <2> QED
      BY <1>1, <2>2 DEF IsReceived
  <1>7. base = (H - Window) % SnMod
    <2>1. moved.vrUr = r.vrUr
      BY <1>4, <1>6 DEF Moved
    <2> QED
      BY <1>0, <2>1, BaseIs DEF IsReceived
  <1>8. /\ DOMAIN moved = Fields /\ moved.vrUr = U % SnMod /\ moved.vrUh = K % SnMod
        /\ moved.vrUx = r.vrUx /\ moved.timer = r.timer /\ moved.firstPduRxed = r.firstPduRxed
        /\ moved.expected = r.expected /\ moved.state = r.state /\ moved.keepS0 = r.keepS0
        /\ moved.sdus = r.sdus /\ moved.up = << >> /\ Holds(moved.buffer, P, C)
    BY <1>0, <1>3, <1>4, <1>6 DEF Moved
  <1> DEFINE adv == AdvanceVrUr(moved, base)
             q == ReorderingTimer(adv)
  <1>9. PICK V \in U .. K : Advanced(moved, adv, C, V, l, P, N, tx, sz)
    <2>1. /\ H - Window \in Int /\ 0 <= U - (H - Window) /\ K - (H - Window) < SnMod
          /\ K - U < SnMod /\ U <= K
      <3>1. U \in Nat /\ H \in Nat /\ U <= H
        BY <1>0
      <3> QED
        BY <3>1, <1>5, BoundsAre, SMTT(20)
    <2>2. UpOK(moved.up, l, sz) /\ LastOf(moved.up, l) = l
      BY <1>8, NothingUp
    <2>3. ReassemblyOK(moved, U, LastOf(moved.up, l), P, N, tx, sz)
      BY <1>8, <2>2 DEF ReassemblyOK
    <2>4. l \in Nat
      <3>1. l \in 0 .. Len(sz)
        BY DEF ReassemblyOK
      <3> QED
        BY <3>1
    <2> HIDE DEF C
    <2> QED
      BY <1>0, <1>2, <1>7, <1>8, <2>1, <2>2, <2>3, <2>4, Advances
  <1> HIDE DEF adv, q
  <1>10. /\ DOMAIN adv = Fields /\ adv.vrUr = V % SnMod /\ adv.vrUx = r.vrUx
         /\ adv.vrUh = K % SnMod /\ adv.timer = r.timer /\ adv.firstPduRxed = r.firstPduRxed
         /\ Holds(adv.buffer, P, C \ (0 .. V - 1))
         /\ UpOK(adv.up, l, sz)
         /\ ReassemblyOK(adv, V, LastOf(adv.up, l), P, N, tx, sz)
    BY <1>8, <1>9 DEF Advanced
  <1>11. TimerAfter(adv, q, V, K, X)
    <2>1. V \in Nat /\ V <= K /\ K - V < Window
      BY <1>0, BoundsAre
    <2>2. adv.timer \in BOOLEAN
      BY <1>10 DEF TimerOK
    <2>3. adv.timer => X \in Nat /\ adv.vrUx = X % SnMod /\ X <= K /\ K - X < Window
      <3>1. r.timer => r.vrUx = X % SnMod /\ U < X /\ X <= H
        BY DEF TimerOK
      <3> QED
        BY <1>0, <1>10, <3>1, BoundsAre
    <2> QED
      BY <1>10, <2>1, <2>2, <2>3, TimerIs DEF q
  <1>12. ReassemblyOK(q, V, LastOf(q.up, l), P, N, tx, sz)
    BY <1>10, <1>11 DEF TimerAfter, ReassemblyOK
  <1>13. Received(r, q, B, n, V, K, X, l, P, N, tx, sz)
    BY <1>10, <1>11, <1>12 DEF TimerAfter, Received
  <1> QED
    BY <1>13 DEF q, adv

\* The channel without PDU n, or with it when it will arrive once more.
AirAfter(a2, a, n) == NumbersOf(a) \subseteq NumbersOf(a2) \cup {n}

\* The channel does not go back behind the window.
LEMMA AirMoves ==
    ASSUME NEW P, NEW N \in Nat, NEW a, NEW H, AirOK(a, H, P, N),
           NEW K, \A j \in 1 .. Len(a) : K - 1 - MaxLate <= a[j].n
    PROVE  AirOK(a, K, P, N)
  BY DEF AirOK

\* A PDU that was placed in the reception buffer keeps the invariant.
LEMMA ReceivedOK ==
    ASSUME WindowSuffices, NEW P, NEW N \in Nat, NEW tx, NEW sz,
           NEW a, NEW r, NEW l, NEW B, NEW U, NEW H, NEW X, NEW w, NEW f,
           RxOK(r, B, U, H, X, P, N, tx, sz, a, w, f, l), U < H => w < MaxWaiting,
           NEW n \in 0 .. N - 1, U <= n,
           NEW K \in Nat, H <= K, n < K, K <= N, n < H => K = H, n >= H => K = n + 1,
           K - U < Window,
           NEW V \in U .. K, NEW q, Received(r, q, B, n, V, K, X, l, P, N, tx, sz),
           NEW a2, AirAfter(a2, a, n), AirOK(a2, K, P, N),
           NEW f2 \in 0 .. MaxFaults, f <= f2,
           NEW w2, w2 = IF q.timer /\ r.timer /\ q.vrUx = r.vrUx THEN w + 1 ELSE 0
    PROVE  \E B2, Y : RxOK(q, B2, V, K, Y, P, N, tx, sz, a2, w2, f2, LastOf(q.up, l))
  <1>0. /\ U \in Nat /\ H \in Nat /\ X \in Nat /\ U <= H /\ B \subseteq U .. H - 1
        /\ (U < H => H - 1 \in B)
        /\ r.timer \in BOOLEAN /\ (r.timer <=> U < H)
        /\ (U < H => r.vrUx = X % SnMod /\ U < X /\ X <= H /\ X - 1 \in B)
        /\ w \in 0 .. MaxWaiting /\ f \in 0 .. MaxFaults
        /\ Cardinality(B) <= MaxWaiting + 1 + w
        /\ (U < H => Cardinality(B \cap (X .. H - 1)) <= w)
        /\ Cardinality(Missing(B, U, a, N)) <= f
    BY DEF RxOK, WindowOK, TimerOK, CountOK
  <1>a. V \in Nat /\ U <= V /\ V <= K /\ n \in Nat
    BY <1>0
  <1>q. /\ q.vrUr = V % SnMod /\ q.vrUh = K % SnMod
        /\ Holds(q.buffer, P, (B \cup {n}) \ (0 .. V - 1))
        /\ q.timer \in BOOLEAN /\ (q.timer <=> V < K)
        /\ (r.timer /\ V < X => q.vrUx = r.vrUx)
        /\ (~(r.timer /\ V < X) /\ V < K => q.vrUx = K % SnMod)
        /\ ReassemblyOK(q, V, LastOf(q.up, l), P, N, tx, sz)
    BY DEF Received
  <1> DEFINE B2 == (B \cup {n}) \ (0 .. V - 1)
             Y == IF r.timer /\ V < X THEN X ELSE K
  <1>1. B2 \subseteq V .. K - 1
    BY <1>0, <1>a
  <1>2. V < K => K - 1 \in B2
    <2>1. K - 1 \in B \cup {n}
      BY <1>0, <1>a
    <2> QED
      BY <1>a, <2>1
  <1>3. WindowOK(q, B2, V, K, Y, P, N)
    <2>1. Y \in Nat
      BY <1>0
    <2> HIDE DEF B2, Y
    <2> QED
      BY <1>a, <1>q, <1>1, <1>2, <2>1 DEF WindowOK, B2
  <1>4. TimerOK(q, B2, V, K, Y)
    <2>1. CASE r.timer /\ V < X
      <3>1. Y = X /\ X - 1 \in B /\ X <= K /\ r.vrUx = X % SnMod
        BY <1>0, <2>1
      <3>2. X - 1 \in B2
        BY <1>0, <1>a, <2>1, <3>1
      <3> HIDE DEF B2, Y
      <3> QED
        BY <1>q, <2>1, <3>1, <3>2 DEF TimerOK
    <2>2. CASE ~(r.timer /\ V < X)
      <3>1. Y = K /\ K <= K
        BY <2>2
      <3> HIDE DEF B2, Y
      <3> QED
        BY <1>q, <1>2, <2>2, <3>1 DEF TimerOK
    <2> QED
      BY <2>1, <2>2
  <1>5. w2 = IF r.timer /\ V < X THEN w + 1 ELSE 0
    <2>1. CASE r.timer /\ V < X
      <3>1. q.timer /\ q.vrUx = r.vrUx
        BY <1>0, <1>a, <1>q, <2>1
      <3> QED
        BY <2>1, <3>1
    <2>2. CASE ~(r.timer /\ V < X)
      <3>1. ASSUME q.timer, r.timer, q.vrUx = r.vrUx PROVE FALSE
        <4>1. V < K /\ X <= V /\ U < X /\ K % SnMod = X % SnMod
          BY <1>0, <1>a, <1>q, <2>2, <3>1
        <4>2. K \in Int /\ X \in Int /\ K - X < SnMod /\ X - K < SnMod
          BY <1>0, <1>a, <4>1, BoundsAre
        <4>3. K = X
          BY <4>1, <4>2, SnInjective
        <4> QED
          BY <1>0, <1>a, <4>1, <4>3
      <3> QED
        BY <2>2, <3>1
    <2> QED
      BY <2>1, <2>2
  <1>6. IsFiniteSet(B) /\ Cardinality(B) \in Nat
    BY <1>0, PartFinite
  <1>7. /\ Cardinality(B2) \in Nat /\ Cardinality(B2) <= Cardinality(B) + 1
    <2>1. B2 \subseteq B \cup {n}
      OBVIOUS
    <2> HIDE DEF B2
    <2> QED
      BY <1>6, <2>1, AddsOne
  <1>8. U < H => IsFiniteSet(B \cap (X .. H - 1)) /\ Cardinality(B \cap (X .. H - 1)) \in Nat
    <2>1. B \cap (X .. H - 1) \subseteq B
      OBVIOUS
    <2> QED
      BY <1>0, <2>1, PartFinite
  <1>9. /\ w2 \in 0 .. MaxWaiting /\ Cardinality(B2) <= MaxWaiting + 1 + w2
        /\ V < K => Cardinality(B2 \cap (Y .. K - 1)) <= w2
    <2>1. CASE r.timer /\ V < X
      <3>1. U < H /\ w < MaxWaiting /\ w2 = w + 1 /\ Y = X
        BY <1>0, <1>5, <2>1
      <3>2. B2 \cap (Y .. K - 1) \subseteq (B \cap (X .. H - 1)) \cup {n}
        BY <1>0, <3>1
      <3> HIDE DEF B2, Y
      <3>3. Cardinality(B2 \cap (Y .. K - 1)) <= Cardinality(B \cap (X .. H - 1)) + 1
        BY <1>8, <3>1, <3>2, AddsOne
      <3>4. Cardinality(B2 \cap (Y .. K - 1)) \in Nat
        <4> DEFINE D == B2 \cap (Y .. K - 1)
                   E == B \cap (X .. H - 1)
        <4>1. IsFiniteSet(E) /\ D \subseteq E \cup {n}
          BY <1>8, <3>1, <3>2
        <4> HIDE DEF D, E
        <4>2. Cardinality(D) \in Nat
          BY <4>1, AddsOne
        <4> QED
          BY <4>2 DEF D
      <3>5. w2 \in 0 .. MaxWaiting /\ w \in Nat
        BY <1>0, <3>1, BoundsAre
      <3>6. Cardinality(B2) <= MaxWaiting + 1 + w2
        <4>1. Cardinality(B) <= MaxWaiting + 1 + w
          BY <1>0
        <4> QED
          BY <1>6, <1>7, <3>1, <3>5, <4>1, BoundsAre
      <3>7. Cardinality(B2 \cap (Y .. K - 1)) <= w2
        <4>1. Cardinality(B \cap (X .. H - 1)) <= w /\ Cardinality(B \cap (X .. H - 1)) \in Nat
          BY <1>0, <1>8, <3>1
        <4> QED
          BY <3>1, <3>3, <3>4, <3>5, <4>1
      <3> QED
        BY <3>5, <3>6, <3>7
    <2>2. CASE ~(r.timer /\ V < X)
      <3>1. w2 = 0 /\ Y = K
        BY <1>5, <2>2
      <3>2. Cardinality(B2 \cap (Y .. K - 1)) = 0
        <4>1. B2 \cap (Y .. K - 1) = {}
          BY <3>1
        <4> QED
          BY <4>1, FS_EmptySet
      <3>3. Cardinality(B2) <= MaxWaiting + 1
        <4>1. CASE r.timer
          <5>1. U < H /\ X <= V /\ w < MaxWaiting
            BY <1>0, <1>a, <2>2, <4>1
          <5>2. B2 \subseteq (B \cap (X .. H - 1)) \cup {n}
            BY <1>0, <1>a, <5>1
          <5> HIDE DEF B2
          <5>3. Cardinality(B2) <= Cardinality(B \cap (X .. H - 1)) + 1
            BY <1>8, <5>1, <5>2, AddsOne
          <5> QED
            BY <1>0, <1>7, <1>8, <5>1, <5>3, BoundsAre
        <4>2. CASE ~r.timer
          <5>1. B = {}
            BY <1>0, <4>2
          <5>2. Cardinality(B) = 0
            BY <5>1, FS_EmptySet
          <5> HIDE DEF B2
          <5> QED
            BY <1>7, <5>2, BoundsAre
        <4> QED
          BY <4>1, <4>2
      <3> HIDE DEF B2, Y
      <3> QED
        BY <1>7, <3>1, <3>2, <3>3, BoundsAre
    <2> QED
      BY <2>1, <2>2
  <1>10. Cardinality(Missing(B2, V, a2, N)) <= f2
    <2>1. Missing(B2, V, a2, N) \subseteq Missing(B, U, a, N)
      <3>1. \A x \in V .. N - 1 : x \in U .. N - 1 /\ x \notin 0 .. V - 1
        BY <1>0, <1>a
      <3> QED
        BY <3>1 DEF Missing, AirAfter
    <2>2. f \in Nat /\ f2 \in Nat
      BY <1>0, BoundsAre
    <2> HIDE DEF B2
    <2>3. Cardinality(Missing(B2, V, a2, N)) <= f
      BY <1>0, <1>a, <2>1, <2>2, FewerMissing
    <2>4. Cardinality(Missing(B2, V, a2, N)) \in Nat
      BY <1>a, MissingFinite
    <2> QED
      BY <2>2, <2>3, <2>4
  <1> HIDE DEF B2, Y
  <1>11. CountOK(B2, V, K, Y, a2, N, w2, f2)
    BY <1>9, <1>10 DEF CountOK
  <1>12. RxOK(q, B2, V, K, Y, P, N, tx, sz, a2, w2, f2, LastOf(q.up, l))
    BY <1>3, <1>4, <1>q, <1>11 DEF RxOK
  <1> QED
    BY <1>12

\* A PDU that is discarded leaves the receiver as it was.
LEMMA DiscardedOK ==
    ASSUME NEW P, NEW N \in Nat, NEW tx, NEW sz,
           NEW a, NEW r, NEW l, NEW B, NEW U, NEW H, NEW X, NEW w, NEW f,
           RxOK(r, B, U, H, X, P, N, tx, sz, a, w, f, l), U < H => w < MaxWaiting,
           NEW n, n \in Nat, n < U \/ n \in B,
           NEW a2, AirAfter(a2, a, n), AirOK(a2, H, P, N),
           NEW f2 \in 0 .. MaxFaults, f <= f2,
           NEW w2, w2 = IF r.timer THEN w + 1 ELSE 0
    PROVE  RxOK(r, B, U, H, X, P, N, tx, sz, a2, w2, f2, l)
  <1>0. /\ U \in Nat /\ H \in Nat /\ U <= H /\ B \subseteq U .. H - 1
        /\ r.timer \in BOOLEAN /\ (r.timer <=> U < H)
        /\ w \in 0 .. MaxWaiting /\ f \in 0 .. MaxFaults
        /\ Cardinality(B) <= MaxWaiting + 1 + w
        /\ (U < H => Cardinality(B \cap (X .. H - 1)) <= w)
        /\ Cardinality(Missing(B, U, a, N)) <= f
    BY DEF RxOK, WindowOK, TimerOK, CountOK
  <1>1. IsFiniteSet(B) /\ Cardinality(B) \in Nat /\ Cardinality(B \cap (X .. H - 1)) \in Nat
    <2>1. B \cap (X .. H - 1) \subseteq B
      OBVIOUS
    <2> QED
      BY <1>0, <2>1, PartFinite
  <1>2. ~(U < H) => Cardinality(B) = 0
    <2>1. ~(U < H) => B = {}
      BY <1>0
    <2> QED
      BY <2>1, FS_EmptySet
  <1>3. Cardinality(Missing(B, U, a2, N)) <= f2
    <2>1. Missing(B, U, a2, N) \subseteq Missing(B, U, a, N)
      <3>1. n < U => n \notin U .. N - 1
        BY <1>0
      <3> QED
        BY <3>1 DEF Missing, AirAfter
    <2>2. f \in Nat /\ f2 \in Nat
      BY <1>0, BoundsAre
    <2>3. Cardinality(Missing(B, U, a2, N)) <= f
      BY <1>0, <2>1, <2>2, FewerMissing
    <2>4. Cardinality(Missing(B, U, a2, N)) \in Nat
      BY <1>0, MissingFinite
    <2> QED
      BY <2>2, <2>3, <2>4
  <1>4. CountOK(B, U, H, X, a2, N, w2, f2)
    <2>1. CASE U < H
      <3>1. w2 = w + 1 /\ w < MaxWaiting
        BY <1>0, <2>1
      <3>2. /\ w2 \in 0 .. MaxWaiting /\ Cardinality(B) <= MaxWaiting + 1 + w2
            /\ Cardinality(B \cap (X .. H - 1)) <= w2
        BY <1>0, <1>1, <2>1, <3>1, BoundsAre
      <3> QED
        BY <1>3, <3>2 DEF CountOK
    <2>2. CASE ~(U < H)
      <3>1. w2 = 0
        BY <1>0, <2>2
      <3>2. w2 \in 0 .. MaxWaiting /\ Cardinality(B) <= MaxWaiting + 1 + w2
        BY <1>2, <2>2, <3>1, BoundsAre
      <3> QED
        BY <1>3, <2>2, <3>2 DEF CountOK
    <2> QED
      BY <2>1, <2>2
  <1> QED
    BY <1>4 DEF RxOK

\* PDU n has not overtaken too many.
IsNear(n, a) == \A j \in 1 .. Len(a) : n - MaxLate <= a[j].n

\* What may happen to the channel when PDU n is received.
AirThen(a2, a, n, P, N) ==
    AirAfter(a2, a, n) /\ \A G : AirOK(a, G, P, N) => AirOK(a2, G, P, N)

\* The receiver q after a PDU, where old was the receiver before.
PduReceived(q, old, P, N, tx, sz, a, w, f, l) ==
    /\ DOMAIN q = Fields /\ q.firstPduRxed = TRUE /\ UpOK(q.up, l, sz)
    /\ \E B, U, H, X :
           RxOK(q, B, U, H, X, P, N, tx, sz, a,
                IF q.timer /\ old.timer /\ q.vrUx = old.vrUx THEN w + 1 ELSE 0,
                f, LastOf(q.up, l))

\* DoReceiveNrSlRlcPdu keeps the invariant.
LEMMA DoReceives ==
    ASSUME WindowSuffices, NEW P, NEW N \in Nat, NEW tx, NEW sz, SentOK(P, N, tx, sz),
           NEW a, NEW old, DOMAIN old = Fields, old.up = << >>, NEW l,
           NEW B, NEW U0, NEW H0, NEW X, NEW w, NEW f,
           RxOK(old, B, U0, H0, X, P, N, tx, sz, a, w, f, l), StartOK(old, U0, H0),
           old.timer => w < MaxWaiting,
           NEW n \in 0 .. N - 1, n \in NumbersOf(a), IsNear(n, a),
           NEW a2, AirThen(a2, a, n, P, N),
           NEW f2 \in 0 .. MaxFaults, f <= f2
    PROVE  PduReceived(DoReceiveNrSlRlcPdu(old, P[n]), old, P, N, tx, sz, a2, w, f2, l)
  <1> DEFINE q == DoReceiveNrSlRlcPdu(old, P[n])
             w2 == IF q.timer /\ old.timer /\ q.vrUx = old.vrUx THEN w + 1 ELSE 0
  <1> SUFFICES /\ DOMAIN q = Fields /\ q.firstPduRxed = TRUE /\ UpOK(q.up, l, sz)
               /\ \E B2, V, K, Y :
                      RxOK(q, B2, V, K, Y, P, N, tx, sz, a2, w2, f2, LastOf(q.up, l))
    BY DEF PduReceived
  <1>w. w2 = IF q.timer /\ old.timer /\ q.vrUx = old.vrUx THEN w + 1 ELSE 0
    OBVIOUS
  <1>n. /\ \A j \in 1 .. Len(a) : n - MaxLate <= a[j].n
        /\ AirAfter(a2, a, n) /\ \A G : AirOK(a, G, P, N) => AirOK(a2, G, P, N)
    BY DEF IsNear, AirThen
  <1> DEFINE r == FirstPdu(old, n % SnMod)
             placed == [r EXCEPT !.buffer =
                           [s \in DOMAIN @ \cup {P[n].sn} |-> IF s = P[n].sn THEN P[n] ELSE @[s]]]
             moved == MoveWindow(placed, P[n].sn)
             base == IF moved.vrUr = r.vrUr THEN Base(r) ELSE Base(moved)
  <1>1. P[n].sn = n % SnMod
    BY DEF SentOK, PduOK
  <1>2. q = IF Discarded(r, n % SnMod) THEN r ELSE ReorderingTimer(AdvanceVrUr(moved, base))
    BY <1>1 DEF DoReceiveNrSlRlcPdu
  <1> HIDE DEF q, w2
  <1>3. IsReceived(r, P[n], placed, moved, base)
    BY DEF IsReceived
  <1> HIDE DEF r, placed, moved, base
  <1>4. /\ DOMAIN r = Fields /\ r.up = << >> /\ r.firstPduRxed = TRUE
        /\ r.timer = old.timer /\ r.vrUx = old.vrUx
        /\ \E U, H : RxOK(r, B, U, H, X, P, N, tx, sz, a, w, f, l)
    <2>1. r = FirstPdu(old, n % SnMod)
      BY DEF r
    <2>1a. \A x : x = FirstPdu(old, n % SnMod) =>
              /\ DOMAIN x = Fields /\ x.up = old.up /\ x.firstPduRxed = TRUE
              /\ x.timer = old.timer /\ x.vrUx = old.vrUx
              /\ \E U, H : RxOK(x, B, U, H, X, P, N, tx, sz, a, w, f, l)
      BY <1>n, FirstPduReady
    <2>2. /\ DOMAIN r = Fields /\ r.up = old.up /\ r.firstPduRxed = TRUE
          /\ r.timer = old.timer /\ r.vrUx = old.vrUx
          /\ \E U, H : RxOK(r, B, U, H, X, P, N, tx, sz, a, w, f, l)
      BY <2>1, <2>1a, Zenon
    <2> QED
      BY <2>2
  <1>5. PICK U, H : RxOK(r, B, U, H, X, P, N, tx, sz, a, w, f, l)
    BY <1>4
  <1>6. /\ AirOK(a, H, P, N) /\ WindowOK(r, B, U, H, X, P, N) /\ TimerOK(r, B, U, H, X)
        /\ CountOK(B, U, H, X, a, N, w, f) /\ ReassemblyOK(r, U, l, P, N, tx, sz)
    BY <1>5 DEF RxOK
  <1>7. /\ U \in Nat /\ H \in Nat /\ U <= H /\ H <= N /\ B \subseteq U .. H - 1
        /\ r.vrUr = U % SnMod /\ r.vrUh = H % SnMod /\ Holds(r.buffer, P, B)
    BY <1>6 DEF WindowOK
  <1>8. U < H => w < MaxWaiting
    BY <1>4, <1>6 DEF TimerOK
  <1>9. n \in Nat /\ n + 1 <= N
    OBVIOUS
  <1>10. H - U < Window
    BY <1>6, InsideWindow
  <1>11. H <= n => n + 1 - U < Window
    BY <1>n, <1>6, <1>8, StaysInWindow
  <1>12. n - U < Window
    BY <1>7, <1>9, <1>10, <1>11, BoundsAre
  <1>13. H - 1 - MaxLate <= n
    <2>1. PICK i \in 1 .. Len(a) : n = a[i].n
      BY DEF NumbersOf
    <2> QED
      BY <1>6, <2>1 DEF AirOK
  <1>14. Discarded(r, n % SnMod) <=> n < U \/ (U < n /\ n < H /\ n \in B)
    BY <1>7, <1>9, <1>10, <1>12, <1>13, DiscardedIs
  <1>15. CASE Discarded(r, n % SnMod)
    <2>1. q = r /\ (n < U \/ n \in B)
      BY <1>2, <1>14, <1>15
    <2>2. w2 = IF r.timer THEN w + 1 ELSE 0
      BY <1>w, <1>4, <2>1
    <2>3. AirOK(a2, H, P, N)
      BY <1>n, <1>6
    <2>4. RxOK(r, B, U, H, X, P, N, tx, sz, a2, w2, f2, l)
      BY <1>n, <1>5, <1>8, <1>9, <2>1, <2>2, <2>3, DiscardedOK
    <2>5. UpOK(r.up, l, sz) /\ LastOf(r.up, l) = l
      BY <1>4, NothingUp
    <2> QED
      BY <1>4, <2>1, <2>4, <2>5
  <1>16. CASE ~Discarded(r, n % SnMod)
    <2> DEFINE K == IF n < H THEN H ELSE n + 1
    <2>1. q = ReorderingTimer(AdvanceVrUr(moved, base)) /\ U <= n
      BY <1>2, <1>7, <1>9, <1>14, <1>16
    <2>2. /\ K \in Nat /\ H <= K /\ n < K /\ K <= N /\ (n < H => K = H) /\ (n >= H => K = n + 1)
          /\ K - U < Window
      BY <1>7, <1>9, <1>10, <1>11
    <2>3. AirOK(a2, K, P, N)
      <3>1. \A j \in 1 .. Len(a) : K - 1 - MaxLate <= a[j].n
        <4> TAKE j \in 1 .. Len(a)
        <4>1. n - MaxLate <= a[j].n /\ H - 1 - MaxLate <= a[j].n
          BY <1>n, <1>6 DEF AirOK
        <4>2. K - 1 = n \/ K - 1 = H - 1
          BY <1>7, <1>9
        <4> HIDE DEF K
        <4> QED
          BY <4>1, <4>2
      <3> HIDE DEF K
      <3> QED
        BY <1>n, <1>6, <3>1, AirMoves
    <2> HIDE DEF K
    <2>4. PICK V \in U .. K : Received(r, q, B, n, V, K, X, l, P, N, tx, sz)
      <3>1. \E V \in U .. K :
                Received(r, ReorderingTimer(AdvanceVrUr(moved, base)), B, n, V, K, X, l, P, N, tx, sz)
        BY <1>3, <1>4, <1>6, <2>1, <2>2, PlacesPdu, Zenon
      <3> QED
        BY <2>1, <3>1, Zenon
    <2>5. w2 = IF q.timer /\ r.timer /\ q.vrUx = r.vrUx THEN w + 1 ELSE 0
      BY <1>w, <1>4
    <2>6. \E B2, Y : RxOK(q, B2, V, K, Y, P, N, tx, sz, a2, w2, f2, LastOf(q.up, l))
      BY <1>n, <1>5, <1>8, <2>1, <2>2, <2>3, <2>4, <2>5, ReceivedOK
    <2> QED
      BY <1>4, <2>4, <2>6 DEF Received
  <1> QED
    BY <1>15, <1>16

-----------------------------------------------------------------------------
(* ExpireNrSlReorderingTimer                                                *)

\* V is the number for which t-Reordering gives up waiting.
IsFirstMissing(V, r, B, X) ==
    FirstMissingWrapped(r, X % SnMod) = V % SnMod /\ (V = X \/ V - 1 \in B)

\* FirstMissingWrapped: the first number from X on that is not received.
LEMMA FirstMissingIs ==
    ASSUME NEW P, NEW U \in Nat, NEW H \in Nat, NEW X \in Nat, U <= X, X <= H, H - U < SnMod,
           NEW r, NEW B, Holds(r.buffer, P, B), B \subseteq U .. H - 1
    PROVE  \E V \in X .. H : IsFirstMissing(V, r, B, X)
  <1> DEFINE T == {d \in 0 .. SnMod : ((X % SnMod) + d) % SnMod \notin DOMAIN r.buffer}
             m == Min(T)
  <1>1. \A d \in 0 .. H - X : /\ d \in 0 .. SnMod
                              /\ ((X % SnMod) + d) % SnMod = (X + d) % SnMod
                              /\ ((X % SnMod) + d) % SnMod \in DOMAIN r.buffer <=> X + d \in B
    <2> TAKE d \in 0 .. H - X
    <2>1. d \in 0 .. SnMod /\ d \in Int /\ X \in Int /\ U \in Int /\ X + d \in U .. U + SnMod - 1
      BY BoundsAre
    <2>2. B \subseteq U .. U + SnMod - 1
      <3>1. \A x \in U .. H - 1 : x \in U .. U + SnMod - 1
        BY BoundsAre
      <3> QED
        BY <3>1
    <2>3. ((X % SnMod) + d) % SnMod = (X + d) % SnMod
      BY <2>1, SnAdd
    <2>4. (X + d) % SnMod \in DOMAIN r.buffer <=> X + d \in B
      BY <2>1, <2>2, InHolds
    <2> QED
      BY <2>1, <2>3, <2>4
  <1>2. H - X \in 0 .. H - X /\ X + (H - X) \notin B
    BY DEF Holds
  <1>3. H - X \in T /\ T \subseteq Nat
    <2>1. H - X \in 0 .. SnMod /\ ((X % SnMod) + (H - X)) % SnMod \notin DOMAIN r.buffer
      BY <1>1, <1>2
    <2>2. 0 .. SnMod \subseteq Nat
      BY BoundsAre
    <2> QED
      BY <2>1, <2>2
  <1> HIDE DEF T
  <1>4. m \in T /\ \A y \in T : m <= y
    BY <1>3, MinIs
  <1>5. FirstMissingWrapped(r, X % SnMod) = ((X % SnMod) + m) % SnMod
    BY DEF FirstMissingWrapped, m, T
  <1> HIDE DEF m
  <1>6. m \in Nat /\ m \in 0 .. H - X
    BY <1>3, <1>4
  <1>7. X + m \in X .. H /\ ((X % SnMod) + m) % SnMod = (X + m) % SnMod
    BY <1>1, <1>6
  <1>8. m # 0 => X + m - 1 \in B
    <2> SUFFICES ASSUME m # 0 PROVE X + m - 1 \in B
      OBVIOUS
    <2>1. m - 1 \in 0 .. H - X /\ ~(m <= m - 1) /\ X + (m - 1) = X + m - 1
      BY <1>6
    <2>2. m - 1 \notin T
      BY <1>4, <2>1
    <2>3. ((X % SnMod) + (m - 1)) % SnMod \in DOMAIN r.buffer
      BY <1>1, <2>1, <2>2 DEF T
    <2> QED
      BY <1>1, <2>1, <2>3
  <1>9. X + m = X \/ (X + m) - 1 \in B
    BY <1>6, <1>8
  <1> QED
    BY <1>5, <1>7, <1>9 DEF IsFirstMissing

\* ExpireNrSlReorderingTimer keeps the invariant.
LEMMA Expires ==
    ASSUME WindowSuffices, NEW P, NEW N \in Nat, NEW tx, NEW sz, SentOK(P, N, tx, sz),
           NEW a, NEW r, DOMAIN r = Fields, r.up = << >>, r.timer, NEW l,
           NEW B, NEW U, NEW H, NEW X, NEW w, NEW f,
           RxOK(r, B, U, H, X, P, N, tx, sz, a, w, f, l)
    PROVE  LET q == ExpireNrSlReorderingTimer(r) IN
           /\ DOMAIN q = Fields /\ q.firstPduRxed = r.firstPduRxed /\ UpOK(q.up, l, sz)
           /\ \E B2, V, Y : RxOK(q, B2, V, H, Y, P, N, tx, sz, a, 0, f, LastOf(q.up, l))
  <1>1. /\ AirOK(a, H, P, N) /\ WindowOK(r, B, U, H, X, P, N) /\ TimerOK(r, B, U, H, X)
        /\ CountOK(B, U, H, X, a, N, w, f) /\ ReassemblyOK(r, U, l, P, N, tx, sz)
    BY DEF RxOK
  <1>2. /\ U \in Nat /\ H \in Nat /\ X \in Nat /\ U <= H /\ H <= N /\ B \subseteq U .. H - 1
        /\ r.vrUr = U % SnMod /\ r.vrUh = H % SnMod /\ Holds(r.buffer, P, B)
        /\ H - 1 \in B /\ r.vrUx = X % SnMod /\ U < X /\ X <= H /\ X - 1 \in B /\ U < H
    BY <1>1 DEF WindowOK, TimerOK
  <1>3. /\ w \in 0 .. MaxWaiting /\ f \in 0 .. MaxFaults
        /\ Cardinality(B \cap (X .. H - 1)) <= w
        /\ Cardinality(Missing(B, U, a, N)) <= f
    BY <1>1, <1>2 DEF CountOK
  <1>4. H - U < Window
    BY <1>1, InsideWindow
  <1>5. H - U < SnMod /\ U <= X
    BY <1>2, <1>4, BoundsAre
  <1>6. PICK V \in X .. H : IsFirstMissing(V, r, B, X)
    <2>1. U \in Nat /\ H \in Nat /\ X \in Nat /\ U <= X /\ X <= H /\ H - U < SnMod
      BY <1>2, <1>5
    <2>2. Holds(r.buffer, P, B) /\ B \subseteq U .. H - 1
      BY <1>2
    <2> QED
      BY <2>1, <2>2, FirstMissingIs
  <1>7. V \in Nat /\ V \in U .. H /\ V - 1 \in B /\ X <= V /\ V <= H
    BY <1>2, <1>6 DEF IsFirstMissing
  <1> DEFINE s == [r EXCEPT !.vrUr = V % SnMod, !.timer = FALSE]
             adv == NrSlReassembleSnInterval(s, U % SnMod, V % SnMod, (H - Window) % SnMod)
             q == Restart(adv)
             B2 == B \ (0 .. V - 1)
  <1>8. ExpireNrSlReorderingTimer(r) = q
    BY <1>2, <1>6, BaseIs DEF ExpireNrSlReorderingTimer, IsFirstMissing
  <1>9. /\ DOMAIN s = Fields /\ s.vrUr = V % SnMod /\ s.vrUh = r.vrUh /\ s.buffer = r.buffer
        /\ s.timer = FALSE /\ s.firstPduRxed = r.firstPduRxed /\ s.expected = r.expected
        /\ s.state = r.state /\ s.keepS0 = r.keepS0 /\ s.sdus = r.sdus /\ s.up = << >>
    BY DEF Fields
  <1> HIDE DEF s
  <1>10. Advanced(s, adv, B, V, l, P, N, tx, sz)
    <2>1. H - Window \in Int /\ 0 <= U - (H - Window) /\ V - (H - Window) < SnMod
      BY <1>2, <1>4, <1>7, BoundsAre, SMTT(20)
    <2>2. UpOK(s.up, l, sz) /\ LastOf(s.up, l) = l
      BY <1>9, NothingUp
    <2>3. ReassemblyOK(s, U, LastOf(s.up, l), P, N, tx, sz)
      BY <1>1, <1>9, <2>2 DEF ReassemblyOK
    <2>4. l \in Nat
      <3>1. l \in 0 .. Len(sz)
        BY <1>1 DEF ReassemblyOK
      <3> QED
        BY <3>1
    <2>5. Holds(s.buffer, P, B)
      BY <1>2, <1>9
    <2> QED
      BY <1>2, <1>5, <1>7, <1>9, <2>1, <2>2, <2>3, <2>4, <2>5, IntervalDelivers
  <1> HIDE DEF adv
  <1>11. /\ DOMAIN adv = Fields /\ adv.vrUr = V % SnMod /\ adv.vrUh = H % SnMod
         /\ adv.timer = FALSE /\ adv.firstPduRxed = r.firstPduRxed
         /\ Holds(adv.buffer, P, B2) /\ UpOK(adv.up, l, sz)
         /\ ReassemblyOK(adv, V, LastOf(adv.up, l), P, N, tx, sz)
    BY <1>2, <1>9, <1>10 DEF Advanced
  <1>12. TimerAfter(adv, q, V, H, X)
    <2>1. H - V < Window
      BY <1>2, <1>4, <1>7, BoundsAre
    <2> QED
      BY <1>2, <1>7, <1>11, <2>1, Restarts
  <1> HIDE DEF q
  <1>13. B2 \subseteq V .. H - 1 /\ (V < H => H - 1 \in B2) /\ B2 \subseteq B \cap (X .. H - 1)
    BY <1>2, <1>7
  <1> HIDE DEF B2
  <1>14. /\ q.vrUr = V % SnMod /\ q.vrUh = H % SnMod /\ Holds(q.buffer, P, B2)
         /\ q.timer \in BOOLEAN /\ (q.timer <=> V < H) /\ (V < H => q.vrUx = H % SnMod)
    BY <1>11, <1>12 DEF TimerAfter
  <1>15. WindowOK(q, B2, V, H, H, P, N)
    BY <1>2, <1>7, <1>13, <1>14 DEF WindowOK
  <1>16. TimerOK(q, B2, V, H, H)
    <2>1. H <= H
      BY <1>2
    <2> QED
      BY <1>13, <1>14, <2>1 DEF TimerOK
  <1>17. CountOK(B2, V, H, H, a, N, 0, f)
    <2>1. Cardinality(B2) <= MaxWaiting + 1 + 0
      <3> DEFINE E == B \cap (X .. H - 1)
      <3>1. E \subseteq X .. H - 1 /\ B2 \subseteq E
        BY <1>13
      <3>2. Cardinality(E) <= w
        BY <1>3
      <3> HIDE DEF E
      <3>3. Cardinality(E) \in Nat /\ Cardinality(B2) \in Nat /\ Cardinality(B2) <= Cardinality(E)
        BY <1>2, <3>1, PartFinite
      <3> QED
        BY <1>3, <3>2, <3>3, BoundsAre
    <2>2. Cardinality(B2 \cap (H .. H - 1)) = 0
      <3>1. B2 \cap (H .. H - 1) = {}
        BY <1>2
      <3> QED
        BY <3>1, FS_EmptySet
    <2>3. Cardinality(Missing(B2, V, a, N)) <= f
      <3>1. Missing(B2, V, a, N) \subseteq Missing(B, U, a, N)
        <4>1. \A x \in V .. N - 1 : x \in U .. N - 1 /\ x \notin 0 .. V - 1
          BY <1>2, <1>7
        <4> QED
          BY <4>1 DEF Missing, B2
      <3>2. f \in Nat
        BY <1>3, BoundsAre
      <3> QED
        BY <1>2, <1>3, <1>7, <3>1, <3>2, FewerMissing
    <2>4. 0 \in 0 .. MaxWaiting /\ 0 <= 0
      BY BoundsAre
    <2> QED
      BY <1>3, <2>1, <2>2, <2>3, <2>4 DEF CountOK
  <1>18. /\ ReassemblyOK(q, V, LastOf(q.up, l), P, N, tx, sz) /\ UpOK(q.up, l, sz)
         /\ DOMAIN q = Fields /\ q.firstPduRxed = r.firstPduRxed
    BY <1>11, <1>12 DEF TimerAfter, ReassemblyOK
  <1>19. RxOK(q, B2, V, H, H, P, N, tx, sz, a, 0, f, LastOf(q.up, l))
    BY <1>1, <1>15, <1>16, <1>17, <1>18 DEF RxOK
  <1> QED
    BY <1>8, <1>18, <1>19

-----------------------------------------------------------------------------
(* The channel                                                              *)

\* a2 is a without its element i.
IsRemoved(a2, a, i) ==
    /\ Len(a2) = Len(a) - 1
    /\ \A j \in 1 .. Len(a) - 1 : a2[j] = a[IF j < i THEN j ELSE j + 1]

LEMMA RemoveIs ==
    ASSUME NEW S, NEW a \in Seq(S), NEW i \in 1 .. Len(a)
    PROVE  RemoveAt(a, i) \in Seq(S) /\ IsRemoved(RemoveAt(a, i), a, i)
  <1> DEFINE u == SubSeq(a, 1, i - 1)
             v == SubSeq(a, i + 1, Len(a))
  <1>0. Len(a) \in Nat /\ i \in Nat /\ 1 <= i /\ i <= Len(a)
    OBVIOUS
  <1>1. u \in Seq(S) /\ Len(u) = i - 1 /\ \A j \in 1 .. i - 1 : u[j] = a[j]
    BY <1>0
  <1>2. v \in Seq(S) /\ Len(v) = Len(a) - i /\ \A j \in 1 .. Len(a) - i : v[j] = a[j + i]
    BY <1>0
  <1>3. RemoveAt(a, i) = u \o v
    BY DEF RemoveAt
  <1> HIDE DEF u, v
  <1>4. /\ u \o v \in Seq(S) /\ Len(u \o v) = Len(a) - 1
        /\ \A j \in 1 .. Len(a) - 1 : (u \o v)[j] = IF j < i THEN u[j] ELSE v[j - (i - 1)]
    <2>1. /\ u \o v \in Seq(S) /\ Len(u \o v) = Len(u) + Len(v)
          /\ \A j \in 1 .. Len(u) + Len(v) :
                 (u \o v)[j] = IF j <= Len(u) THEN u[j] ELSE v[j - Len(u)]
      <3>1. u \in Seq(S) /\ v \in Seq(S)
        BY <1>1, <1>2
      <3> QED
        BY <3>1, ConcatProperties
    <2>2. Len(u) + Len(v) = Len(a) - 1 /\ \A j \in 1 .. Len(a) - 1 : j <= i - 1 <=> j < i
      BY <1>0, <1>1, <1>2
    <2> QED
      BY <1>1, <2>1, <2>2
  <1>5. \A j \in 1 .. Len(a) - 1 : (u \o v)[j] = a[IF j < i THEN j ELSE j + 1]
    <2> TAKE j \in 1 .. Len(a) - 1
    <2>1. CASE j < i
      <3>1. j \in 1 .. i - 1
        BY <1>0, <2>1
      <3> QED
        BY <1>1, <1>4, <2>1, <3>1
    <2>2. CASE ~(j < i)
      <3>1. j - (i - 1) \in 1 .. Len(a) - i /\ (j - (i - 1)) + i = j + 1
        BY <1>0, <2>2
      <3>2. v[j - (i - 1)] = a[j + 1]
        BY <1>2, <3>1
      <3> QED
        BY <1>4, <2>2, <3>2
    <2> QED
      BY <2>1, <2>2
  <1> QED
    BY <1>3, <1>4, <1>5 DEF IsRemoved

LEMMA TailIs ==
    ASSUME NEW S, NEW a \in Seq(S), a # << >>
    PROVE  Tail(a) \in Seq(S) /\ IsRemoved(Tail(a), a, 1) /\ 1 \in 1 .. Len(a)
  <1>1. /\ Tail(a) \in Seq(S) /\ Len(Tail(a)) = Len(a) - 1 /\ Len(a) \in Nat /\ Len(a) >= 1
        /\ \A j \in 1 .. Len(a) - 1 : Tail(a)[j] = a[j + 1]
    OBVIOUS
  <1>2. \A j \in 1 .. Len(a) - 1 : ~(j < 1)
    BY <1>1
  <1> QED
    BY <1>1, <1>2 DEF IsRemoved

\* Whatever is taken off the channel, the rest stays in order.
LEMMA AirRemoved ==
    ASSUME NEW P, NEW N \in Nat, NEW a, NEW H, AirOK(a, H, P, N),
           NEW i \in 1 .. Len(a), NEW a2 \in Seq({P[n] : n \in 0 .. N - 1}), IsRemoved(a2, a, i)
    PROVE  AirOK(a2, H, P, N) /\ AirAfter(a2, a, a[i].n)
  <1> DEFINE at(j) == IF j < i THEN j ELSE j + 1
  <1>0. Len(a) \in Nat /\ i \in Nat /\ 1 <= i /\ i <= Len(a)
    BY DEF AirOK
  <1>1. \A j \in 1 .. Len(a2) : j \in Nat /\ at(j) \in 1 .. Len(a) /\ a2[j] = a[at(j)]
    BY <1>0 DEF IsRemoved
  <1>2. \A j, k \in 1 .. Len(a2) : j < k => at(j) < at(k)
    BY <1>0, <1>1
  <1> HIDE DEF at
  <1>3. AirOK(a2, H, P, N)
    BY <1>1, <1>2 DEF AirOK
  <1>4. AirAfter(a2, a, a[i].n)
    <2> SUFFICES ASSUME NEW k \in 1 .. Len(a), k # i PROVE a[k].n \in NumbersOf(a2)
      BY DEF AirAfter, NumbersOf
    <2>1. CASE k < i
      <3>1. k \in 1 .. Len(a2) /\ at(k) = k
        BY <1>0, <2>1 DEF IsRemoved, at
      <3>2. a2[k] = a[k]
        BY <1>1, <3>1
      <3> QED
        BY <3>1, <3>2 DEF NumbersOf
    <2>2. CASE ~(k < i)
      <3>1. k - 1 \in 1 .. Len(a2) /\ at(k - 1) = k
        BY <1>0, <2>2 DEF IsRemoved, at
      <3>2. a2[k - 1] = a[k]
        BY <1>1, <3>1
      <3> QED
        BY <3>1, <3>2 DEF NumbersOf
    <2> QED
      BY <2>1, <2>2
  <1> QED
    BY <1>3, <1>4

\* A PDU is put on the channel.
LEMMA AirAppended ==
    ASSUME NEW P, NEW N \in Nat, NEW a, NEW H \in Nat, H <= N, AirOK(a, H, P, N),
           NEW Q, \A n \in 0 .. N - 1 : Q[n] = P[n], Q[N].n = N
    PROVE  /\ AirOK(Append(a, Q[N]), H, Q, N + 1)
           /\ NumbersOf(a) \cup {N} \subseteq NumbersOf(Append(a, Q[N]))
  <1> DEFINE S == {P[n] : n \in 0 .. N - 1}
             T == {Q[n] : n \in 0 .. N + 1 - 1}
             b == Append(a, Q[N])
  <1>1. \A n \in 0 .. N - 1 : n \in 0 .. N + 1 - 1
    OBVIOUS
  <1>2. N \in 0 .. N + 1 - 1
    OBVIOUS
  <1>3. S \subseteq T /\ Q[N] \in T
    BY <1>1, <1>2
  <1>4. a \in Seq(S)
    BY DEF AirOK
  <1> HIDE DEF S, T
  <1>5. a \in Seq(T)
    BY <1>3, <1>4
  <1>6. /\ b \in Seq(T) /\ Len(a) \in Nat /\ Len(b) = Len(a) + 1 /\ b[Len(a) + 1] = Q[N]
        /\ \A i \in 1 .. Len(a) : b[i] = a[i] /\ i \in 1 .. Len(a) + 1
    BY <1>3, <1>5, AppendIs
  <1> HIDE DEF b
  <1>7. \A i \in 1 .. Len(a) : /\ a[i].n \in 0 .. N - 1 /\ a[i] = Q[a[i].n]
                               /\ H - 1 - MaxLate <= a[i].n
    BY DEF AirOK
  <1>8. \A i \in 1 .. Len(b) : i \in 1 .. Len(a) \/ i = Len(a) + 1
    BY <1>6
  <1>9. \A i \in 1 .. Len(b) : /\ b[i].n \in 0 .. N + 1 - 1
                               /\ b[i] = Q[b[i].n]
                               /\ H - 1 - MaxLate <= b[i].n
    <2> TAKE i \in 1 .. Len(b)
    <2>1. CASE i \in 1 .. Len(a)
      <3>1. b[i] = a[i]
        BY <1>6, <2>1
      <3> QED
        BY <1>1, <1>7, <2>1, <3>1
    <2>2. CASE i = Len(a) + 1
      <3>1. b[i] = Q[N]
        BY <1>6, <2>2
      <3>2. H - 1 - MaxLate <= N
        BY BoundsAre
      <3> QED
        BY <1>2, <3>1, <3>2
    <2> QED
      BY <1>8, <2>1, <2>2
  <1>10. \A i, j \in 1 .. Len(b) : i < j => b[i].n < b[j].n
    <2> TAKE i, j \in 1 .. Len(b)
    <2> HAVE i < j
    <2>1. i \in 1 .. Len(a)
      BY <1>6
    <2>2. b[i] = a[i] /\ a[i].n \in 0 .. N - 1
      BY <1>6, <1>7, <2>1
    <2>3. CASE j \in 1 .. Len(a)
      <3>1. b[j] = a[j] /\ a[i].n < a[j].n
        BY <1>6, <2>1, <2>3 DEF AirOK
      <3> QED
        BY <2>2, <3>1
    <2>4. CASE j = Len(a) + 1
      <3>1. b[j].n = N
        BY <1>6, <2>4
      <3> QED
        BY <2>2, <3>1
    <2> QED
      BY <1>8, <2>3, <2>4
  <1>11. AirOK(b, H, Q, N + 1)
    BY <1>6, <1>9, <1>10 DEF AirOK, T
  <1>12. NumbersOf(a) \cup {N} \subseteq NumbersOf(b)
    <2>1. \A i \in 1 .. Len(a) : i \in 1 .. Len(b) /\ b[i].n = a[i].n
      BY <1>6
    <2>2. Len(a) + 1 \in 1 .. Len(b) /\ b[Len(a) + 1].n = N
      BY <1>6
    <2> QED
      BY <2>1, <2>2 DEF NumbersOf
  <1> QED
    BY <1>11, <1>12 DEF b

-----------------------------------------------------------------------------
(* The steps                                                                *)

\* The receiver at the beginning of a step: nothing has been delivered in it.
Cleared(r) == [r EXCEPT !.up = << >>]

LEMMA ClearedIs ==
    ASSUME NEW r, DOMAIN r = Fields
    PROVE  /\ DOMAIN Cleared(r) = Fields /\ Cleared(r).up = << >>
           /\ Cleared(r).timer = r.timer /\ Cleared(r).vrUx = r.vrUx
           /\ Cleared(r).firstPduRxed = r.firstPduRxed
           /\ \A U, H : StartOK(r, U, H) => StartOK(Cleared(r), U, H)
           /\ \A B, U, H, X, P, N, tx, sz, a, w, f, l :
                  RxOK(r, B, U, H, X, P, N, tx, sz, a, w, f, l)
                      => RxOK(Cleared(r), B, U, H, X, P, N, tx, sz, a, w, f, l)
  <1> DEFINE s == Cleared(r)
  <1>1. /\ DOMAIN s = Fields /\ s.up = << >> /\ s.timer = r.timer /\ s.vrUx = r.vrUx
        /\ s.firstPduRxed = r.firstPduRxed /\ s.vrUr = r.vrUr /\ s.vrUh = r.vrUh
        /\ s.buffer = r.buffer /\ s.expected = r.expected /\ s.state = r.state
        /\ s.keepS0 = r.keepS0 /\ s.sdus = r.sdus
    BY DEF Cleared, Fields
  <1> HIDE DEF s
  <1>2. \A U, H : StartOK(r, U, H) => StartOK(s, U, H)
    BY <1>1 DEF StartOK
  <1>3. ASSUME NEW B, NEW U, NEW H, NEW X, NEW P, NEW N, NEW tx, NEW sz, NEW a, NEW w, NEW f, NEW l,
               RxOK(r, B, U, H, X, P, N, tx, sz, a, w, f, l)
        PROVE  RxOK(s, B, U, H, X, P, N, tx, sz, a, w, f, l)
    <2>1. WindowOK(s, B, U, H, X, P, N)
      BY <1>1, <1>3 DEF RxOK, WindowOK
    <2>2. TimerOK(s, B, U, H, X)
      BY <1>1, <1>3 DEF RxOK, TimerOK
    <2>3. ReassemblyOK(s, U, l, P, N, tx, sz)
      BY <1>1, <1>3 DEF RxOK, ReassemblyOK
    <2> QED
      BY <1>3, <2>1, <2>2, <2>3 DEF RxOK
  <1> QED
    BY <1>1, <1>2, <1>3 DEF s

\* What every step keeps, and what it delivers.
Kept ==
    /\ UpOK(rx'.up, last, size') /\ last' = LastOf(rx'.up, last)
    /\ RlcInv'

\* The invariant from its parts.
LEMMA Keeps ==
    ASSUME sent' = Len(size'), DOMAIN rx' = Fields, UpOK(rx'.up, last, size'),
           last' = IF rx'.up = << >> THEN last ELSE SduOf(Last(rx'.up)),
           NEW P, NEW B, NEW U, NEW H, NEW X, StartOK(rx', U, H),
           SentOK(P, nextPdu', txBuffer', size'),
           RxOK(rx', B, U, H, X, P, nextPdu', txBuffer', size', air', waiting', faults',
                LastOf(rx'.up, last))
    PROVE  Kept
  <1>1. last' = LastOf(rx'.up, last)
    BY DEF LastOf, SduOf, Last
  <1>2. InvFor(P, B, U, H, X)'
    BY <1>1 DEF InvFor, RxOK
  <1>3. /\ rx'.up \in Seq(Seq(Segment))
        /\ \A k \in 1 .. Len(rx'.up) : Chain(rx'.up[k], size') /\ Whole(rx'.up[k], size')
    BY DEF UpOK
  <1>4. RlcInv'
    BY <1>2, <1>3 DEF RlcInv
  <1> QED
    BY <1>1, <1>4 DEF Kept

\* A step that delivers nothing.
LEMMA KeepsQuietly ==
    ASSUME sent' = Len(size'), DOMAIN rx = Fields, Delivered(Cleared(rx)),
           NEW P, NEW B, NEW U, NEW H, NEW X, StartOK(rx, U, H),
           SentOK(P, nextPdu', txBuffer', size'),
           RxOK(rx, B, U, H, X, P, nextPdu', txBuffer', size', air', waiting', faults', last)
    PROVE  Kept
  <1>1. rx' = Cleared(rx) /\ rx'.up = << >> /\ DOMAIN rx' = Fields
    BY ClearedIs DEF Delivered
  <1>2. last' = IF rx'.up = << >> THEN last ELSE SduOf(Last(rx'.up))
    BY <1>1 DEF Delivered
  <1>3. UpOK(rx'.up, last, size') /\ LastOf(rx'.up, last) = last
    BY <1>1, NothingUp
  <1>4. StartOK(rx', U, H)
    BY <1>1, ClearedIs
  <1>5. RxOK(rx', B, U, H, X, P, nextPdu', txBuffer', size', air', waiting', faults', last)
    BY <1>1, ClearedIs
  <1> QED
    BY <1>1, <1>2, <1>3, <1>4, <1>5, Keeps

\* What the invariant gives at the beginning of a step.
LEMMA InvGives ==
    ASSUME RlcInv
    PROVE  /\ sent = Len(size) /\ DOMAIN rx = Fields
           /\ \E P, B, U, H, X :
                  /\ StartOK(rx, U, H) /\ SentOK(P, nextPdu, txBuffer, size)
                  /\ RxOK(rx, B, U, H, X, P, nextPdu, txBuffer, size, air, waiting, faults, last)
  BY DEF RlcInv, InvFor, RxOK

\* Reassembly does not depend on what is sent later.
LEMMA ReassemblyGrows ==
    ASSUME NEW P, NEW N, NEW tx, NEW sz, SentOK(P, N, tx, sz), NEW s \in Nat \ {0},
           NEW r, NEW e, NEW l, ReassemblyOK(r, e, l, P, N, tx, sz),
           NEW ty, ty = tx \/ ty = Append(tx, Piece(Len(sz) + 1, 1, s, "FULL_SDU"))
    PROVE  ReassemblyOK(r, e, l, P, N, ty, Append(sz, s))
  <1> DEFINE x == Piece(Len(sz) + 1, 1, s, "FULL_SDU")
             sy == Append(sz, s)
  <1>1. sz \in Seq(Nat \ {0}) /\ tx \in Seq(Segment)
    BY DEF SentOK, TxOK, ListOK
  <1>2. Len(sz) \in Nat /\ Len(sy) = Len(sz) + 1
    BY <1>1, SizeGrows
  <1>3. x \in Segment /\ x.sdu = Len(sz) + 1
    BY <1>2 DEF Segment, Piece
  <1>4. l \in 0 .. Len(sz) /\ l \in 0 .. Len(sy) /\ l < x.sdu
    BY <1>2, <1>3 DEF ReassemblyOK
  <1> HIDE DEF x, sy
  <1>5. /\ \A i \in 1 .. Len(ty) : (i \in 1 .. Len(tx) /\ ty[i] = tx[i]) \/ ty[i] = x
        /\ tx # << >> => ty # << >> /\ ty[1] = tx[1]
    <2>1. CASE ty = tx
      BY <2>1
    <2>2. CASE ty = Append(tx, x)
      <3>1. /\ Len(tx) \in Nat /\ Len(ty) = Len(tx) + 1 /\ ty[Len(tx) + 1] = x /\ ty # << >>
            /\ \A i \in 1 .. Len(tx) : ty[i] = tx[i]
        BY <1>1, <1>3, <2>2, AppendIs
      <3>2. \A i \in 1 .. Len(ty) : i \in 1 .. Len(tx) \/ i = Len(tx) + 1
        BY <3>1
      <3>3. tx # << >> => 1 \in 1 .. Len(tx)
        BY <1>1
      <3> QED
        BY <3>1, <3>2, <3>3
    <2> QED
      BY <2>1, <2>2 DEF x
  <1>6. \A i \in 1 .. Len(ty) : l < ty[i].sdu
    BY <1>4, <1>5 DEF ReassemblyOK
  <1>7. ASSUME r.state = "WAITING_SI_SF"
        PROVE  /\ Chain(r.keepS0, sy)
               /\ GoesOn(P, e, r.keepS0[1].sdu, r.keepS0[Len(r.keepS0)].to + 1, N, ty)
    <2>1. /\ Chain(r.keepS0, sz)
          /\ GoesOn(P, e, r.keepS0[1].sdu, r.keepS0[Len(r.keepS0)].to + 1, N, tx)
      BY <1>7 DEF ReassemblyOK
    <2>2. Chain(r.keepS0, sy)
      BY <1>1, <2>1, ChainGrows DEF sy
    <2> QED
      BY <1>5, <2>1, <2>2 DEF GoesOn
  <1> QED
    BY <1>4, <1>6, <1>7 DEF ReassemblyOK, sy

\* An SDU is handed over.
LEMMA TransmitKeeps ==
    ASSUME RlcInv, NEW n \in Sizes, DoTransmitNrSlPdcpPdu(n)
    PROVE  Kept
  <1>1. PICK P, B, U, H, X :
            /\ StartOK(rx, U, H) /\ SentOK(P, nextPdu, txBuffer, size)
            /\ RxOK(rx, B, U, H, X, P, nextPdu, txBuffer, size, air, waiting, faults, last)
    BY InvGives
  <1>2. sent = Len(size) /\ DOMAIN rx = Fields
    BY InvGives
  <1>3. n \in Nat \ {0}
    BY RlcAssumption
  <1>4. /\ sent' = sent + 1 /\ size' = Append(size, n)
        /\ \/ txBuffer' = txBuffer
           \/ txBuffer' = Append(txBuffer, Piece(Len(size) + 1, 1, n, "FULL_SDU"))
        /\ Delivered(Cleared(rx))
        /\ nextPdu' = nextPdu /\ air' = air /\ waiting' = waiting /\ faults' = faults
    BY <1>2 DEF DoTransmitNrSlPdcpPdu, Cleared
  <1>5. size \in Seq(Nat \ {0})
    BY <1>1 DEF SentOK
  <1>6. sent' = Len(size')
    BY <1>2, <1>3, <1>4, <1>5, SizeGrows
  <1>7. SentOK(P, nextPdu', txBuffer', size')
    <2>1. SentOK(P, nextPdu, txBuffer, Append(size, n))
      BY <1>1, <1>3, SentGrows
    <2>2. SentOK(P, nextPdu, Append(txBuffer, Piece(Len(size) + 1, 1, n, "FULL_SDU")), Append(size, n))
      BY <1>1, <1>3, SentAppended
    <2> QED
      BY <1>4, <2>1, <2>2
  <1>8. ReassemblyOK(rx, U, last, P, nextPdu', txBuffer', size')
    <2>1. ReassemblyOK(rx, U, last, P, nextPdu, txBuffer, size)
      BY <1>1 DEF RxOK
    <2>2. ReassemblyOK(rx, U, last, P, nextPdu, txBuffer', Append(size, n))
      BY <1>1, <1>3, <1>4, <2>1, ReassemblyGrows
    <2> QED
      BY <1>4, <2>2
  <1>9. RxOK(rx, B, U, H, X, P, nextPdu', txBuffer', size', air', waiting', faults', last)
    BY <1>1, <1>4, <1>8 DEF RxOK
  <1> QED
    BY <1>1, <1>2, <1>4, <1>6, <1>7, <1>9, KeepsQuietly

\* A PDU is built and put on the channel.
LEMMA TxOpportunityKeeps ==
    ASSUME RlcInv, NEW bytes \in TxBytes, DoNotifyNrSlTxOpportunity(bytes)
    PROVE  Kept
  <1>1. PICK P, B, U, H, X :
            /\ StartOK(rx, U, H) /\ SentOK(P, nextPdu, txBuffer, size)
            /\ RxOK(rx, B, U, H, X, P, nextPdu, txBuffer, size, air, waiting, faults, last)
    BY InvGives
  <1>2. sent = Len(size) /\ DOMAIN rx = Fields
    BY InvGives
  <1> DEFINE data == DataField(txBuffer, bytes).data
             left == DataField(txBuffer, bytes).left
             N == nextPdu
             Q == Recorded(P, N, data)
  <1>3. /\ bytes > 2 /\ txBuffer # << >> /\ txBuffer' = left
        /\ air' = Append(air, Pdu(N, data)) /\ nextPdu' = N + 1
        /\ Delivered(Cleared(rx))
        /\ sent' = sent /\ size' = size /\ waiting' = waiting /\ faults' = faults
    BY DEF DoNotifyNrSlTxOpportunity, Cleared
  <1>4. bytes \in Nat /\ N \in Nat
    BY <1>1, RlcAssumption DEF SentOK
  <1>5. DataField(txBuffer, bytes) = [data |-> data, left |-> left]
    <2>1. /\ txBuffer \in Seq(Segment)
          /\ \A i \in 1 .. Len(txBuffer) : txBuffer[i].from <= txBuffer[i].to
      BY <1>1 DEF SentOK, TxOK, ListOK, PieceOK
    <2>2. PICK d, e : DataField(txBuffer, bytes) = [data |-> d, left |-> e]
      BY <1>3, <1>4, <2>1, DataFieldIs
    <2> QED
      BY <2>2
  <1> HIDE DEF data, left
  <1>6. /\ SentOK(Q, N + 1, left, size)
        /\ \A r, e, l : e \in 0 .. N /\ ReassemblyOK(r, e, l, P, N, txBuffer, size)
                            => ReassemblyOK(r, e, l, Q, N + 1, left, size)
    BY <1>1, <1>3, <1>4, <1>5, SentPdu
  <1>7. (\A n \in 0 .. N - 1 : Q[n] = P[n]) /\ Q[N] = Pdu(N, data) /\ Q[N].n = N
    <2>1. N \in 0 .. N /\ \A n \in 0 .. N - 1 : n \in 0 .. N /\ n # N
      BY <1>4
    <2> QED
      BY <2>1 DEF Recorded, Pdu
  <1> HIDE DEF Q
  <1>8. /\ AirOK(air, H, P, N) /\ WindowOK(rx, B, U, H, X, P, N) /\ TimerOK(rx, B, U, H, X)
        /\ CountOK(B, U, H, X, air, N, waiting, faults)
        /\ ReassemblyOK(rx, U, last, P, N, txBuffer, size)
    BY <1>1 DEF RxOK
  <1>9. U \in Nat /\ H \in Nat /\ U <= H /\ H <= N /\ B \subseteq U .. H - 1
    BY <1>8 DEF WindowOK
  <1>10. /\ AirOK(air', H, Q, N + 1)
         /\ NumbersOf(air) \cup {N} \subseteq NumbersOf(air')
    <2>1. /\ AirOK(Append(air, Q[N]), H, Q, N + 1)
          /\ NumbersOf(air) \cup {N} \subseteq NumbersOf(Append(air, Q[N]))
      BY <1>4, <1>7, <1>8, <1>9, AirAppended
    <2>2. air' = Append(air, Q[N])
      BY <1>3, <1>7
    <2> QED
      BY <2>1, <2>2
  <1>11. WindowOK(rx, B, U, H, X, Q, N + 1)
    <2>1. H <= N + 1
      BY <1>4, <1>9
    <2>2. \A n \in B : Q[n] = P[n]
      BY <1>4, <1>7, <1>9
    <2>3. Holds(rx.buffer, Q, B)
      BY <1>8, <2>2 DEF WindowOK, Holds
    <2> QED
      BY <1>8, <2>1, <2>3 DEF WindowOK
  <1>12. CountOK(B, U, H, X, air', N + 1, waiting, faults)
    <2>1. Missing(B, U, air', N + 1) \subseteq Missing(B, U, air, N)
      <3>1. \A x \in U .. (N + 1) - 1 : x \in U .. N - 1 \/ x = N
        BY <1>4, <1>9
      <3> QED
        BY <1>10, <3>1 DEF Missing
    <2>2. IsFiniteSet(Missing(B, U, air, N)) /\ Cardinality(Missing(B, U, air, N)) \in Nat
      BY <1>4, <1>9, MissingFinite
    <2>3. Cardinality(Missing(B, U, air', N + 1)) <= Cardinality(Missing(B, U, air, N))
      BY <2>1, <2>2, FS_Subset
    <2>4. Cardinality(Missing(B, U, air', N + 1)) \in Nat
      <3>1. N + 1 \in Nat
        BY <1>4
      <3> QED
        BY <1>9, <3>1, MissingFinite
    <2>5. faults \in Nat /\ Cardinality(Missing(B, U, air, N)) <= faults
      BY <1>8, BoundsAre DEF CountOK
    <2>6. Cardinality(Missing(B, U, air', N + 1)) <= faults
      BY <2>2, <2>3, <2>4, <2>5
    <2> QED
      BY <1>8, <2>6 DEF CountOK
  <1>13. ReassemblyOK(rx, U, last, Q, N + 1, left, size)
    <2>1. U \in 0 .. N
      BY <1>4, <1>9
    <2> QED
      BY <1>6, <1>8, <2>1
  <1>14. RxOK(rx, B, U, H, X, Q, nextPdu', txBuffer', size', air', waiting', faults', last)
    BY <1>3, <1>8, <1>10, <1>11, <1>12, <1>13 DEF RxOK
  <1>15. sent' = Len(size') /\ SentOK(Q, nextPdu', txBuffer', size')
    BY <1>2, <1>3, <1>6
  <1> QED
    BY <1>1, <1>2, <1>3, <1>14, <1>15, KeepsQuietly

\* The oldest PDU on the channel is lost.
LEMMA LoseKeeps ==
    ASSUME RlcInv, Lose
    PROVE  Kept
  <1>1. PICK P, B, U, H, X :
            /\ StartOK(rx, U, H) /\ SentOK(P, nextPdu, txBuffer, size)
            /\ RxOK(rx, B, U, H, X, P, nextPdu, txBuffer, size, air, waiting, faults, last)
    BY InvGives
  <1>2. sent = Len(size) /\ DOMAIN rx = Fields
    BY InvGives
  <1>3. /\ air # << >> /\ faults < MaxFaults /\ faults' = faults + 1 /\ air' = Tail(air)
        /\ Delivered(Cleared(rx)) /\ sent' = sent /\ size' = size /\ txBuffer' = txBuffer
        /\ nextPdu' = nextPdu /\ waiting' = waiting
    BY DEF Lose, Fault, Cleared
  <1> DEFINE N == nextPdu
             n == air[1].n
  <1>4. /\ AirOK(air, H, P, N) /\ WindowOK(rx, B, U, H, X, P, N)
        /\ CountOK(B, U, H, X, air, N, waiting, faults)
    BY <1>1 DEF RxOK
  <1>5. N \in Nat /\ U \in Nat
    BY <1>1, <1>4 DEF SentOK, WindowOK
  <1>6. AirOK(air', H, P, N) /\ AirAfter(air', air, n)
    <2>1. air \in Seq({P[m] : m \in 0 .. N - 1})
      BY <1>4 DEF AirOK
    <2>2. air' \in Seq({P[m] : m \in 0 .. N - 1}) /\ IsRemoved(air', air, 1) /\ 1 \in 1 .. Len(air)
      BY <1>3, <2>1, TailIs
    <2> QED
      BY <1>4, <1>5, <2>2, AirRemoved
  <1>7. CountOK(B, U, H, X, air', N, waiting, faults')
    <2> DEFINE M == Missing(B, U, air, N)
               M2 == Missing(B, U, air', N)
    <2>1. M2 \subseteq M \cup {n}
      BY <1>6 DEF Missing, AirAfter
    <2>2. IsFiniteSet(M)
      BY <1>5, MissingFinite
    <2>3. Cardinality(M) <= faults /\ faults \in Nat
      BY <1>4, BoundsAre DEF CountOK
    <2> HIDE DEF M, M2
    <2>4. Cardinality(M2) \in Nat /\ Cardinality(M) \in Nat /\ Cardinality(M2) <= Cardinality(M) + 1
      BY <2>1, <2>2, AddsOne
    <2>5. Cardinality(M2) <= faults' /\ faults' \in 0 .. MaxFaults
      BY <1>3, <2>3, <2>4, BoundsAre
    <2> QED
      BY <1>4, <2>5 DEF CountOK, M2
  <1>8. RxOK(rx, B, U, H, X, P, nextPdu', txBuffer', size', air', waiting', faults', last)
    BY <1>1, <1>3, <1>6, <1>7 DEF RxOK
  <1>9. sent' = Len(size') /\ SentOK(P, nextPdu', txBuffer', size')
    BY <1>1, <1>2, <1>3
  <1> QED
    BY <1>1, <1>2, <1>3, <1>8, <1>9, KeepsQuietly

\* Any PDU on the channel that has not overtaken too many arrives.
LEMMA ReceiveKeeps ==
    ASSUME WindowSuffices, RlcInv, NEW i, NEW again \in BOOLEAN, Receive(i, again)
    PROVE  Kept
  <1>1. PICK P, B, U, H, X :
            /\ StartOK(rx, U, H) /\ SentOK(P, nextPdu, txBuffer, size)
            /\ RxOK(rx, B, U, H, X, P, nextPdu, txBuffer, size, air, waiting, faults, last)
    BY InvGives
  <1>2. sent = Len(size) /\ DOMAIN rx = Fields
    BY InvGives
  <1> DEFINE N == nextPdu
             n == air[i].n
             old == Cleared(rx)
             q == DoReceiveNrSlRlcPdu(old, air[i])
  <1>3. /\ i \in DOMAIN air /\ air[i].n - Head(air).n <= MaxLate
        /\ (rx.timer => waiting < MaxWaiting)
        /\ IF again THEN faults < MaxFaults /\ faults' = faults + 1 /\ air' = air
           ELSE air' = RemoveAt(air, i) /\ faults' = faults
        /\ Delivered(q)
        /\ waiting' = IF q.timer /\ rx.timer /\ q.vrUx = rx.vrUx THEN waiting + 1 ELSE 0
        /\ sent' = sent /\ size' = size /\ txBuffer' = txBuffer /\ nextPdu' = nextPdu
    BY DEF Receive, Fault, Cleared
  <1>4. /\ AirOK(air, H, P, N) /\ CountOK(B, U, H, X, air, N, waiting, faults)
    BY <1>1 DEF RxOK
  <1>5. N \in Nat
    BY <1>1 DEF SentOK
  <1>6. air \in Seq({P[m] : m \in 0 .. N - 1}) /\ i \in 1 .. Len(air) /\ Len(air) \in Nat
    <2>1. air \in Seq({P[m] : m \in 0 .. N - 1})
      BY <1>4 DEF AirOK
    <2> QED
      BY <1>3, <2>1
  <1>7. n \in 0 .. N - 1 /\ air[i] = P[n] /\ n \in NumbersOf(air)
    BY <1>4, <1>6 DEF AirOK, NumbersOf
  <1>8. \A j \in 1 .. Len(air) : n - MaxLate <= air[j].n
    <2> TAKE j \in 1 .. Len(air)
    <2>1. Head(air) = air[1] /\ 1 \in 1 .. Len(air)
      BY <1>6
    <2>2. air[1].n \in 0 .. N - 1 /\ air[j].n \in 0 .. N - 1 /\ (1 < j => air[1].n < air[j].n)
      BY <1>4, <2>1 DEF AirOK
    <2>3. n - air[1].n <= MaxLate
      BY <1>3, <2>1
    <2>4. air[1].n <= air[j].n
      BY <1>5, <2>2
    <2> HIDE DEF n
    <2> QED
      BY <1>5, <1>7, <2>2, <2>3, <2>4, BoundsAre
  <1>9. AirAfter(air', air, n) /\ \A G : AirOK(air, G, P, N) => AirOK(air', G, P, N)
    <2>1. CASE again
      BY <1>3, <2>1 DEF AirAfter
    <2>2. CASE ~again
      <3>1. air' \in Seq({P[m] : m \in 0 .. N - 1}) /\ IsRemoved(air', air, i)
        BY <1>3, <1>6, <2>2, RemoveIs
      <3>2. \A G : AirOK(air, G, P, N) => AirOK(air', G, P, N) /\ AirAfter(air', air, n)
        BY <1>5, <1>6, <3>1, AirRemoved
      <3> QED
        BY <1>4, <3>2
    <2> QED
      BY <2>1, <2>2
  <1>10. faults' \in 0 .. MaxFaults /\ faults <= faults'
    <2>1. faults \in 0 .. MaxFaults
      BY <1>4 DEF CountOK
    <2> QED
      BY <1>3, <2>1, BoundsAre
  <1>11. /\ DOMAIN old = Fields /\ old.up = << >> /\ old.timer = rx.timer /\ old.vrUx = rx.vrUx
         /\ StartOK(old, U, H)
         /\ RxOK(old, B, U, H, X, P, N, txBuffer, size, air, waiting, faults, last)
    BY <1>1, <1>2, ClearedIs
  <1>12. q = DoReceiveNrSlRlcPdu(old, P[n])
    BY <1>7
  <1>13. waiting' = IF q.timer /\ old.timer /\ q.vrUx = old.vrUx THEN waiting + 1 ELSE 0
    BY <1>3, <1>11
  <1>14. old.timer => waiting < MaxWaiting
    BY <1>3, <1>11
  <1> HIDE DEF q, old, n
  <1>15. PduReceived(q, old, P, N, txBuffer, size, air', waiting, faults', last)
    <2>1. IsNear(n, air) /\ AirThen(air', air, n, P, N)
      BY <1>8, <1>9 DEF IsNear, AirThen
    <2>2. PduReceived(DoReceiveNrSlRlcPdu(old, P[n]), old, P, N, txBuffer, size, air', waiting,
                      faults', last)
      BY <1>1, <1>5, <1>7, <1>10, <1>11, <1>14, <2>1, DoReceives
    <2> QED
      BY <1>12, <2>2
  <1>16. /\ DOMAIN q = Fields /\ q.firstPduRxed = TRUE /\ UpOK(q.up, last, size)
         /\ \E B2, V, K, Y :
                RxOK(q, B2, V, K, Y, P, N, txBuffer, size, air', waiting', faults', LastOf(q.up, last))
    BY <1>13, <1>15 DEF PduReceived
  <1>17. PICK B2, V, K, Y :
             RxOK(q, B2, V, K, Y, P, N, txBuffer, size, air', waiting', faults', LastOf(q.up, last))
    BY <1>16
  <1>18. rx' = q /\ last' = IF rx'.up = << >> THEN last ELSE SduOf(Last(rx'.up))
    BY <1>3 DEF Delivered
  <1>19. /\ sent' = Len(size') /\ DOMAIN rx' = Fields /\ UpOK(rx'.up, last, size')
         /\ StartOK(rx', V, K) /\ SentOK(P, nextPdu', txBuffer', size')
         /\ RxOK(rx', B2, V, K, Y, P, nextPdu', txBuffer', size', air', waiting', faults',
                 LastOf(rx'.up, last))
    BY <1>1, <1>2, <1>3, <1>16, <1>17, <1>18 DEF StartOK
  <1> QED
    BY <1>18, <1>19, Keeps

\* t-Reordering expires.
LEMMA ExpireKeeps ==
    ASSUME WindowSuffices, RlcInv, Expire
    PROVE  Kept
  <1>1. PICK P, B, U, H, X :
            /\ StartOK(rx, U, H) /\ SentOK(P, nextPdu, txBuffer, size)
            /\ RxOK(rx, B, U, H, X, P, nextPdu, txBuffer, size, air, waiting, faults, last)
    BY InvGives
  <1>2. sent = Len(size) /\ DOMAIN rx = Fields
    BY InvGives
  <1> DEFINE N == nextPdu
             old == Cleared(rx)
             q == ExpireNrSlReorderingTimer(old)
  <1>3. /\ rx.timer /\ Delivered(q) /\ waiting' = 0
        /\ sent' = sent /\ size' = size /\ txBuffer' = txBuffer /\ nextPdu' = nextPdu
        /\ air' = air /\ faults' = faults
    BY DEF Expire, Cleared
  <1>4. N \in Nat
    BY <1>1 DEF SentOK
  <1>5. /\ DOMAIN old = Fields /\ old.up = << >> /\ old.timer
        /\ old.firstPduRxed = rx.firstPduRxed /\ StartOK(old, U, H)
        /\ RxOK(old, B, U, H, X, P, N, txBuffer, size, air, waiting, faults, last)
    BY <1>1, <1>2, <1>3, ClearedIs
  <1> HIDE DEF old
  <1>6. /\ DOMAIN q = Fields /\ q.firstPduRxed = old.firstPduRxed /\ UpOK(q.up, last, size)
        /\ \E B2, V, Y :
               RxOK(q, B2, V, H, Y, P, N, txBuffer, size, air, 0, faults, LastOf(q.up, last))
    BY <1>1, <1>4, <1>5, Expires
  <1> HIDE DEF q
  <1>7. PICK B2, V, Y :
            RxOK(q, B2, V, H, Y, P, N, txBuffer, size, air, 0, faults, LastOf(q.up, last))
    BY <1>6
  <1>8. rx' = q /\ last' = IF rx'.up = << >> THEN last ELSE SduOf(Last(rx'.up))
    BY <1>3 DEF Delivered
  <1>9. old.firstPduRxed = TRUE
    <2>1. U < H /\ U \in Nat /\ H \in Nat
      BY <1>5 DEF RxOK, WindowOK, TimerOK
    <2>2. ~(U = 0 /\ H = 0)
      BY <2>1
    <2> QED
      BY <1>5, <2>2 DEF StartOK
  <1>10. /\ sent' = Len(size') /\ DOMAIN rx' = Fields /\ UpOK(rx'.up, last, size')
         /\ StartOK(rx', V, H) /\ SentOK(P, nextPdu', txBuffer', size')
         /\ RxOK(rx', B2, V, H, Y, P, nextPdu', txBuffer', size', air', waiting', faults',
                 LastOf(rx'.up, last))
    BY <1>1, <1>2, <1>3, <1>6, <1>7, <1>8, <1>9 DEF StartOK
  <1> QED
    BY <1>8, <1>10, Keeps

LEMMA InitInv ==
    ASSUME Init
    PROVE  RlcInv
  <1>0. 0 % SnMod = 0
    <2>1. 0 = SnMod * 0 + 0 /\ 0 \in 0 .. SnMod - 1 /\ 0 \in Int
      BY BoundsAre
    <2> QED
      BY <2>1, SnUnique
  <1>1. /\ sent = 0 /\ size = << >> /\ txBuffer = << >> /\ nextPdu = 0 /\ air = << >>
        /\ waiting = 0 /\ faults = 0 /\ last = 0
        /\ rx.vrUr = 0 /\ rx.vrUx = 0 /\ rx.vrUh = 0 /\ rx.buffer = << >> /\ rx.timer = FALSE
        /\ rx.firstPduRxed = FALSE /\ rx.expected = 0 /\ rx.state = "WAITING_S0_FULL"
        /\ rx.keepS0 = << >> /\ rx.sdus = << >> /\ rx.up = << >> /\ DOMAIN rx = Fields
    BY DEF Init, InitRx, Fields
  <1>2. Len(<< >>) = 0 /\ 1 .. 0 = {} /\ 0 .. 0 - 1 = {} /\ DOMAIN << >> = {}
    OBVIOUS
  <1>3. << >> \in Seq(Nat \ {0}) /\ << >> \in Seq(Segment) /\ << >> \in Seq({})
        /\ << >> \in Seq(Seq(Segment))
    OBVIOUS
  <1> DEFINE P == << >>
             N == nextPdu
  <1>4. SentOK(P, N, txBuffer, size)
    BY <1>1, <1>2, <1>3 DEF SentOK, TxOK, ListOK
  <1>5. AirOK(air, 0, P, N)
    BY <1>1, <1>2, <1>3 DEF AirOK
  <1>6. WindowOK(rx, {}, 0, 0, 0, P, N)
    BY <1>0, <1>1, <1>2 DEF WindowOK, Holds
  <1>7. TimerOK(rx, {}, 0, 0, 0) /\ StartOK(rx, 0, 0)
    <2>1. ~(0 < 0) /\ FALSE \in BOOLEAN
      OBVIOUS
    <2>2. rx.timer \in BOOLEAN /\ ~rx.timer /\ rx.firstPduRxed \in BOOLEAN
      BY <1>1, Zenon
    <2>3. TimerOK(rx, {}, 0, 0, 0)
      BY <2>1, <2>2 DEF TimerOK
    <2>4. StartOK(rx, 0, 0)
      BY <1>1, <2>2 DEF StartOK
    <2> QED
      BY <2>3, <2>4
  <1>8. CountOK({}, 0, 0, 0, air, N, waiting, faults)
    <2>1. Missing({}, 0, air, N) = {}
      BY <1>1, <1>2 DEF Missing
    <2>2. Cardinality({}) = 0
      BY FS_EmptySet
    <2> QED
      <3>1. 0 \in 0 .. MaxWaiting /\ 0 \in 0 .. MaxFaults /\ 0 <= MaxWaiting + 1 + 0
            /\ ~(0 < 0) /\ 0 <= 0
        BY BoundsAre
      <3> QED
        BY <1>1, <2>1, <2>2, <3>1 DEF CountOK
  <1>9. ReassemblyOK(rx, 0, last, P, N, txBuffer, size)
    BY <1>0, <1>1, <1>2 DEF ReassemblyOK
  <1>10. InvFor(P, {}, 0, 0, 0)
    BY <1>4, <1>5, <1>6, <1>7, <1>8, <1>9 DEF InvFor
  <1> QED
    BY <1>1, <1>2, <1>3, <1>10 DEF RlcInv

LEMMA NextKeeps ==
    ASSUME WindowSuffices, RlcInv, Next
    PROVE  Kept
  <1>1. CASE \E n \in Sizes : DoTransmitNrSlPdcpPdu(n)
    BY <1>1, TransmitKeeps
  <1>2. CASE \E bytes \in TxBytes : DoNotifyNrSlTxOpportunity(bytes)
    BY <1>2, TxOpportunityKeeps
  <1>3. CASE Lose
    BY <1>3, LoseKeeps
  <1>4. CASE \E i \in 1 .. MaxLate + 1, again \in BOOLEAN : Receive(i, again)
    BY <1>4, ReceiveKeeps
  <1>5. CASE Expire
    BY <1>5, ExpireKeeps
  <1> QED
    BY <1>1, <1>2, <1>3, <1>4, <1>5 DEF Next

(***************************************************************************)
(* While PDUs are lost, duplicated and overtaken, the receiver's variables  *)
(* stand for a window over the PDUs sent, t-Reordering runs exactly while   *)
(* something is missing below VR(UH), and reassembly has dealt with all of  *)
(* the stream up to VR(UR).                                                 *)
(***************************************************************************)
THEOREM RlcInvariance == ASSUME WindowSuffices PROVE Spec => []RlcInv
  <1>1. Init => RlcInv
    BY InitInv
  <1>2. RlcInv /\ [Next]_vars => RlcInv'
    <2> SUFFICES ASSUME RlcInv, [Next]_vars PROVE RlcInv'
      OBVIOUS
    <2>1. CASE Next
      BY <2>1, NextKeeps DEF Kept
    <2>2. CASE UNCHANGED vars
      BY <2>2 DEF vars, RlcInv, InvFor
    <2> QED
      BY <2>1, <2>2
  <1> QED
    BY <1>1, <1>2, PTL DEF Spec

(***************************************************************************)
(* Whatever is lost, duplicated or overtaken, NrSlReassembleAndDeliver      *)
(* hands up an SDU only as it was sent, from its first octet to its last.   *)
(***************************************************************************)
THEOREM SdusIntact == ASSUME WindowSuffices PROVE Spec => []SduIsIntact
  <1>1. RlcInv => SduIsIntact
    <2> SUFFICES ASSUME RlcInv, NEW k \in DOMAIN rx.up
                 PROVE  LET s == rx.up[k] IN
                        /\ \A i \in DOMAIN s : s[i].sdu = s[1].sdu
                        /\ s[1].from = 1 /\ Last(s).to = size[s[1].sdu]
                        /\ \A i \in 1 .. Len(s) - 1 : s[i + 1].from = s[i].to + 1
      BY DEF SduIsIntact
    <2>1. rx.up \in Seq(Seq(Segment))
      BY DEF RlcInv
    <2>2. k \in 1 .. Len(rx.up)
      BY <2>1
    <2>3. Chain(rx.up[k], size) /\ Whole(rx.up[k], size)
      BY <2>2 DEF RlcInv
    <2>4. DOMAIN rx.up[k] = 1 .. Len(rx.up[k])
      BY <2>3 DEF Chain
    <2> QED
      BY <2>3, <2>4 DEF Chain, Whole, Last
  <1> QED
    BY <1>1, RlcInvariance, PTL

(***************************************************************************)
(* The transitions that NrSlReassembleAndDeliver calls not possible do not  *)
(* happen: a PDU that continues the SDU in m_keepS0 never begins with the   *)
(* first octet of another one, and nothing is left over in m_sdusBuffer.    *)
(***************************************************************************)
THEOREM TransitionsPossible == ASSUME WindowSuffices PROVE Spec => []NoImpossibleTransition
  <1>1. RlcInv => NoImpossibleTransition
    BY DEF RlcInv, InvFor, ReassemblyOK, NoImpossibleTransition
  <1> QED
    BY <1>1, RlcInvariance, PTL

-----------------------------------------------------------------------------
(* The service                                                              *)

\* The numbers of the SDUs that are handed up.
Numbers(u) == [k \in DOMAIN u |-> SduOf(u[k])]

LEMMA NumbersAre ==
    ASSUME NEW u, NEW l \in Nat, NEW sz \in Seq(Nat \ {0}), UpOK(u, l, sz)
    PROVE  /\ Numbers(u) \in Seq(Nat) /\ Len(Numbers(u)) = Len(u)
           /\ \A k \in 1 .. Len(u) : Numbers(u)[k] = u[k][1].sdu /\ Numbers(u)[k] \in 1 .. Len(sz)
  <1>1. u \in Seq(Seq(Segment)) /\ Len(u) \in Nat /\ DOMAIN u = 1 .. Len(u) /\ Len(sz) \in Nat
    BY DEF UpOK
  <1>2. \A k \in 1 .. Len(u) : u[k][1].sdu \in 1 .. Len(sz) /\ u[k][1].sdu \in Nat
    BY <1>1 DEF UpOK, Chain
  <1>3. Numbers(u) = [k \in 1 .. Len(u) |-> u[k][1].sdu]
    BY <1>1 DEF Numbers, SduOf
  <1>4. \A k \in 1 .. Len(u) : Numbers(u)[k] = u[k][1].sdu
    BY <1>3
  <1>5. Numbers(u) \in [1 .. Len(u) -> Nat]
    BY <1>2, <1>3
  <1>6. Numbers(u) \in Seq(Nat) /\ Len(Numbers(u)) = Len(u)
    <2> DEFINE d == Numbers(u)
    <2>1. PICK m \in Nat : m = Len(u)
      BY <1>1
    <2>2. d \in [1 .. m -> Nat]
      BY <1>5, <2>1
    <2> HIDE DEF d
    <2>3. d \in Seq(Nat) /\ Len(d) = m
      BY <2>2
    <2> QED
      BY <2>1, <2>3 DEF d
  <1> QED
    BY <1>2, <1>4, <1>6

LEMMA NoNumbers == Numbers(<< >>) = << >>
  <1>1. << >> \in Seq(Nat) /\ DOMAIN << >> = {} /\ Len(<< >>) = 0
    OBVIOUS
  <1>2. Numbers(<< >>) = [k \in 1 .. 0 |-> 0]
    BY <1>1 DEF Numbers
  <1>3. [k \in 1 .. 0 |-> 0] \in Seq(Nat) /\ Len([k \in 1 .. 0 |-> 0]) = 0
    OBVIOUS
  <1>4. \A s \in Seq(Nat) : Len(s) = 0 => s = << >>
    OBVIOUS
  <1> QED
    BY <1>2, <1>3, <1>4

\* What is handed up comes after the last SDU and in order.
LEMMA HandedUp ==
    ASSUME NEW u, NEW l \in Nat, NEW sz \in Seq(Nat \ {0}), UpOK(u, l, sz)
    PROVE  /\ Service!Ascending(<<l>> \o Numbers(u))
           /\ \A i \in DOMAIN Numbers(u) : Numbers(u)[i] \in 1 .. Len(sz)
           /\ LastOf(u, l) = (<<l>> \o Numbers(u))[Len(Numbers(u)) + 1]
  <1> DEFINE d == Numbers(u)
             c == <<l>> \o d
  <1>1. /\ d \in Seq(Nat) /\ Len(d) = Len(u) /\ DOMAIN d = 1 .. Len(d)
        /\ \A k \in 1 .. Len(u) : d[k] = u[k][1].sdu /\ d[k] \in 1 .. Len(sz)
    BY NumbersAre
  <1> HIDE DEF d
  <1>2. /\ Len(d) \in Nat /\ Len(c) = Len(d) + 1 /\ c[1] = l
        /\ \A i \in 2 .. Len(d) + 1 : c[i] = d[i - 1] /\ i - 1 \in 1 .. Len(d)
    BY <1>1, ConsIs
  <1> HIDE DEF c
  <1>3. ASSUME NEW i \in 1 .. Len(c) - 1 PROVE c[i] < c[i + 1]
    <2>1. i + 1 \in 2 .. Len(d) + 1 /\ (i + 1) - 1 = i
      BY <1>2
    <2>2. c[i + 1] = d[i] /\ i \in 1 .. Len(u)
      BY <1>1, <1>2, <2>1
    <2>3. CASE i = 1
      BY <1>1, <1>2, <2>2, <2>3 DEF UpOK
    <2>4. CASE i # 1
      <3>1. i \in 2 .. Len(d) + 1 /\ i - 1 < i
        BY <1>2, <2>4
      <3>2. c[i] = d[i - 1] /\ i - 1 \in 1 .. Len(u)
        BY <1>1, <1>2, <3>1
      <3>3. u[i - 1][1].sdu < u[i][1].sdu
        BY <2>2, <3>1, <3>2 DEF UpOK
      <3> QED
        BY <1>1, <2>2, <3>2, <3>3
    <2> QED
      BY <2>3, <2>4
  <1>4. Service!Ascending(c)
    BY <1>3 DEF Service!Ascending
  <1>5. LastOf(u, l) = c[Len(d) + 1]
    <2>0. u \in Seq(Seq(Segment))
      BY DEF UpOK
    <2>1. CASE u = << >>
      <3>1. Len(d) + 1 = 1
        BY <1>1, <2>1
      <3> QED
        BY <1>2, <2>1, <3>1 DEF LastOf
    <2>2. CASE u # << >>
      <3>1. Len(u) \in 1 .. Len(u)
        BY <2>0, <2>2
      <3>2. Len(d) + 1 \in 2 .. Len(d) + 1 /\ (Len(d) + 1) - 1 = Len(u)
        BY <1>1, <1>2, <3>1
      <3>3. c[Len(d) + 1] = d[Len(u)]
        BY <1>2, <3>2
      <3> QED
        BY <1>1, <2>2, <3>1, <3>3 DEF LastOf
    <2> QED
      BY <2>1, <2>2
  <1> QED
    BY <1>1, <1>4, <1>5 DEF c, d

ServiceVars == <<sent, last, Numbers(rx.up)>>

\* Every step is one of the service.
LEMMA NextServes ==
    ASSUME WindowSuffices, RlcInv, [Next]_vars
    PROVE  [Service!Next]_ServiceVars
  <1>1. CASE UNCHANGED vars
    BY <1>1 DEF vars, ServiceVars
  <1>2. CASE Next
    <2>1. UpOK(rx'.up, last, size') /\ last' = LastOf(rx'.up, last) /\ RlcInv'
      BY <1>2, NextKeeps DEF Kept
    <2>2. sent' = Len(size') /\ size' \in Seq(Nat \ {0})
      BY <2>1 DEF RlcInv, InvFor, SentOK
    <2>3. last \in Nat
      <3>1. last \in 0 .. Len(size)
        BY DEF RlcInv, InvFor, ReassemblyOK
      <3> QED
        BY <3>1
    <2>4. CASE \E n \in Sizes : DoTransmitNrSlPdcpPdu(n)
      <3>1. sent' = sent + 1 /\ rx' = Cleared(rx) /\ DOMAIN rx = Fields
        BY <2>4 DEF DoTransmitNrSlPdcpPdu, Delivered, Cleared, RlcInv
      <3>2. rx'.up = << >>
        BY <3>1, ClearedIs
      <3>3. last' = last /\ Numbers(rx'.up) = << >>
        BY <2>1, <3>2, NoNumbers DEF LastOf
      <3>4. Service!Send
        BY <3>1, <3>3 DEF Service!Send, Numbers
      <3> QED
        BY <3>4 DEF Service!Next
    <2>5. CASE ~\E n \in Sizes : DoTransmitNrSlPdcpPdu(n)
      <3>1. sent' = sent
        BY <1>2, <2>5 DEF Next, DoNotifyNrSlTxOpportunity, Lose, Receive, Expire
      <3>2. /\ Service!Ascending(<<last>> \o Numbers(rx'.up))
            /\ \A i \in DOMAIN Numbers(rx'.up) : Numbers(rx'.up)[i] \in 1 .. Len(size')
            /\ LastOf(rx'.up, last) = (<<last>> \o Numbers(rx'.up))[Len(Numbers(rx'.up)) + 1]
        BY <2>1, <2>2, <2>3, HandedUp
      <3>3. /\ Service!Ascending(<<last>> \o Numbers(rx'.up))
            /\ \A i \in DOMAIN Numbers(rx'.up) : Numbers(rx'.up)[i] \in 1 .. sent
            /\ last' = (<<last>> \o Numbers(rx'.up))[Len(Numbers(rx'.up)) + 1]
        BY <2>1, <2>2, <3>1, <3>2
      <3>4. Service!Deliver
        BY <3>1, <3>3 DEF Service!Deliver, Numbers
      <3> QED
        BY <3>4 DEF Service!Next
    <2> QED
      BY <2>4, <2>5
  <1> QED
    BY <1>1, <1>2

(***************************************************************************)
(* RLC UM on a sidelink bearer implements its service: whatever the channel *)
(* loses, duplicates and reorders, and however often the sequence numbers   *)
(* wrap around, SDUs are handed up in the order in which they were handed   *)
(* over, and none twice.                                                    *)
(***************************************************************************)
THEOREM RlcImplementsService == ASSUME WindowSuffices PROVE Spec => ImplementsService
  <1>1. Init => Service!Init
    <2> SUFFICES ASSUME Init PROVE Service!Init
      OBVIOUS
    <2>1. sent = 0 /\ last = 0 /\ rx.up = << >>
      BY DEF Init, InitRx
    <2>2. Numbers(rx.up) = << >>
      BY <2>1, NoNumbers
    <2> QED
      BY <2>1, <2>2 DEF Service!Init, Numbers
  <1>2. RlcInv /\ [Next]_vars => [Service!Next]_Service!vars
    BY NextServes DEF ServiceVars, Numbers, Service!vars
  <1> QED
    BY <1>1, <1>2, RlcInvariance, PTL DEF Spec, ImplementsService, Service!Spec
=============================================================================
