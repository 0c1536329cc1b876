-------------------------- MODULE E2ControlProofs ---------------------------
(***************************************************************************)
(* Proofs about E2Control, for any answers of the xApp, any number of       *)
(* reports and of messages for other simulations, and messages of any       *)
(* length that are cut anywhere.                                            *)
(***************************************************************************)
EXTENDS E2Control, FiniteSetTheorems, SequenceTheorems, TLAPS

----------------------------------------------------------------------------
(* Numbers                                                                 *)

\* A set of naturals that is not empty has a least element.
LEMMA Least ==
    ASSUME NEW T, T \subseteq Nat, T # {}
    PROVE  \E x \in T : \A y \in T : x <= y
  <1> DEFINE R == OpToRel(<, Nat)
  <1>1. \A a, b \in Nat : a < b => <<a, b>> \in R
    BY DEF OpToRel
  <1>2. IsWellFoundedOn(R, Nat)
    BY NatLessThanWellFounded
  <1> HIDE DEF R
  <1>3. PICK x \in T : \A y \in T : ~ (<<y, x>> \in R)
    BY <1>2, WFMin
  <1>4. \A y \in T : ~ (y < x)
    BY <1>1, <1>3
  <1>5. \A y \in T : x \in Int /\ y \in Int
    OBVIOUS
  <1>6. \A y \in T : x <= y
    BY <1>4, <1>5
  <1> QED
    BY <1>6

\* Induction over the natural numbers, as a property of sets.
LEMMA SetInduction ==
    ASSUME NEW S, 0 \in S, \A n \in Nat : n \in S => n + 1 \in S
    PROVE  Nat \subseteq S
  <1> DEFINE T == {n \in Nat : n \notin S}
  <1> SUFFICES ASSUME T # {} PROVE FALSE
    OBVIOUS
  <1>1. PICK x \in T : \A y \in T : x <= y
    BY Least
  <1>2. x # 0 /\ x - 1 \in Nat /\ x - 1 \notin T
    BY <1>1
  <1> QED
    BY <1>2

\* Division with remainder.
LEMMA Division ==
    ASSUME NEW d \in Nat \ {0}, NEW n \in Nat
    PROVE  \E k, r \in Nat : n = k * d + r /\ r < d
  <1> DEFINE S == {i \in Nat : \E k, r \in Nat : i = k * d + r /\ r < d}
  <1>1. 0 \in S
    <2>1. 0 = 0 * d + 0 /\ 0 < d
      OBVIOUS
    <2> QED
      BY <2>1
  <1>2. ASSUME NEW i \in Nat, i \in S PROVE i + 1 \in S
    <2>1. PICK k \in Nat, r \in Nat : i = k * d + r /\ r < d
      BY <1>2
    <2>2. CASE r + 1 < d
      <3>1. i + 1 = k * d + (r + 1) /\ r + 1 \in Nat
        BY <2>1
      <3> QED
        BY <2>2, <3>1
    <2>3. CASE r + 1 = d
      <3> DEFINE p == k * d
                 q == (k + 1) * d
      <3>1. q = p + d /\ p \in Nat
        OBVIOUS
      <3>2. i = p + r
        BY <2>1
      <3> HIDE DEF p, q
      <3>3. i + 1 = q + 0 /\ k + 1 \in Nat /\ 0 < d
        BY <2>3, <3>1, <3>2
      <3>4. \E kk, rr \in Nat : i + 1 = kk * d + rr /\ rr < d
        <4> WITNESS k + 1 \in Nat, 0 \in Nat
        <4> QED
          BY <3>3 DEF q
      <3> QED
        BY <3>4
    <2> QED
      BY <2>1, <2>2, <2>3
  <1> HIDE DEF S
  <1>3. n \in S
    BY <1>1, <1>2, SetInduction
  <1> QED
    BY <1>3 DEF S

\* Multiplication by a length keeps the order.
LEMMA ProductOrder ==
    ASSUME NEW d \in Nat \ {0}, NEW a \in Nat, NEW b \in Nat, a * d <= b * d
    PROVE  a <= b
  <1> SUFFICES ASSUME a >= b + 1 PROVE FALSE
    OBVIOUS
  <1> DEFINE e == a - b - 1
  <1>1. e \in Nat /\ a = e + (b + 1)
    OBVIOUS
  <1> HIDE DEF e
  <1>2. e * d \in Nat /\ b * d \in Nat
    BY <1>1
  <1>3. a * d = e * d + (b * d + d)
    BY <1>1
  <1> QED
    BY <1>2, <1>3

----------------------------------------------------------------------------
(* Concatenation                                                           *)

\* What is put together has one beginning and one end.
LEMMA ConcatCancel ==
    ASSUME NEW S, NEW a \in Seq(S), NEW b \in Seq(S), NEW c \in Seq(S), NEW d \in Seq(S),
           a \o b = c \o d, Len(a) = Len(c)
    PROVE  a = c /\ b = d
  <1>1. Len(a \o b) = Len(a) + Len(b) /\ Len(c \o d) = Len(c) + Len(d)
    BY ConcatProperties, Zenon
  <1>2. Len(b) = Len(d)
    BY <1>1
  <1>3. \A i \in 1..Len(a) : a[i] = c[i]
    <2> TAKE i \in 1..Len(a)
    <2>1. (a \o b)[i] = a[i] /\ (c \o d)[i] = c[i]
      OBVIOUS
    <2> QED
      BY <2>1
  <1>4. \A i \in 1..Len(b) : b[i] = d[i]
    <2> TAKE i \in 1..Len(b)
    <2>1. (a \o b)[Len(a) + i] = b[i] /\ (c \o d)[Len(c) + i] = d[i]
      BY <1>2
    <2> QED
      BY <2>1
  <1> QED
    BY <1>2, <1>3, <1>4, SeqEqual

\* The passes of FlattenSeq.
Flattens(S, f, ss, n) ==
    /\ f \in [1..n -> Seq(S)]
    /\ \A i \in 1..n : f[i] = IF i = 1 THEN ss[i] ELSE f[i - 1] \o ss[i]

\* They exist.
LEMMA FlattensExists ==
    ASSUME NEW S, NEW ss \in Seq(Seq(S))
    PROVE  \A n \in 0..Len(ss) : \E f : Flattens(S, f, ss, n)
  <1> DEFINE T == {n \in Nat : n <= Len(ss) => \E f : Flattens(S, f, ss, n)}
  <1>1. 0 \in T
    <2>1. Flattens(S, [i \in 1..0 |-> <<>>], ss, 0)
      BY DEF Flattens
    <2> QED
      BY <2>1
  <1>2. ASSUME NEW n \in Nat, n \in T PROVE n + 1 \in T
    <2> SUFFICES ASSUME n + 1 <= Len(ss) PROVE \E f : Flattens(S, f, ss, n + 1)
      OBVIOUS
    <2>1. PICK f : Flattens(S, f, ss, n)
      BY <1>2
    <2> DEFINE v == IF n + 1 = 1 THEN ss[n + 1] ELSE f[n] \o ss[n + 1]
               g == [i \in 1..(n + 1) |-> IF i = n + 1 THEN v ELSE f[i]]
    <2>2. ss[n + 1] \in Seq(S)
      OBVIOUS
    <2>3. v \in Seq(S)
      <3>1. n # 0 => f[n] \in Seq(S)
        BY <2>1 DEF Flattens
      <3> QED
        BY <2>2, <3>1
    <2> HIDE DEF v
    <2>4. g \in [1..(n + 1) -> Seq(S)]
      BY <2>1, <2>3 DEF Flattens
    <2>5. g[n + 1] = v /\ (n # 0 => g[n] = f[n]) /\ (n + 1) - 1 = n
      OBVIOUS
    <2>6. \A i \in 1..n : g[i] = f[i] /\ (i # 1 => g[i - 1] = f[i - 1])
      OBVIOUS
    <2> HIDE DEF g
    <2>7. \A i \in 1..(n + 1) : g[i] = IF i = 1 THEN ss[i] ELSE g[i - 1] \o ss[i]
      <3> TAKE i \in 1..(n + 1)
      <3>1. CASE i = n + 1
        BY <2>5, <3>1 DEF v
      <3>2. CASE i # n + 1
        <4>1. i \in 1..n
          BY <3>2
        <4> QED
          BY <2>1, <2>6, <4>1 DEF Flattens
      <3> QED
        BY <3>1, <3>2
    <2>8. Flattens(S, g, ss, n + 1)
      BY <2>4, <2>7 DEF Flattens
    <2> QED
      BY <2>8
  <1> HIDE DEF T
  <1>3. Nat \subseteq T
    BY <1>1, <1>2, SetInduction
  <1> QED
    BY <1>3 DEF T

\* Two functions that begin alike.
Agree(f, g, n) == \A i \in 1..n : f[i] = g[i]

\* They agree on what they have in common.
LEMMA FlattensUnique ==
    ASSUME NEW S, NEW ss \in Seq(Seq(S)), NEW tt \in Seq(Seq(S)), NEW f, NEW g,
           NEW n \in Nat, NEW m \in Nat, n <= m, Agree(ss, tt, n),
           Flattens(S, f, ss, n), Flattens(S, g, tt, m)
    PROVE  Agree(f, g, n)
  <1> DEFINE T == {k \in Nat : k \in 1..n => f[k] = g[k]}
  <1>1. 0 \in T
    OBVIOUS
  <1>2. ASSUME NEW k \in Nat, k \in T PROVE k + 1 \in T
    <2> SUFFICES ASSUME k + 1 \in 1..n PROVE f[k + 1] = g[k + 1]
      OBVIOUS
    <2>2. k + 1 \in 1..m /\ (k + 1) - 1 = k
      OBVIOUS
    <2> DEFINE j == k + 1
    <2> HIDE DEF j
    <2>5. j \in 1..n /\ j \in 1..m /\ j - 1 = k
      BY <2>2 DEF j
    <2>1. f[j] = IF j = 1 THEN ss[j] ELSE f[k] \o ss[j]
      BY <2>5 DEF Flattens
    <2>3. g[j] = IF j = 1 THEN tt[j] ELSE g[k] \o tt[j]
      BY <2>5 DEF Flattens
    <2>6. f[j] = g[j]
      <3>1. j # 1 => k # 0 /\ k \in 1..n
        BY <2>5
      <3>2. j # 1 => f[k] = g[k]
        BY <1>2, <3>1
      <3> QED
        BY <2>1, <2>3, <2>5, <3>2 DEF Agree
    <2> QED
      BY <2>6 DEF j
  <1> HIDE DEF T
  <1>3. Nat \subseteq T
    BY <1>1, <1>2, SetInduction
  <1> QED
    BY <1>3 DEF T, Agree

\* FlattenSeq is what its passes leave.
LEMMA FlattenIs ==
    ASSUME NEW S, NEW ss \in Seq(Seq(S)), ss # <<>>
    PROVE  \E f : Flattens(S, f, ss, Len(ss)) /\ FlattenSeq(ss) = f[Len(ss)]
  <1> DEFINE F(h) == [i \in 1..Len(ss) |-> IF i = 1 THEN ss[i] ELSE h[i - 1] \o ss[i]]
             flat == CHOOSE h : h = F(h)
  <1>1. Len(ss) \in Nat /\ Len(ss) # 0
    OBVIOUS
  <1>2. PICK f : Flattens(S, f, ss, Len(ss))
    BY <1>1, FlattensExists
  <1>3. f = F(f)
    BY <1>2 DEF Flattens
  <1>4. flat = F(flat)
    BY <1>3
  <1>5. FlattenSeq(ss) = flat[Len(ss)]
    BY <1>1 DEF FlattenSeq
  <1> HIDE DEF flat
  <1>6. Flattens(S, flat, ss, Len(ss))
    <2> DEFINE T == {n \in Nat : n \in 1..Len(ss) => flat[n] \in Seq(S)}
    <2>1. 0 \in T
      OBVIOUS
    <2>2. ASSUME NEW n \in Nat, n \in T PROVE n + 1 \in T
      <3> SUFFICES ASSUME n + 1 \in 1..Len(ss) PROVE flat[n + 1] \in Seq(S)
        OBVIOUS
      <3>4. (n + 1) - 1 = n
        OBVIOUS
      <3>5. flat[n + 1] = F(flat)[n + 1]
        BY <1>4
      <3>1. flat[n + 1] = IF n + 1 = 1 THEN ss[n + 1] ELSE flat[n] \o ss[n + 1]
        BY <3>4, <3>5
      <3>2. ss[n + 1] \in Seq(S)
        OBVIOUS
      <3>3. n # 0 => flat[n] \in Seq(S)
        BY <2>2
      <3> QED
        BY <3>1, <3>2, <3>3
    <2> HIDE DEF T
    <2>3. Nat \subseteq T
      BY <2>1, <2>2, SetInduction
    <2>4. \A i \in 1..Len(ss) : flat[i] \in Seq(S)
      BY <2>3 DEF T
    <2>5. DOMAIN flat = 1..Len(ss) /\ \A i \in 1..Len(ss) :
              flat[i] = IF i = 1 THEN ss[i] ELSE flat[i - 1] \o ss[i]
      BY <1>4
    <2>6. flat = [i \in 1..Len(ss) |-> flat[i]]
      BY <1>4, <2>5
    <2> QED
      BY <2>4, <2>5, <2>6 DEF Flattens
  <1> QED
    BY <1>5, <1>6

\* Nothing is put together.
LEMMA FlattenEmpty == FlattenSeq(<<>>) = <<>>
  BY DEF FlattenSeq

\* The passes over a longer sequence have the result for a beginning of it.
LEMMA FlattensPrefix ==
    ASSUME NEW S, NEW ss \in Seq(Seq(S)), ss # <<>>, NEW n \in Nat, n = Len(ss),
           NEW tt \in Seq(Seq(S)), NEW m \in Nat, n <= m, Agree(ss, tt, n),
           NEW g, Flattens(S, g, tt, m)
    PROVE  FlattenSeq(ss) = g[n] /\ g[n] \in Seq(S)
  <1>1. PICK f : Flattens(S, f, ss, n) /\ FlattenSeq(ss) = f[n]
    BY FlattenIs
  <1>2. n \in 1..n
    OBVIOUS
  <1>3. Flattens(S, f, ss, n)
    BY <1>1
  <1>4. Agree(f, g, n)
    BY <1>3, FlattensUnique
  <1>5. f[n] \in Seq(S)
    BY <1>1, <1>2 DEF Flattens
  <1> QED
    BY <1>1, <1>2, <1>4, <1>5 DEF Agree

\* A sequence more is put at the end.
LEMMA FlattenAppend ==
    ASSUME NEW S, NEW ss \in Seq(Seq(S)), NEW s \in Seq(S)
    PROVE  /\ FlattenSeq(ss) \in Seq(S)
           /\ FlattenSeq(Append(ss, s)) = FlattenSeq(ss) \o s
  <1>1. PICK tt : tt = Append(ss, s)
    OBVIOUS
  <1>2. PICK n : n = Len(ss)
    OBVIOUS
  <1>3. PICK m : m = n + 1
    OBVIOUS
  <1>4. n \in Nat /\ m \in Nat /\ n <= m /\ m \in 1..m /\ m - 1 = n
    BY <1>2, <1>3
  <1>5. tt \in Seq(Seq(S)) /\ Len(tt) = m /\ tt[m] = s /\ Agree(ss, tt, n)
    BY <1>1, <1>2, <1>3 DEF Agree
  <1>6. tt # <<>>
    BY <1>3, <1>4, <1>5
  <1>7. PICK g : Flattens(S, g, tt, m) /\ FlattenSeq(tt) = g[m]
    BY <1>5, <1>6, FlattenIs
  <1>8. g[m] = IF m = 1 THEN s ELSE g[n] \o s
    BY <1>4, <1>5, <1>7 DEF Flattens
  <1>9. CASE ss = <<>>
    <2>1. FlattenSeq(ss) = <<>> /\ m = 1
      BY <1>2, <1>3, <1>9, FlattenEmpty
    <2>2. <<>> \o s = s /\ <<>> \in Seq(S)
      OBVIOUS
    <2> QED
      BY <1>1, <1>7, <1>8, <2>1, <2>2
  <1>10. CASE ss # <<>>
    <2>1. n # 0 /\ m # 1
      BY <1>2, <1>3, <1>4, <1>10
    <2>2. FlattenSeq(ss) = g[n] /\ g[n] \in Seq(S)
      BY <1>2, <1>4, <1>5, <1>7, <1>10, FlattensPrefix
    <2> QED
      BY <1>1, <1>7, <1>8, <2>1, <2>2
  <1> QED
    BY <1>9, <1>10

\* One sequence is left as it is.
LEMMA FlattenOne ==
    ASSUME NEW S, NEW s \in Seq(S)
    PROVE  FlattenSeq(<<s>>) = s
  <1>1. <<>> \in Seq(Seq(S)) /\ Append(<<>>, s) = <<s>> /\ <<>> \o s = s
    OBVIOUS
  <1> QED
    BY <1>1, FlattenEmpty, FlattenAppend

----------------------------------------------------------------------------
(* The octets of messages                                                  *)

Octets(m) == [k \in 1..MsgLen |-> [msg |-> m, k |-> k]]

\* A message takes MsgLen octets.
LEMMA OctetsAre ==
    ASSUME NEW m \in Message
    PROVE  Octets(m) \in Seq(Octet) /\ Len(Octets(m)) = MsgLen /\ Octets(m)[1].msg = m
  <1>1. MsgLen \in Nat \ {0}
    BY E2Assumption
  <1>2. \A k \in 1..MsgLen : [msg |-> m, k |-> k] \in Octet
    BY DEF Octet
  <1>3. Octets(m) \in [1..MsgLen -> Octet]
    BY <1>2 DEF Octets
  <1>4. Octets(m) \in Seq(Octet) /\ Len(Octets(m)) = MsgLen
    BY <1>1, <1>3
  <1>5. Octets(m)[1] = [msg |-> m, k |-> 1]
    BY <1>1 DEF Octets
  <1> QED
    BY <1>4, <1>5

\* Nothing is encoded as nothing.
LEMMA EncodeEmpty == Encode(<<>>) = <<>>
  <1>1. [i \in DOMAIN <<>> |-> [k \in 1..MsgLen |-> [msg |-> <<>>[i], k |-> k]]] = <<>>
    OBVIOUS
  <1> QED
    BY <1>1, FlattenEmpty DEF Encode

\* A message more.
LEMMA EncodeAppend ==
    ASSUME NEW ms \in Seq(Message), NEW m \in Message
    PROVE  /\ Encode(ms) \in Seq(Octet)
           /\ Encode(Append(ms, m)) = Encode(ms) \o Octets(m)
  <1> DEFINE C(s) == [i \in DOMAIN s |-> Octets(s[i])]
  <1>1. \A s : Encode(s) = FlattenSeq(C(s))
    BY DEF Encode, Octets
  <1>2. \A i \in DOMAIN ms : Octets(ms[i]) \in Seq(Octet)
    <2> TAKE i \in DOMAIN ms
    <2>1. ms[i] \in Message
      OBVIOUS
    <2> QED
      BY <2>1, OctetsAre
  <1>3. DOMAIN ms = 1..Len(ms) /\ Len(ms) \in Nat
    OBVIOUS
  <1>4. C(ms) \in [1..Len(ms) -> Seq(Octet)]
    BY <1>2, <1>3
  <1>5. C(ms) \in Seq(Seq(Octet)) /\ Len(C(ms)) = Len(ms)
    BY <1>3, <1>4
  <1>6. C(Append(ms, m)) = Append(C(ms), Octets(m))
    <2> DEFINE n == Len(ms)
               a == Append(ms, m)
    <2>1. DOMAIN a = 1..(n + 1) /\ a[n + 1] = m /\ \A i \in 1..n : a[i] = ms[i]
      OBVIOUS
    <2>2. Octets(m) \in Seq(Octet)
      BY OctetsAre
    <2> DEFINE x == C(ms)
               b == Append(x, Octets(m))
    <2>3. x \in Seq(Seq(Octet)) /\ Len(x) = n /\ n \in Nat /\ \A i \in 1..n : x[i] = Octets(ms[i])
      BY <1>3, <1>5
    <2> HIDE DEF a, x
    <2>4. b \in Seq(Seq(Octet)) /\ Len(b) = n + 1 /\ b[n + 1] = Octets(m) /\ \A i \in 1..n : b[i] = x[i]
      BY <2>2, <2>3
    <2>5. DOMAIN b = 1..(n + 1) /\ b = [i \in 1..(n + 1) |-> b[i]]
      <3> HIDE DEF b
      <3>1. b \in [1..(n + 1) -> Seq(Octet)]
        BY <2>3, <2>4
      <3> QED
        BY <3>1
    <2>6. \A i \in 1..(n + 1) : b[i] = Octets(a[i])
      <3> TAKE i \in 1..(n + 1)
      <3>1. CASE i = n + 1
        BY <2>1, <2>4, <3>1
      <3>2. CASE i # n + 1
        <4>1. i \in 1..n
          BY <2>3, <3>2
        <4> QED
          BY <2>1, <2>3, <2>4, <4>1
      <3> QED
        BY <3>1, <3>2
    <2> HIDE DEF b
    <2>7. C(a) = b
      BY <2>1, <2>5, <2>6
    <2> QED
      BY <2>7 DEF a, b, x
  <1> HIDE DEF C
  <1>7. Octets(m) \in Seq(Octet)
    BY OctetsAre
  <1>8. FlattenSeq(C(ms)) \in Seq(Octet) /\ FlattenSeq(Append(C(ms), Octets(m))) = FlattenSeq(C(ms)) \o Octets(m)
    BY <1>5, <1>7, FlattenAppend
  <1> QED
    BY <1>1, <1>6, <1>8

\* One message.
LEMMA EncodeOne ==
    ASSUME NEW m \in Message
    PROVE  Encode(<<m>>) = Octets(m)
  <1>1. <<>> \in Seq(Message) /\ Append(<<>>, m) = <<m>>
    OBVIOUS
  <1>2. <<>> \o Octets(m) = Octets(m)
    BY OctetsAre
  <1> QED
    BY <1>1, <1>2, EncodeEmpty, EncodeAppend

\* Every sequence that is not empty ends with an element.
LEMMA Ends ==
    ASSUME NEW S, NEW s \in Seq(S), NEW n \in Nat, Len(s) = n + 1
    PROVE  \E a \in Seq(S), x \in S : s = Append(a, x) /\ Len(a) = n
  <1> DEFINE a == SubSeq(s, 1, n)
             x == s[n + 1]
             b == Append(a, x)
  <1>1. a \in Seq(S) /\ Len(a) = n /\ \A i \in 1..n : a[i] = s[i]
    OBVIOUS
  <1>2. x \in S
    OBVIOUS
  <1> HIDE DEF a, x
  <1>3. b \in Seq(S) /\ Len(b) = n + 1 /\ b[n + 1] = x /\ \A i \in 1..n : b[i] = a[i]
    BY <1>1, <1>2
  <1>4. \A i \in 1..(n + 1) : b[i] = s[i]
    <2> TAKE i \in 1..(n + 1)
    <2>1. CASE i = n + 1
      BY <1>3, <2>1 DEF x
    <2>2. CASE i # n + 1
      <3>1. i \in 1..n
        BY <2>2
      <3> QED
        BY <1>1, <1>3, <3>1
    <2> QED
      BY <2>1, <2>2
  <1> HIDE DEF b
  <1>5. b = s
    BY <1>3, <1>4, SeqEqual
  <1> QED
    BY <1>1, <1>2, <1>5 DEF b

\* And begins with one.
LEMMA Begins ==
    ASSUME NEW S, NEW s \in Seq(S), NEW n \in Nat, Len(s) = n + 1
    PROVE  /\ s = <<s[1]>> \o Tail(s)
           /\ s[1] \in S /\ Tail(s) \in Seq(S) /\ Len(Tail(s)) = n
  <1> DEFINE a == Tail(s)
             x == s[1]
             b == <<x>> \o a
  <1>1. s # <<>>
    OBVIOUS
  <1>2. a \in Seq(S) /\ Len(a) = n /\ \A i \in 1..n : a[i] = s[i + 1]
    BY <1>1
  <1>3. x \in S
    OBVIOUS
  <1> HIDE DEF a, x
  <1>4. b \in Seq(S) /\ Len(b) = n + 1 /\ b[1] = x /\ \A i \in 2..(n + 1) : b[i] = a[i - 1]
    BY <1>2, <1>3
  <1>5. \A i \in 1..(n + 1) : b[i] = s[i]
    <2> TAKE i \in 1..(n + 1)
    <2>1. CASE i = 1
      BY <1>4, <2>1 DEF x
    <2>2. CASE i # 1
      <3>1. i \in 2..(n + 1) /\ i - 1 \in 1..n /\ (i - 1) + 1 = i
        BY <2>2
      <3> QED
        BY <1>2, <1>4, <3>1
    <2> QED
      BY <2>1, <2>2
  <1> HIDE DEF b
  <1>6. b = s
    BY <1>4, <1>5, SeqEqual
  <1> QED
    BY <1>2, <1>3, <1>6 DEF a, b, x

\* The number of the octets.
LEMMA EncodeLen ==
    ASSUME NEW a \in Seq(Message)
    PROVE  Encode(a) \in Seq(Octet) /\ Len(Encode(a)) = Len(a) * MsgLen
  <1> DEFINE T == {n \in Nat : \A c \in Seq(Message) :
                       Len(c) = n => Encode(c) \in Seq(Octet) /\ Len(Encode(c)) = n * MsgLen}
  <1>1. MsgLen \in Nat
    BY E2Assumption
  <1>2. 0 \in T
    <2>1. \A c \in Seq(Message) : Len(c) = 0 => c = <<>>
      OBVIOUS
    <2>2. <<>> \in Seq(Octet) /\ Len(<<>>) = 0 /\ 0 * MsgLen = 0
      BY <1>1
    <2> QED
      BY <2>1, <2>2, EncodeEmpty
  <1>3. ASSUME NEW n \in Nat, n \in T PROVE n + 1 \in T
    <2> SUFFICES ASSUME NEW c \in Seq(Message), Len(c) = n + 1
                 PROVE  Encode(c) \in Seq(Octet) /\ Len(Encode(c)) = (n + 1) * MsgLen
      OBVIOUS
    <2>1. PICK d \in Seq(Message), m \in Message : c = Append(d, m) /\ Len(d) = n
      BY Ends
    <2>2. Encode(d) \in Seq(Octet) /\ Len(Encode(d)) = n * MsgLen
      BY <1>3, <2>1
    <2>3. Octets(m) \in Seq(Octet) /\ Len(Octets(m)) = MsgLen
      BY OctetsAre
    <2>4. Encode(c) = Encode(d) \o Octets(m)
      BY <2>1, EncodeAppend
    <2>5. (n + 1) * MsgLen = n * MsgLen + MsgLen
      BY <1>1
    <2>6. Encode(c) \in Seq(Octet) /\ Len(Encode(c)) = Len(Encode(d)) + Len(Octets(m))
      <3>1. Encode(d) \in Seq(Octet) /\ Octets(m) \in Seq(Octet)
        BY <2>2, <2>3
      <3>2. \A x, y \in Seq(Octet) : x \o y \in Seq(Octet) /\ Len(x \o y) = Len(x) + Len(y)
        OBVIOUS
      <3> QED
        BY <2>4, <3>1, <3>2
    <2>7. Len(Encode(c)) = n * MsgLen + MsgLen
      BY <2>2, <2>3, <2>6
    <2> QED
      BY <2>5, <2>6, <2>7
  <1> HIDE DEF T
  <1>4. Len(a) \in T
    BY <1>2, <1>3, SetInduction
  <1> QED
    BY <1>4 DEF T

\* Three parts of the stream.
LEMMA OctetsAssociate == \A a, b, c \in Seq(Octet) : (a \o b) \o c = a \o (b \o c)
  BY ConcatAssociative

\* Two parts of the stream.
LEMMA OctetsTogether == \A a, b \in Seq(Octet) : a \o b \in Seq(Octet)
  BY ConcatProperties

\* The octets are put together when the messages are.
LEMMA EncodeConcat ==
    ASSUME NEW a \in Seq(Message), NEW b \in Seq(Message)
    PROVE  /\ Encode(a) \in Seq(Octet)
           /\ Encode(a \o b) = Encode(a) \o Encode(b)
  <1> DEFINE T == {n \in Nat : \A c \in Seq(Message) :
                       Len(c) = n => Encode(c) \in Seq(Octet) /\ Encode(a \o c) = Encode(a) \o Encode(c)}
  <1>1. Encode(a) \in Seq(Octet)
    BY EncodeLen
  <1>2. 0 \in T
    <2>1. \A c \in Seq(Message) : Len(c) = 0 => c = <<>>
      OBVIOUS
    <2>2. a \o <<>> = a /\ Encode(a) \o <<>> = Encode(a) /\ <<>> \in Seq(Octet)
      BY <1>1
    <2> QED
      BY <2>1, <2>2, EncodeEmpty
  <1>3. ASSUME NEW n \in Nat, n \in T PROVE n + 1 \in T
    <2> SUFFICES ASSUME NEW c \in Seq(Message), Len(c) = n + 1
                 PROVE  Encode(c) \in Seq(Octet) /\ Encode(a \o c) = Encode(a) \o Encode(c)
      OBVIOUS
    <2>1. PICK d \in Seq(Message), m \in Message : c = Append(d, m) /\ Len(d) = n
      BY Ends
    <2>2. Encode(d) \in Seq(Octet) /\ Encode(a \o d) = Encode(a) \o Encode(d)
      BY <1>3, <2>1
    <2>3. Octets(m) \in Seq(Octet)
      BY OctetsAre
    <2>4. Encode(c) = Encode(d) \o Octets(m)
      BY <2>1, EncodeAppend
    <2>5. a \o c = Append(a \o d, m) /\ a \o d \in Seq(Message)
      BY <2>1
    <2>6. Encode(a \o c) = (Encode(a) \o Encode(d)) \o Octets(m)
      BY <2>2, <2>5, EncodeAppend
    <2>7. (Encode(a) \o Encode(d)) \o Octets(m) = Encode(a) \o (Encode(d) \o Octets(m))
      BY <1>1, <2>2, <2>3, OctetsAssociate, Zenon
    <2> QED
      BY <2>2, <2>3, <2>4, <2>6, <2>7
  <1> HIDE DEF T
  <1>4. Len(b) \in T
    BY <1>2, <1>3, SetInduction
  <1> QED
    BY <1>1, <1>4 DEF T

----------------------------------------------------------------------------
(* Decoding                                                                *)

Rest(b) == SubSeq(b, MsgLen + 1, Len(b))

\* One pass of the decoder, and the decoder for buffers of up to n octets.
Pass(f, b) == IF Complete(b) THEN <<b[1].msg>> \o f[Rest(b)] ELSE <<>>
UpTo(n) == {b \in Seq(Octet) : Len(b) <= n}
Decodes(f, n) == f = [b \in UpTo(n) |-> Pass(f, b)]

\* A complete message makes the rest shorter.
LEMMA RestIsShorter ==
    ASSUME NEW b \in Seq(Octet), Complete(b)
    PROVE  Rest(b) \in Seq(Octet) /\ Len(Rest(b)) + 1 <= Len(b)
  <1>1. MsgLen \in Nat \ {0} /\ Len(b) \in Nat /\ Len(b) >= MsgLen
    BY E2Assumption DEF Complete
  <1>2. Rest(b) \in Seq(Octet) /\ Len(Rest(b)) = Len(b) - MsgLen
    BY <1>1 DEF Rest
  <1> QED
    BY <1>1, <1>2

\* There is a decoder for buffers of any size.
LEMMA DecodesExists == \A n \in Nat : \E f : Decodes(f, n)
  <1> DEFINE T == {n \in Nat : \E f : Decodes(f, n)}
  <1>1. 0 \in T
    <2> DEFINE f == [b \in UpTo(0) |-> <<>>]
    <2>1. \A b \in UpTo(0) : ~Complete(b)
      BY E2Assumption DEF UpTo, Complete
    <2>2. \A b \in UpTo(0) : Pass(f, b) = <<>>
      BY <2>1 DEF Pass
    <2>3. Decodes(f, 0)
      BY <2>2 DEF Decodes
    <2> QED
      BY <2>3
  <1>2. ASSUME NEW n \in Nat, n \in T PROVE n + 1 \in T
    <2>1. PICK f : Decodes(f, n)
      BY <1>2
    <2> DEFINE g == [b \in UpTo(n + 1) |-> Pass(f, b)]
    <2>2. ASSUME NEW b \in UpTo(n + 1) PROVE Pass(g, b) = Pass(f, b)
      <3>1. CASE Complete(b)
        <4>1. b \in Seq(Octet) /\ Len(b) <= n + 1 /\ Len(b) \in Nat
          BY DEF UpTo
        <4>2. Rest(b) \in Seq(Octet) /\ Len(Rest(b)) \in Nat /\ Len(Rest(b)) <= n /\ Len(Rest(b)) <= n + 1
          BY <3>1, <4>1, RestIsShorter
        <4>3. Rest(b) \in UpTo(n) /\ Rest(b) \in UpTo(n + 1)
          BY <4>2 DEF UpTo
        <4>4. g[Rest(b)] = Pass(f, Rest(b))
          BY <4>3
        <4>5. f[Rest(b)] = Pass(f, Rest(b))
          BY <2>1, <4>3 DEF Decodes
        <4> QED
          BY <4>4, <4>5 DEF Pass
      <3>2. CASE ~Complete(b)
        BY <3>2 DEF Pass
      <3> QED
        BY <3>1, <3>2
    <2>3. Decodes(g, n + 1)
      <3>1. \A b \in UpTo(n + 1) : Pass(g, b) = Pass(f, b)
        BY <2>2
      <3>2. [b \in UpTo(n + 1) |-> Pass(g, b)] = [b \in UpTo(n + 1) |-> Pass(f, b)]
        BY <3>1
      <3> QED
        BY <3>2 DEF Decodes
    <2> QED
      BY <2>3
  <1> HIDE DEF T
  <1>3. Nat \subseteq T
    BY <1>1, <1>2, SetInduction
  <1> QED
    BY <1>3 DEF T

\* Decoders agree on the buffers that both take.
LEMMA DecodesUnique ==
    ASSUME NEW n \in Nat, NEW m \in Nat, n <= m, NEW f, NEW g, Decodes(f, n), Decodes(g, m)
    PROVE  \A b \in UpTo(n) : f[b] = g[b]
  <1> DEFINE T == {k \in Nat : \A b \in UpTo(n) : Len(b) <= k => f[b] = g[b]}
  <1>1. \A b \in UpTo(n) : /\ b \in UpTo(m) /\ b \in Seq(Octet)
                           /\ f[b] = Pass(f, b) /\ g[b] = Pass(g, b)
    <2> TAKE b \in UpTo(n)
    <2>1. b \in Seq(Octet) /\ Len(b) \in Nat /\ Len(b) <= n
      BY DEF UpTo
    <2>2. b \in UpTo(m)
      BY <2>1 DEF UpTo
    <2> QED
      BY <2>1, <2>2 DEF Decodes
  <1>2. 0 \in T
    <2> SUFFICES ASSUME NEW b \in UpTo(n), Len(b) <= 0 PROVE f[b] = g[b]
      OBVIOUS
    <2>1. ~Complete(b)
      BY E2Assumption DEF UpTo, Complete
    <2> QED
      BY <1>1, <2>1 DEF Pass
  <1>3. ASSUME NEW k \in Nat, k \in T PROVE k + 1 \in T
    <2> SUFFICES ASSUME NEW b \in UpTo(n), Len(b) <= k + 1 PROVE f[b] = g[b]
      OBVIOUS
    <2>1. CASE Complete(b)
      <3>1. b \in Seq(Octet) /\ Len(b) <= n /\ Len(b) \in Nat
        BY DEF UpTo
      <3>2. Rest(b) \in Seq(Octet) /\ Len(Rest(b)) \in Nat /\ Len(Rest(b)) <= n /\ Len(Rest(b)) <= k
        BY <2>1, <3>1, RestIsShorter
      <3>3. Rest(b) \in UpTo(n)
        BY <3>2 DEF UpTo
      <3>4. f[Rest(b)] = g[Rest(b)]
        BY <1>3, <3>2, <3>3
      <3> QED
        BY <1>1, <3>4 DEF Pass
    <2>2. CASE ~Complete(b)
      BY <1>1, <2>2 DEF Pass
    <2> QED
      BY <2>1, <2>2
  <1> HIDE DEF T
  <1>4. n \in T
    BY <1>2, <1>3, SetInduction
  <1> QED
    BY <1>4 DEF T, UpTo

\* The recursion of RicControlMessage's decoder has a solution.
LEMMA DecodeUnfolds == \A b \in Seq(Octet) : Decode[b] = Pass(Decode, b)
  <1> DEFINE D(n) == CHOOSE f : Decodes(f, n)
             F == [b \in Seq(Octet) |-> D(Len(b))[b]]
  <1>1. \A n \in Nat : Decodes(D(n), n)
    BY DecodesExists
  <1> HIDE DEF D
  <1>2. ASSUME NEW b \in Seq(Octet) PROVE F[b] = Pass(F, b)
    <2>1. Len(b) \in Nat /\ b \in UpTo(Len(b)) /\ F[b] = D(Len(b))[b]
      BY DEF UpTo
    <2> DEFINE f == D(Len(b))
    <2>2. Decodes(f, Len(b))
      BY <1>1, <2>1
    <2>3. f[b] = Pass(f, b)
      BY <2>1, <2>2 DEF Decodes
    <2>4. CASE Complete(b)
      <3> DEFINE r == Rest(b)
                 g == D(Len(r))
      <3>1. r \in Seq(Octet) /\ Len(r) \in Nat /\ Len(r) <= Len(b)
        BY <2>1, <2>4, RestIsShorter
      <3>2. r \in UpTo(Len(r)) /\ Decodes(g, Len(r)) /\ F[r] = g[r]
        BY <1>1, <3>1 DEF UpTo
      <3> HIDE DEF r, g, f
      <3>3. g[r] = f[r]
        BY <2>1, <2>2, <3>1, <3>2, DecodesUnique
      <3>4. F[r] = f[r]
        BY <3>2, <3>3
      <3> HIDE DEF F
      <3> QED
        BY <2>1, <2>3, <3>4 DEF Pass, r, f
    <2>5. CASE ~Complete(b)
      BY <2>1, <2>3, <2>5 DEF Pass
    <2> QED
      BY <2>4, <2>5
  <1> DEFINE G(h) == [b \in Seq(Octet) |-> Pass(h, b)]
  <1>3. F = G(F)
    <2>1. \A b \in Seq(Octet) : F[b] = Pass(F, b)
      BY <1>2
    <2>2. F = [b \in Seq(Octet) |-> F[b]]
      OBVIOUS
    <2> HIDE DEF F
    <2> QED
      BY <2>1, <2>2
  <1> HIDE DEF F
  <1>4. Decode = CHOOSE h : h = G(h)
    BY DEF Decode, Pass, Rest
  <1>5. Decode = G(Decode)
    BY <1>3, <1>4
  <1> QED
    BY <1>5

\* Nothing is decoded from less than a message.
LEMMA DecodeShort ==
    ASSUME NEW b \in Seq(Octet), Len(b) < MsgLen
    PROVE  Decode[b] = <<>>
  <1>1. ~Complete(b)
    BY E2Assumption DEF Complete
  <1> QED
    BY <1>1, DecodeUnfolds DEF Pass

\* A message in front is decoded first.
LEMMA DecodeFirst ==
    ASSUME NEW m \in Message, NEW b \in Seq(Octet)
    PROVE  Decode[Octets(m) \o b] = <<m>> \o Decode[b]
  <1>1. PICK o : o = Octets(m)
    OBVIOUS
  <1>2. o \in Seq(Octet) /\ Len(o) = MsgLen /\ o[1].msg = m /\ MsgLen \in Nat \ {0}
    BY <1>1, OctetsAre, E2Assumption
  <1>3. PICK c : c = o \o b
    OBVIOUS
  <1>4. c \in Seq(Octet) /\ Len(c) = MsgLen + Len(b) /\ c[1] = o[1]
    <2>1. o \in Seq(Octet) /\ Len(o) = MsgLen /\ Len(o) \in Nat \ {0}
      BY <1>2
    <2>2. o \o b \in Seq(Octet) /\ Len(o \o b) = Len(o) + Len(b) /\ (o \o b)[1] = o[1]
      BY <2>1
    <2> QED
      BY <1>3, <2>1, <2>2
  <1>5. SubSeq(c, 1, MsgLen) = o
    BY <1>2, <1>3, SubSeqOfConcat1, SubSeqFull
  <1>6. Rest(c) = b
    <2>1. Rest(c) \in Seq(Octet) /\ Len(Rest(c)) = Len(b)
      BY <1>2, <1>4 DEF Rest
    <2>2. \A i \in 1..Len(b) : Rest(c)[i] = b[i]
      <3> TAKE i \in 1..Len(b)
      <3>1. Rest(c)[i] = c[MsgLen + i]
        BY <1>2, <1>4 DEF Rest
      <3>2. c[MsgLen + i] = b[i]
        BY <1>2, <1>3
      <3> QED
        BY <3>1, <3>2
    <2> QED
      BY <2>1, <2>2, SeqEqual
  <1>7. c[1].msg = m
    BY <1>2, <1>4
  <1>8. Complete(c)
    <2>1. Encode(<<c[1].msg>>) = o
      BY <1>1, <1>7, EncodeOne
    <2>2. Len(c) >= MsgLen
      BY <1>2, <1>4
    <2> QED
      BY <1>5, <2>1, <2>2 DEF Complete
  <1>9. Decode[c] = <<m>> \o Decode[b]
    BY <1>4, <1>6, <1>7, <1>8, DecodeUnfolds DEF Pass
  <1> QED
    BY <1>1, <1>3, <1>9

\* Whole messages and less than another one are decoded to the messages.
LEMMA DecodeEncode ==
    ASSUME NEW a \in Seq(Message), NEW r \in Seq(Octet), Len(r) < MsgLen
    PROVE  Decode[Encode(a) \o r] = a
  <1> DEFINE T == {n \in Nat : \A c \in Seq(Message) : Len(c) = n => Decode[Encode(c) \o r] = c}
  <1>1. 0 \in T
    <2>1. \A c \in Seq(Message) : Len(c) = 0 => c = <<>>
      OBVIOUS
    <2>2. <<>> \o r = r
      OBVIOUS
    <2>3. Decode[Encode(<<>>) \o r] = <<>>
      BY <2>2, EncodeEmpty, DecodeShort
    <2> QED
      BY <2>1, <2>3
  <1>2. ASSUME NEW n \in Nat, n \in T PROVE n + 1 \in T
    <2> SUFFICES ASSUME NEW c \in Seq(Message), Len(c) = n + 1
                 PROVE  Decode[Encode(c) \o r] = c
      OBVIOUS
    <2>8. c = <<c[1]>> \o Tail(c) /\ c[1] \in Message /\ Tail(c) \in Seq(Message) /\ Len(Tail(c)) = n
      BY Begins
    <2>9. PICK m \in Message : m = c[1]
      BY <2>8
    <2>10. PICK d \in Seq(Message) : d = Tail(c)
      BY <2>8
    <2>1. c = <<m>> \o d /\ Len(d) = n
      BY <2>8, <2>9, <2>10
    <2>2. Decode[Encode(d) \o r] = d
      BY <1>2, <2>1
    <2>3. <<m>> \in Seq(Message)
      OBVIOUS
    <2>4. Encode(c) = Octets(m) \o Encode(d)
      BY <2>1, <2>3, EncodeConcat, EncodeOne
    <2>5. Octets(m) \in Seq(Octet) /\ Encode(d) \in Seq(Octet)
      BY OctetsAre, EncodeLen
    <2>6. (Octets(m) \o Encode(d)) \o r = Octets(m) \o (Encode(d) \o r) /\ Encode(d) \o r \in Seq(Octet)
      <3>1. PICK x \in Seq(Octet), y \in Seq(Octet) : x = Octets(m) /\ y = Encode(d)
        BY <2>5, Zenon
      <3>2. (x \o y) \o r = x \o (y \o r) /\ y \o r \in Seq(Octet)
        BY OctetsTogether, OctetsAssociate, Zenon
      <3> QED
        BY <3>1, <3>2, Zenon
    <2>7. Decode[Octets(m) \o (Encode(d) \o r)] = <<m>> \o Decode[Encode(d) \o r]
      BY <2>6, DecodeFirst
    <2> QED
      BY <2>1, <2>2, <2>4, <2>6, <2>7
  <1> HIDE DEF T
  <1>3. Len(a) \in T
    BY <1>1, <1>2, SetInduction
  <1> QED
    BY <1>3 DEF T

\* The octets of messages are decoded to the messages.
LEMMA DecodeWhole ==
    ASSUME NEW a \in Seq(Message)
    PROVE  Decode[Encode(a)] = a
  <1>1. Encode(a) \in Seq(Octet) /\ <<>> \in Seq(Octet) /\ Len(<<>>) < MsgLen
    BY EncodeLen, E2Assumption
  <1>2. Encode(a) \o <<>> = Encode(a)
    BY <1>1
  <1> QED
    BY <1>1, <1>2, DecodeEncode

\* A sequence is put together from two parts of it.
LEMMA Halves ==
    ASSUME NEW S, NEW s \in Seq(S), NEW k \in 0..Len(s)
    PROVE  /\ SubSeq(s, 1, k) \in Seq(S) /\ Len(SubSeq(s, 1, k)) = k
           /\ SubSeq(s, k + 1, Len(s)) \in Seq(S)
           /\ s = SubSeq(s, 1, k) \o SubSeq(s, k + 1, Len(s))
  <1> DEFINE n == Len(s)
             a == SubSeq(s, 1, k)
             b == SubSeq(s, k + 1, n)
  <1>1. n \in Nat /\ k \in Nat /\ k <= n
    OBVIOUS
  <1>2. a \in Seq(S) /\ Len(a) = k /\ \A i \in 1..k : a[i] = s[i]
    BY <1>1
  <1>3. b \in Seq(S) /\ Len(b) = n - k /\ \A i \in 1..(n - k) : b[i] = s[k + i]
    BY <1>1
  <1> HIDE DEF a, b
  <1>4. a \o b \in Seq(S) /\ Len(a \o b) = n
    BY <1>1, <1>2, <1>3
  <1>5. \A i \in 1..n : (a \o b)[i] = s[i]
    <2> TAKE i \in 1..n
    <2>1. CASE i <= k
      BY <1>1, <1>2, <1>3, <2>1
    <2>2. CASE i > k
      <3>1. PICK j \in 1..(n - k) : j = i - k
        BY <1>1, <2>2
      <3>2. (a \o b)[i] = b[j]
        BY <1>1, <1>2, <1>3, <2>2, <3>1
      <3>3. b[j] = s[k + j]
        BY <1>3
      <3>4. k + j = i
        BY <1>1, <3>1
      <3> QED
        BY <3>2, <3>3, <3>4
    <2>3. i <= k \/ i > k
      BY <1>1
    <2> QED
      BY <2>1, <2>2, <2>3
  <1>6. a \o b = s
    BY <1>4, <1>5, SeqEqual
  <1> QED
    BY <1>2, <1>3, <1>6 DEF a, b

\* However the octets of messages are cut, the messages in the first part and
\* those in what Store keeps of it together with the second part are all of
\* them, in their order.
LEMMA Cut ==
    ASSUME NEW ms \in Seq(Message), NEW x \in Seq(Octet), NEW y \in Seq(Octet),
           x \o y = Encode(ms)
    PROVE  \E a, b \in Seq(Message) :
              /\ ms = a \o b /\ Decode[x] = a
              /\ Store(x) \in Seq(Octet) /\ Store(x) \o y = Encode(b)
  <1>1. MsgLen \in Nat \ {0} /\ Len(x) \in Nat /\ Len(y) \in Nat /\ Len(ms) \in Nat
    BY E2Assumption
  <1>2. PICK k \in Nat, q \in Nat : Len(x) = k * MsgLen + q /\ q < MsgLen
    BY <1>1, Division
  <1>3. Len(Encode(ms)) = Len(ms) * MsgLen
    BY EncodeLen
  <1>4. Len(x) + Len(y) = Len(ms) * MsgLen
    BY <1>3
  <1>5. k * MsgLen \in Nat /\ Len(ms) * MsgLen \in Nat /\ k * MsgLen <= Len(x)
    BY <1>1, <1>2
  <1>6. k <= Len(ms)
    <2>1. k * MsgLen <= Len(ms) * MsgLen
      BY <1>1, <1>4, <1>5
    <2> QED
      BY <1>1, <2>1, ProductOrder
  <1>7. PICK a, b \in Seq(Message) : ms = a \o b /\ Len(a) = k
    <2>1. k \in 0..Len(ms)
      BY <1>1, <1>6
    <2>2. /\ SubSeq(ms, 1, k) \in Seq(Message) /\ Len(SubSeq(ms, 1, k)) = k
          /\ SubSeq(ms, k + 1, Len(ms)) \in Seq(Message)
          /\ ms = SubSeq(ms, 1, k) \o SubSeq(ms, k + 1, Len(ms))
      BY <2>1, Halves
    <2> QED
      BY <2>2, Zenon
  <1>8. Encode(a) \in Seq(Octet) /\ Encode(b) \in Seq(Octet) /\ Len(Encode(a)) = k * MsgLen
    BY <1>7, EncodeLen
  <1>9. x \o y = Encode(a) \o Encode(b)
    BY <1>7, EncodeConcat
  <1>10. PICK p : p = k * MsgLen
    OBVIOUS
  <1>11. p \in Nat /\ p <= Len(x) /\ Len(x) = p + q
    BY <1>2, <1>5, <1>10
  <1> DEFINE h == SubSeq(x, 1, p)
             r == SubSeq(x, p + 1, Len(x))
  <1>12. h \in Seq(Octet) /\ r \in Seq(Octet) /\ Len(h) = p /\ Len(r) = q
    BY <1>11
  <1>13. x = h \o r
    <2>1. p \in 0..Len(x)
      BY <1>11
    <2> QED
      BY <2>1, Halves
  <1> HIDE DEF h, r
  <1>14. h \o (r \o y) = Encode(a) \o Encode(b)
    <2>1. (h \o r) \o y = h \o (r \o y)
      <3>1. h \in Seq(Octet) /\ r \in Seq(Octet)
        BY <1>12
      <3> QED
        BY <3>1, OctetsAssociate
    <2> QED
      BY <1>9, <1>13, <2>1
  <1>15. h = Encode(a) /\ r \o y = Encode(b)
    <2>1. r \o y \in Seq(Octet)
      BY <1>12
    <2>2. Len(h) = Len(Encode(a))
      BY <1>8, <1>10, <1>12
    <2> QED
      BY <1>8, <1>12, <1>14, <2>1, <2>2, ConcatCancel
  <1>16. Decode[x] = a
    <2>1. Len(r) < MsgLen
      BY <1>2, <1>12
    <2> QED
      BY <1>12, <1>13, <1>15, <2>1, DecodeEncode
  <1>17. Store(x) = r
    <2>1. MsgLen * Len(Decode[x]) = p
      <3>1. Len(Decode[x]) = k
        BY <1>7, <1>16
      <3>2. MsgLen * k = k * MsgLen
        BY <1>1
      <3> QED
        BY <1>10, <3>1, <3>2
    <2> QED
      BY <2>1 DEF Store, r
  <1> QED
    BY <1>7, <1>12, <1>15, <1>16, <1>17

----------------------------------------------------------------------------
(* The inductive invariant: the stream                                     *)

\* The messages that are still on their way, partly in m_xappRemainingData.
Pend == Decode[remaining \o stream]

Framed ==
    /\ round \in 0..Rounds
    /\ remaining \in Seq(Octet) /\ stream \in Seq(Octet)
    /\ decoded \in Seq(Message) /\ Pend \in Seq(Message)
    /\ remaining \o stream = Encode(Pend)

\* The messages for this simulation are in the order in which the xApp sent them.
OwnTo(ms, n) == {j \in 1..n : ms[j].plmn = Own}

Ranked(ms, r) ==
    /\ Cardinality(OwnTo(ms, Len(ms))) = r * Len(Answer)
    /\ \A i \in OwnTo(ms, Len(ms)) :
          Cardinality(OwnTo(ms, i)) = (ms[i].round - 1) * Len(Answer) + ms[i].part

InOrder == Ranked(decoded \o Pend, round)

\* What a report asks for.
LEMMA AnswersAre ==
    ASSUME NEW r \in 0..Rounds
    PROVE  /\ Answers(r) \in Seq(Message) /\ Len(Answers(r)) = Len(Answer)
           /\ Len(Answer) \in Nat \ {0}
           /\ \A i \in 1..Len(Answer) :
                 Answers(r)[i] = [plmn |-> Own, round |-> r, part |-> i]
  <1>1. Answer \in Seq(Seq(Nat)) /\ Answer # <<>>
    BY E2Assumption
  <1>2. DOMAIN Answer = 1..Len(Answer) /\ Len(Answer) \in Nat \ {0}
    BY <1>1
  <1>3. \A i \in 1..Len(Answer) : [plmn |-> Own, round |-> r, part |-> i] \in Message
    BY DEF Message
  <1>4. Answers(r) = [i \in 1..Len(Answer) |-> [plmn |-> Own, round |-> r, part |-> i]]
    BY <1>2 DEF Answers
  <1>5. Answers(r) \in [1..Len(Answer) -> Message]
    BY <1>3, <1>4
  <1> QED
    BY <1>2, <1>4, <1>5

\* A message for another simulation.
OtherMessage == [plmn |-> Other, round |-> 0, part |-> 1]

\* It is a message.
LEMMA OtherIs == OtherMessage \in Message /\ <<OtherMessage>> \in Seq(Message)
  <1>1. 1 \in 1..Len(Answer) /\ 0 \in 0..Rounds
    BY E2Assumption
  <1>2. OtherMessage \in Message
    BY <1>1 DEF OtherMessage, Message
  <1> QED
    BY <1>2

\* The RIC sends more.
LEMMA MoreSent ==
    ASSUME NEW rem \in Seq(Octet), NEW str \in Seq(Octet), NEW ms \in Seq(Message),
           rem \o str = Encode(ms), NEW more \in Seq(Message)
    PROVE  /\ str \o Encode(more) \in Seq(Octet)
           /\ rem \o (str \o Encode(more)) = Encode(ms \o more)
           /\ Decode[rem \o (str \o Encode(more))] = ms \o more
           /\ ms \o more \in Seq(Message)
  <1>1. Encode(more) \in Seq(Octet) /\ Encode(ms) \in Seq(Octet)
    BY EncodeLen
  <1>2. (rem \o str) \o Encode(more) = rem \o (str \o Encode(more))
    BY <1>1, OctetsAssociate
  <1>3. Encode(ms \o more) = Encode(ms) \o Encode(more)
    BY EncodeConcat
  <1>4. ms \o more \in Seq(Message) /\ str \o Encode(more) \in Seq(Octet)
    BY <1>1
  <1>5. rem \o (str \o Encode(more)) = Encode(ms \o more)
    BY <1>2, <1>3
  <1> QED
    BY <1>4, <1>5, DecodeWhole

\* Initially nothing is on its way.
LEMMA FramedInit == Init => Framed /\ InOrder /\ Pend = <<>>
  <1> SUFFICES ASSUME Init PROVE Framed /\ InOrder /\ Pend = <<>>
    OBVIOUS
  <1>1. <<>> \in Seq(Message) /\ <<>> \in Seq(Octet) /\ <<>> \o <<>> = <<>> /\ Len(<<>>) = 0
    OBVIOUS
  <1>2. remaining = <<>> /\ stream = <<>> /\ decoded = <<>> /\ round = 0
    BY DEF Init
  <1>3. Pend = <<>>
    BY <1>1, <1>2, EncodeEmpty, DecodeWhole DEF Pend
  <1>4. Framed
    BY <1>1, <1>2, <1>3, EncodeEmpty, E2Assumption DEF Framed
  <1>5. InOrder
    <2>1. OwnTo(<<>>, 0) = {}
      BY DEF OwnTo
    <2>2. Cardinality({}) = 0 /\ 0 * Len(Answer) = 0
      BY FS_EmptySet, E2Assumption
    <2>3. decoded \o Pend = <<>>
      BY <1>1, <1>2, <1>3
    <2> QED
      BY <1>1, <1>2, <2>1, <2>2, <2>3 DEF InOrder, Ranked
  <1> QED
    BY <1>3, <1>4, <1>5

\* A report.
LEMMA FramedReport ==
    ASSUME Framed, Report
    PROVE  Framed' /\ Pend' = Pend \o Answers(round + 1) /\ round' = round + 1 /\ decoded' = decoded
  <1>1. /\ round' = round + 1 /\ stream' = stream \o Encode(Answers(round + 1))
        /\ remaining' = remaining /\ decoded' = decoded /\ round < Rounds
    BY DEF Report
  <1>2. round + 1 \in 0..Rounds
    BY <1>1, E2Assumption DEF Framed
  <1>3. Answers(round + 1) \in Seq(Message)
    BY <1>2, AnswersAre
  <1>4. /\ stream' \in Seq(Octet) /\ remaining' \o stream' = Encode(Pend \o Answers(round + 1))
        /\ Decode[remaining' \o stream'] = Pend \o Answers(round + 1)
        /\ Pend \o Answers(round + 1) \in Seq(Message)
    <2>1. /\ remaining \in Seq(Octet) /\ stream \in Seq(Octet) /\ Pend \in Seq(Message)
          /\ remaining \o stream = Encode(Pend)
      BY DEF Framed
    <2>2. /\ stream \o Encode(Answers(round + 1)) \in Seq(Octet)
          /\ remaining \o (stream \o Encode(Answers(round + 1))) = Encode(Pend \o Answers(round + 1))
          /\ Decode[remaining \o (stream \o Encode(Answers(round + 1)))] = Pend \o Answers(round + 1)
          /\ Pend \o Answers(round + 1) \in Seq(Message)
      BY <1>3, <2>1, MoreSent, Zenon
    <2> QED
      BY <1>1, <2>2, Zenon
  <1>5. Pend' = Pend \o Answers(round + 1)
    BY <1>4 DEF Pend
  <1> QED
    BY <1>1, <1>2, <1>4, <1>5 DEF Framed

\* A message for another simulation.
LEMMA FramedOther ==
    ASSUME Framed, OtherPlmn
    PROVE  Framed' /\ Pend' = Pend \o <<OtherMessage>> /\ round' = round /\ decoded' = decoded
  <1>1. /\ round' = round /\ stream' = stream \o Encode(<<OtherMessage>>)
        /\ remaining' = remaining /\ decoded' = decoded
    BY DEF OtherPlmn, OtherMessage
  <1>2. /\ stream' \in Seq(Octet) /\ remaining' \o stream' = Encode(Pend \o <<OtherMessage>>)
        /\ Decode[remaining' \o stream'] = Pend \o <<OtherMessage>>
        /\ Pend \o <<OtherMessage>> \in Seq(Message)
    <2>1. /\ remaining \in Seq(Octet) /\ stream \in Seq(Octet) /\ Pend \in Seq(Message)
          /\ remaining \o stream = Encode(Pend)
      BY DEF Framed
    <2>2. /\ stream \o Encode(<<OtherMessage>>) \in Seq(Octet)
          /\ remaining \o (stream \o Encode(<<OtherMessage>>)) = Encode(Pend \o <<OtherMessage>>)
          /\ Decode[remaining \o (stream \o Encode(<<OtherMessage>>))] = Pend \o <<OtherMessage>>
          /\ Pend \o <<OtherMessage>> \in Seq(Message)
      BY <2>1, OtherIs, MoreSent, Zenon
    <2> QED
      BY <1>1, <2>2, Zenon
  <1>3. Pend' = Pend \o <<OtherMessage>>
    BY <1>2 DEF Pend
  <1> QED
    BY <1>1, <1>2, <1>3 DEF Framed

\* A PDU.
LEMMA FramedReceive ==
    ASSUME Framed, NEW n \in 1..Len(stream), Receive(n)
    PROVE  /\ Framed'
           /\ \E msgs \in Seq(Message) :
                 /\ Pend = msgs \o Pend' /\ decoded' = decoded \o msgs
                 /\ out = <<>> /\ out' = ControlMessageReceivedCallback(msgs)
                 /\ apart' = (apart /\ Len(msgs) <= 1)
           /\ round' = round
  <1>1. PICK x : x = remaining \o SubSeq(stream, 1, n)
    OBVIOUS
  <1>2. PICK y : y = SubSeq(stream, n + 1, Len(stream))
    OBVIOUS
  <1>3. /\ out = <<>> /\ stream' = y /\ remaining' = Store(x)
        /\ out' = ControlMessageReceivedCallback(Decode[x])
        /\ decoded' = decoded \o Decode[x]
        /\ apart' = (apart /\ Len(Decode[x]) <= 1)
        /\ round' = round
    BY <1>1, <1>2 DEF Receive
  <1>4. stream \in Seq(Octet) /\ remaining \in Seq(Octet) /\ Pend \in Seq(Message) /\ n \in 0..Len(stream)
    BY DEF Framed
  <1>5. /\ SubSeq(stream, 1, n) \in Seq(Octet) /\ y \in Seq(Octet)
        /\ stream = SubSeq(stream, 1, n) \o y
    BY <1>2, <1>4, Halves
  <1>6. x \in Seq(Octet)
    BY <1>1, <1>4, <1>5
  <1>7. x \o y = Encode(Pend)
    <2>1. x \o y = remaining \o (SubSeq(stream, 1, n) \o y)
      BY <1>1, <1>4, <1>5, OctetsAssociate
    <2> QED
      BY <1>5, <2>1 DEF Framed
  <1>8. PICK a, b \in Seq(Message) :
              /\ Pend = a \o b /\ Decode[x] = a
              /\ Store(x) \in Seq(Octet) /\ Store(x) \o y = Encode(b)
    <2>1. y \in Seq(Octet)
      BY <1>5
    <2> QED
      <3>1. Pend \in Seq(Message)
        BY <1>4
      <3> QED
        BY <1>6, <1>7, <2>1, <3>1, Cut, Zenon
  <1>9. Pend' = b
    <2>1. Decode[remaining' \o stream'] = b
      BY <1>3, <1>8, DecodeWhole
    <2> QED
      BY <2>1 DEF Pend
  <1>10. Framed'
    <2>1. decoded' \in Seq(Message)
      BY <1>3, <1>8 DEF Framed
    <2>2. remaining' \in Seq(Octet) /\ stream' \in Seq(Octet) /\ remaining' \o stream' = Encode(b)
      BY <1>3, <1>5, <1>8
    <2> QED
      BY <1>3, <1>8, <1>9, <2>1, <2>2 DEF Framed
  <1> QED
    BY <1>3, <1>8, <1>9, <1>10

\* Every other step leaves the stream alone.
LEMMA FramedSame ==
    ASSUME Framed, UNCHANGED <<round, remaining, stream, decoded>>
    PROVE  Framed' /\ Pend' = Pend
  BY DEF Framed, Pend

----------------------------------------------------------------------------
(* The order of the messages                                               *)

\* Counting one message more.
LEMMA OwnToNext ==
    ASSUME NEW ms, NEW n \in Nat
    PROVE  /\ IsFiniteSet(OwnTo(ms, n)) /\ Cardinality(OwnTo(ms, n)) \in Nat
           /\ ms[n + 1].plmn = Own =>
                 Cardinality(OwnTo(ms, n + 1)) = Cardinality(OwnTo(ms, n)) + 1
           /\ ms[n + 1].plmn # Own => OwnTo(ms, n + 1) = OwnTo(ms, n)
  <1>1. IsFiniteSet(1..n)
    BY FS_Interval
  <1>2. OwnTo(ms, n) \subseteq 1..n
    BY DEF OwnTo
  <1>3. IsFiniteSet(OwnTo(ms, n)) /\ Cardinality(OwnTo(ms, n)) \in Nat
    BY <1>1, <1>2, FS_Subset, FS_CardinalityType
  <1>4. 1..(n + 1) = (1..n) \cup {n + 1} /\ n + 1 \notin 1..n
    OBVIOUS
  <1>5. ASSUME ms[n + 1].plmn = Own
        PROVE  Cardinality(OwnTo(ms, n + 1)) = Cardinality(OwnTo(ms, n)) + 1
    <2>1. OwnTo(ms, n + 1) = OwnTo(ms, n) \cup {n + 1} /\ n + 1 \notin OwnTo(ms, n)
      BY <1>4, <1>5 DEF OwnTo
    <2> QED
      BY <1>3, <2>1, FS_AddElement
  <1>6. ASSUME ms[n + 1].plmn # Own PROVE OwnTo(ms, n + 1) = OwnTo(ms, n)
    BY <1>4, <1>6 DEF OwnTo
  <1> QED
    BY <1>3, <1>5, <1>6

\* What comes later does not count.
LEMMA OwnToPrefix ==
    ASSUME NEW ms \in Seq(Message), NEW more \in Seq(Message), NEW n \in 0..Len(ms)
    PROVE  OwnTo(ms \o more, n) = OwnTo(ms, n)
  <1>1. \A j \in 1..n : (ms \o more)[j] = ms[j]
    OBVIOUS
  <1> QED
    BY <1>1 DEF OwnTo

\* A message for another simulation does not count.
LEMMA RankedOther ==
    ASSUME NEW ms \in Seq(Message), NEW r, Ranked(ms, r)
    PROVE  Ranked(ms \o <<OtherMessage>>, r)
  <1>1. PICK c : c = ms \o <<OtherMessage>>
    OBVIOUS
  <1>2. PICK n \in Nat : n = Len(ms)
    OBVIOUS
  <1>3. Len(c) = n + 1 /\ c[n + 1] = OtherMessage /\ \A j \in 1..n : c[j] = ms[j]
    BY <1>1, <1>2, OtherIs
  <1>4. c[n + 1].plmn # Own
    BY <1>3 DEF OtherMessage, Own, Other
  <1>5. \A i \in 0..n : OwnTo(c, i) = OwnTo(ms, i)
    BY <1>1, <1>2, OtherIs, OwnToPrefix
  <1>6. OwnTo(c, n + 1) = OwnTo(ms, n)
    BY <1>4, <1>5, OwnToNext
  <1>7. \A i \in OwnTo(ms, n) : i \in 1..n /\ i \in 0..n
    BY DEF OwnTo
  <1>8. Ranked(c, r)
    <2>1. Cardinality(OwnTo(c, Len(c))) = r * Len(Answer)
      BY <1>2, <1>3, <1>6 DEF Ranked
    <2>2. ASSUME NEW i \in OwnTo(c, Len(c))
          PROVE  Cardinality(OwnTo(c, i)) = (c[i].round - 1) * Len(Answer) + c[i].part
      <3>1. i \in OwnTo(ms, n)
        BY <1>3, <1>6
      <3>2. Cardinality(OwnTo(ms, i)) = (ms[i].round - 1) * Len(Answer) + ms[i].part
        BY <1>2, <3>1 DEF Ranked
      <3>3. c[i] = ms[i] /\ OwnTo(c, i) = OwnTo(ms, i)
        BY <1>3, <1>5, <1>7, <3>1
      <3> QED
        BY <3>2, <3>3
    <2> QED
      BY <2>1, <2>2 DEF Ranked
  <1> QED
    BY <1>1, <1>8

\* The answer to a report continues the count.
LEMMA RankedAnswers ==
    ASSUME NEW ms \in Seq(Message), NEW r \in Nat, r + 1 \in 0..Rounds, Ranked(ms, r)
    PROVE  Ranked(ms \o Answers(r + 1), r + 1)
  <1>1. PICK c : c = ms \o Answers(r + 1)
    OBVIOUS
  <1>2. PICK n \in Nat : n = Len(ms)
    OBVIOUS
  <1>3. PICK l \in Nat \ {0} : l = Len(Answer)
    BY E2Assumption
  <1>4. PICK a \in Seq(Message) : a = Answers(r + 1)
    BY AnswersAre
  <1>5. Len(a) = l /\ \A k \in 1..l : a[k] = [plmn |-> Own, round |-> r + 1, part |-> k]
    BY <1>3, <1>4, AnswersAre
  <1>6. c = ms \o a
    BY <1>1, <1>4
  <1>7. Len(c) = n + l /\ (\A j \in 1..n : c[j] = ms[j]) /\ \A k \in 1..l : c[n + k] = a[k]
    <2>1. Len(a) = l /\ Len(ms) = n
      BY <1>2, <1>5
    <2>5. Len(ms \o a) = Len(ms) + Len(a)
      OBVIOUS
    <2>2. Len(c) = n + l
      BY <1>6, <2>1, <2>5
    <2>3. \A j \in 1..n : c[j] = ms[j]
      BY <1>6, <2>1
    <2>4. \A k \in 1..l : c[n + k] = a[k]
      BY <1>6, <2>1
    <2> QED
      BY <2>2, <2>3, <2>4
  <1>8. \A i \in 0..n : OwnTo(c, i) = OwnTo(ms, i)
    BY <1>2, <1>6, OwnToPrefix
  <1>9. PICK p \in Nat : p = r * l
    OBVIOUS
  <1>10. Cardinality(OwnTo(ms, n)) = p
    BY <1>2, <1>3, <1>9 DEF Ranked
  <1> DEFINE T == {k \in Nat : k <= l => Cardinality(OwnTo(c, n + k)) = p + k}
  <1>11. 0 \in T
    <2>1. n + 0 = n /\ n \in 0..n /\ p + 0 = p
      OBVIOUS
    <2>2. Cardinality(OwnTo(c, n + 0)) = p + 0
      BY <1>8, <1>10, <2>1
    <2> QED
      BY <2>2
  <1>12. ASSUME NEW k \in Nat, k \in T PROVE k + 1 \in T
    <2> SUFFICES ASSUME k + 1 <= l PROVE Cardinality(OwnTo(c, n + (k + 1))) = p + (k + 1)
      OBVIOUS
    <2>1. PICK h \in Nat : h = n + k
      OBVIOUS
    <2>2. n + (k + 1) = h + 1 /\ k + 1 \in 1..l /\ k <= l
      BY <2>1
    <2>3. c[h + 1].plmn = Own
      <3>1. c[n + (k + 1)] = a[k + 1]
        BY <1>7, <2>2
      <3>2. a[k + 1].plmn = Own
        BY <1>5, <2>2
      <3> QED
        BY <2>2, <3>1, <3>2
    <2>4. Cardinality(OwnTo(c, h)) = p + k
      BY <1>12, <2>1, <2>2
    <2>5. Cardinality(OwnTo(c, h + 1)) = Cardinality(OwnTo(c, h)) + 1
      BY <2>3, OwnToNext
    <2> QED
      BY <2>2, <2>4, <2>5
  <1> HIDE DEF T
  <1>13. \A k \in 0..l : Cardinality(OwnTo(c, n + k)) = p + k
    <2>1. Nat \subseteq T
      BY <1>11, <1>12, SetInduction
    <2> QED
      BY <2>1 DEF T
  <1>14. Cardinality(OwnTo(c, Len(c))) = (r + 1) * Len(Answer)
    <2>1. (r + 1) * l = r * l + l
      OBVIOUS
    <2>2. l \in 0..l
      OBVIOUS
    <2>3. Cardinality(OwnTo(c, n + l)) = p + l
      BY <1>13, <2>2
    <2> QED
      BY <1>3, <1>7, <1>9, <2>1, <2>3
  <1>15. ASSUME NEW i \in OwnTo(c, Len(c))
         PROVE  Cardinality(OwnTo(c, i)) = (c[i].round - 1) * Len(Answer) + c[i].part
    <2>1. i \in 1..(n + l) /\ c[i].plmn = Own
      BY <1>7 DEF OwnTo
    <2>2. CASE i <= n
      <3>1. i \in 1..n /\ i \in 0..n
        BY <2>1, <2>2
      <3>2. c[i] = ms[i] /\ OwnTo(c, i) = OwnTo(ms, i)
        BY <1>7, <1>8, <3>1
      <3>3. i \in OwnTo(ms, Len(ms))
        BY <1>2, <2>1, <3>1, <3>2 DEF OwnTo
      <3>4. Cardinality(OwnTo(ms, i)) = (ms[i].round - 1) * Len(Answer) + ms[i].part
        BY <3>3 DEF Ranked
      <3> QED
        BY <3>2, <3>4
    <2>3. CASE i > n
      <3>1. PICK k \in 1..l : i = n + k
        <4>1. i - n \in 1..l /\ i = n + (i - n)
          BY <2>1, <2>3
        <4> QED
          BY <4>1
      <3>2. Cardinality(OwnTo(c, i)) = p + k
        BY <1>13, <3>1
      <3>3. c[i] = [plmn |-> Own, round |-> r + 1, part |-> k]
        BY <1>5, <1>7, <3>1
      <3>4. c[i].round - 1 = r /\ c[i].part = k
        BY <3>3
      <3>5. (c[i].round - 1) * Len(Answer) = p
        BY <1>3, <1>9, <3>4
      <3> QED
        BY <3>2, <3>4, <3>5
    <2>4. i <= n \/ i > n
      BY <2>1
    <2> QED
      BY <2>2, <2>3, <2>4
  <1>16. Ranked(c, r + 1)
    BY <1>14, <1>15 DEF Ranked
  <1> QED
    BY <1>1, <1>16

----------------------------------------------------------------------------
(* Queues                                                                  *)

\* Every element is in X, some element is, and after an element of Z there are
\* only elements of X.
Every(s, X) == \A i \in DOMAIN s : s[i] \in X
Some(s, X) == \E i \in DOMAIN s : s[i] \in X
Final(s, X, Z) == \A i, j \in DOMAIN s : i < j /\ s[i] \in Z => s[j] \in X

\* Where the elements of two queues are when one follows the other.
LEMMA ConcatElements ==
    ASSUME NEW S, NEW a \in Seq(S), NEW b \in Seq(S)
    PROVE  /\ \A i \in DOMAIN a : i \in DOMAIN (a \o b) /\ (a \o b)[i] = a[i] /\ i <= Len(a) /\ i \in Nat
           /\ \A i \in DOMAIN b : /\ Len(a) + i \in DOMAIN (a \o b) /\ (a \o b)[Len(a) + i] = b[i]
                                  /\ Len(a) < Len(a) + i /\ i \in Nat /\ Len(a) \in Nat
           /\ \A i \in DOMAIN (a \o b) :
                 \/ i \in DOMAIN a /\ (a \o b)[i] = a[i]
                 \/ \E k \in DOMAIN b : i = Len(a) + k /\ (a \o b)[i] = b[k]
  <1>1. DOMAIN a = 1..Len(a) /\ DOMAIN b = 1..Len(b) /\ Len(a) \in Nat /\ Len(b) \in Nat
    OBVIOUS
  <1>2. DOMAIN (a \o b) = 1..(Len(a) + Len(b))
    OBVIOUS
  <1>3. \A i \in 1..Len(a) : (a \o b)[i] = a[i]
    OBVIOUS
  <1>4. \A i \in 1..Len(b) : (a \o b)[Len(a) + i] = b[i]
    OBVIOUS
  <1>5. ASSUME NEW i \in DOMAIN (a \o b), i \notin DOMAIN a
        PROVE  \E k \in DOMAIN b : i = Len(a) + k /\ (a \o b)[i] = b[k]
    <2>1. i - Len(a) \in 1..Len(b) /\ i = Len(a) + (i - Len(a))
      BY <1>1, <1>2, <1>5
    <2>2. PICK k \in 1..Len(b) : i = Len(a) + k
      BY <2>1
    <2> QED
      BY <1>1, <1>4, <2>2
  <1> QED
    BY <1>1, <1>2, <1>3, <1>4, <1>5

\* What holds for two queues when one follows the other.
LEMMA ConcatParts ==
    ASSUME NEW S, NEW a \in Seq(S), NEW b \in Seq(S)
    PROVE  /\ a \o b \in Seq(S)
           /\ \A X : Every(a \o b, X) <=> Every(a, X) /\ Every(b, X)
           /\ \A X : Some(a \o b, X) <=> Some(a, X) \/ Some(b, X)
           /\ \A X, Z : Final(a \o b, X, Z) <=> /\ Final(a, X, Z) /\ Final(b, X, Z)
                                                /\ Some(a, Z) => Every(b, X)
  <1>1. PICK c : c = a \o b
    OBVIOUS
  <1>2. PICK n : n = Len(a)
    OBVIOUS
  <1>3. \A i \in DOMAIN a : i \in DOMAIN c /\ c[i] = a[i] /\ i <= n /\ i \in Nat
    BY <1>1, <1>2, ConcatElements
  <1>4. \A i \in DOMAIN b : n + i \in DOMAIN c /\ c[n + i] = b[i] /\ n < n + i /\ i \in Nat /\ n \in Nat
    BY <1>1, <1>2, ConcatElements
  <1>5. \A i \in DOMAIN c : \/ i \in DOMAIN a /\ c[i] = a[i]
                            \/ \E k \in DOMAIN b : i = n + k /\ c[i] = b[k]
    BY <1>1, <1>2, ConcatElements
  <1>6. \A X : Every(c, X) <=> Every(a, X) /\ Every(b, X)
    <2> TAKE X
    <2>1. Every(c, X) => Every(a, X) /\ Every(b, X)
      BY <1>3, <1>4 DEF Every
    <2>2. Every(a, X) /\ Every(b, X) => Every(c, X)
      BY <1>5 DEF Every
    <2> QED
      BY <2>1, <2>2
  <1>7. \A X : Some(c, X) <=> Some(a, X) \/ Some(b, X)
    <2> TAKE X
    <2>1. Some(c, X) => Some(a, X) \/ Some(b, X)
      BY <1>5 DEF Some
    <2>2. Some(a, X) => Some(c, X)
      BY <1>3 DEF Some
    <2>3. Some(b, X) => Some(c, X)
      BY <1>4 DEF Some
    <2> QED
      BY <2>1, <2>2, <2>3
  <1>8. ASSUME NEW X, NEW Z, Final(c, X, Z)
        PROVE  Final(a, X, Z) /\ Final(b, X, Z) /\ (Some(a, Z) => Every(b, X))
    <2>1. Final(a, X, Z)
      BY <1>3, <1>8 DEF Final
    <2>2. Final(b, X, Z)
      <3> SUFFICES ASSUME NEW i \in DOMAIN b, NEW j \in DOMAIN b, i < j, b[i] \in Z PROVE b[j] \in X
        BY DEF Final
      <3>1. n + i \in DOMAIN c /\ n + j \in DOMAIN c /\ n + i < n + j /\ c[n + i] = b[i] /\ c[n + j] = b[j]
        BY <1>4
      <3> QED
        BY <1>8, <3>1 DEF Final
    <2>3. Some(a, Z) => Every(b, X)
      <3> SUFFICES ASSUME NEW i \in DOMAIN a, a[i] \in Z, NEW j \in DOMAIN b PROVE b[j] \in X
        BY DEF Some, Every
      <3>1. i \in DOMAIN c /\ n + j \in DOMAIN c /\ c[i] = a[i] /\ c[n + j] = b[j]
        BY <1>3, <1>4
      <3>2. i < n + j
        <4>1. i \in Nat /\ j \in Nat /\ n \in Nat /\ i <= n /\ n < n + j
          BY <1>3, <1>4
        <4> QED
          BY <4>1
      <3> QED
        BY <1>8, <3>1, <3>2 DEF Final
    <2> QED
      BY <2>1, <2>2, <2>3
  <1>9. ASSUME NEW X, NEW Z, Final(a, X, Z), Final(b, X, Z), Some(a, Z) => Every(b, X)
        PROVE  Final(c, X, Z)
    <2> SUFFICES ASSUME NEW i \in DOMAIN c, NEW j \in DOMAIN c, i < j, c[i] \in Z PROVE c[j] \in X
      BY DEF Final
    <2>1. CASE i \in DOMAIN a /\ c[i] = a[i]
      <3>1. CASE j \in DOMAIN a /\ c[j] = a[j]
        BY <1>9, <2>1, <3>1 DEF Final
      <3>2. CASE \E k \in DOMAIN b : j = n + k /\ c[j] = b[k]
        BY <1>9, <2>1, <3>2 DEF Some, Every
      <3> QED
        BY <1>5, <3>1, <3>2
    <2>2. CASE \E k \in DOMAIN b : i = n + k /\ c[i] = b[k]
      <3>1. PICK k \in DOMAIN b : i = n + k /\ c[i] = b[k]
        BY <2>2
      <3>2. CASE j \in DOMAIN a /\ c[j] = a[j]
        <4>1. j \in Nat /\ n \in Nat /\ k \in Nat /\ j <= n /\ n < n + k
          BY <1>3, <1>4, <3>2
        <4> QED
          BY <3>1, <4>1
      <3>3. CASE \E h \in DOMAIN b : j = n + h /\ c[j] = b[h]
        <4>1. PICK h \in DOMAIN b : j = n + h /\ c[j] = b[h]
          BY <3>3
        <4>2. k \in Nat /\ h \in Nat /\ n \in Nat
          BY <1>4
        <4>3. k < h
          BY <3>1, <4>1, <4>2
        <4> QED
          BY <1>9, <3>1, <4>1, <4>3 DEF Final
      <3> QED
        BY <1>5, <3>2, <3>3
    <2> QED
      BY <1>5, <2>1, <2>2
  <1>10. \A X, Z : Final(c, X, Z) <=> /\ Final(a, X, Z) /\ Final(b, X, Z)
                                      /\ Some(a, Z) => Every(b, X)
    BY <1>8, <1>9
  <1>11. c \in Seq(S)
    BY <1>1
  <1> QED
    BY <1>1, <1>6, <1>7, <1>10, <1>11

\* One element.
LEMMA OneElement ==
    ASSUME NEW S, NEW x \in S
    PROVE  /\ <<x>> \in Seq(S)
           /\ \A X : Every(<<x>>, X) <=> x \in X
           /\ \A X : Some(<<x>>, X) <=> x \in X
           /\ \A X, Z : Final(<<x>>, X, Z)
  <1>1. DOMAIN <<x>> = {1} /\ <<x>>[1] = x /\ ~(1 < 1) /\ <<x>> \in Seq(S)
    OBVIOUS
  <1> QED
    BY <1>1 DEF Every, Some, Final

\* None.
LEMMA NoElement ==
    /\ \A S : <<>> \in Seq(S)
    /\ \A X : Every(<<>>, X) /\ ~Some(<<>>, X)
    /\ \A X, Z : Final(<<>>, X, Z)
  <1>1. DOMAIN <<>> = {} /\ \A S : <<>> \in Seq(S)
    OBVIOUS
  <1> QED
    BY <1>1 DEF Every, Some, Final

\* Elements of one set are not elements of another.
LEMMA EveryNotSome ==
    ASSUME NEW s, NEW X, NEW Y, X \cap Y = {}, Every(s, X)
    PROVE  ~Some(s, Y)
  BY DEF Every, Some

----------------------------------------------------------------------------
(* The inductive invariant: the pause                                      *)

GrantSet == [kind : {"grant"}, msg : Message, ue : Nat, last : BOOLEAN]
EventSet == {Pause} \cup GrantSet
Pauses == {Pause}
LastGrants == {e \in GrantSet : e.last = TRUE}
Covering(x) == {e \in GrantSet : x \in Applied(e)}

OtherMsgs == {m \in Message : m.plmn = Other}
LastMsgs == {m \in Message : m.plmn = Own /\ m.part = Len(Answer)}
AsMessage(x) == {m \in Message : m.plmn = Own /\ x = <<m.round, m.part>>}
LastMessage(r) == [plmn |-> Own, round |-> r, part |-> Len(Answer)]

\* The grants that are still to be applied, in their order, and the messages
\* that are still to be decoded: nothing for this simulation comes after the
\* last report.
Queue(ev, wc, o) == (ev \o wc) \o o

Lined(q, ms) ==
    /\ Final(q, Pauses, LastGrants)
    /\ Final(ms, OtherMsgs, LastMsgs)
    /\ Some(q, LastGrants) => Every(ms, OtherMsgs)

Idle(q, ms) == Every(q, Pauses) /\ Every(ms, OtherMsgs)

Owes(q, ms, ow) == \A x \in ow : Some(q, Covering(x)) \/ Some(ms, AsMessage(x))

\* As long as there is something to apply, the simulation is held.
Held(s, p, ev, q, ms) == s = "running" /\ ~Idle(q, ms) => p = TRUE /\ Some(ev, Pauses)

Waiting ==
    /\ events \in Seq(EventSet) /\ withContext \in Seq(EventSet) /\ out \in Seq(EventSet)
    /\ Lined(Queue(events, withContext, out), Pend)
    /\ Held(sim, pause, events, Queue(events, withContext, out), Pend)
    /\ Owes(Queue(events, withContext, out), Pend, owed)
    /\ round > 0 => Some(decoded \o Pend, {LastMessage(round)})

Modes ==
    /\ sim \in {"running", "reporting"} /\ pause \in BOOLEAN /\ apart \in BOOLEAN
    /\ sim = "reporting" => events = <<>>

IInv == Framed /\ InOrder /\ Modes /\ (apart = TRUE => Waiting)

\* A pause is no grant.
LEMMA PauseIsNoGrant ==
    /\ Pause \notin GrantSet /\ Pause \in EventSet
    /\ Pauses \cap LastGrants = {}
    /\ \A x : Pauses \cap Covering(x) = {}
    /\ \A e \in EventSet : e # Pause => e \in GrantSet
  <1>1. Pause.kind = "PauseSimulation" /\ \A e \in GrantSet : e.kind = "grant"
    BY DEF Pause, GrantSet
  <1>2. Pause \notin GrantSet
    BY <1>1
  <1> QED
    BY <1>2 DEF EventSet, Pauses, LastGrants, Covering

\* A message for another simulation is none for this one.
LEMMA OtherIsNotOwn ==
    /\ OtherMsgs \cap LastMsgs = {}
    /\ \A x : OtherMsgs \cap AsMessage(x) = {}
    /\ \A r : OtherMsgs \cap {LastMessage(r)} = {}
    /\ OtherMessage \in OtherMsgs
  <1>1. OtherMsgs \cap LastMsgs = {}
    BY DEF OtherMsgs, LastMsgs, Own, Other
  <1>2. \A x : OtherMsgs \cap AsMessage(x) = {}
    BY DEF OtherMsgs, AsMessage, Own, Other
  <1>3. \A r : OtherMsgs \cap {LastMessage(r)} = {}
    BY DEF OtherMsgs, LastMessage, Own, Other
  <1>4. OtherMessage \in OtherMsgs
    BY OtherIs DEF OtherMsgs, OtherMessage
  <1> QED
    BY <1>1, <1>2, <1>3, <1>4

\* The queues one by one.
LEMMA QueueParts ==
    ASSUME NEW ev \in Seq(EventSet), NEW wc \in Seq(EventSet), NEW o \in Seq(EventSet)
    PROVE  /\ Queue(ev, wc, o) \in Seq(EventSet)
           /\ \A X : Every(Queue(ev, wc, o), X) <=> Every(ev, X) /\ Every(wc, X) /\ Every(o, X)
           /\ \A X : Some(Queue(ev, wc, o), X) <=> Some(ev, X) \/ Some(wc, X) \/ Some(o, X)
           /\ \A X, Z : Final(Queue(ev, wc, o), X, Z) <=>
                 /\ Final(ev, X, Z) /\ Final(wc, X, Z) /\ Final(o, X, Z)
                 /\ Some(ev, Z) => Every(wc, X) /\ Every(o, X)
                 /\ Some(wc, Z) => Every(o, X)
  <1>1. /\ ev \o wc \in Seq(EventSet)
        /\ \A X : Every(ev \o wc, X) <=> Every(ev, X) /\ Every(wc, X)
        /\ \A X : Some(ev \o wc, X) <=> Some(ev, X) \/ Some(wc, X)
        /\ \A X, Z : Final(ev \o wc, X, Z) <=> /\ Final(ev, X, Z) /\ Final(wc, X, Z)
                                               /\ Some(ev, Z) => Every(wc, X)
    BY ConcatParts
  <1>2. PICK h \in Seq(EventSet) : h = ev \o wc
    BY <1>1
  <1>3. /\ h \o o \in Seq(EventSet)
        /\ \A X : Every(h \o o, X) <=> Every(h, X) /\ Every(o, X)
        /\ \A X : Some(h \o o, X) <=> Some(h, X) \/ Some(o, X)
        /\ \A X, Z : Final(h \o o, X, Z) <=> /\ Final(h, X, Z) /\ Final(o, X, Z)
                                             /\ Some(h, Z) => Every(o, X)
    BY ConcatParts
  <1>4. Queue(ev, wc, o) = h \o o
    BY <1>2 DEF Queue
  <1> QED
    BY <1>1, <1>2, <1>3, <1>4

\* A queue with only pauses has nothing to apply, and messages for others owe nothing.
LEMMA IdleOwesNothing ==
    ASSUME NEW q, NEW ms, NEW ow, Idle(q, ms)
    PROVE  /\ ~Some(q, LastGrants) /\ ~Some(ms, LastMsgs)
           /\ Owes(q, ms, ow) => ow = {}
           /\ \A r : ~Some(ms, {LastMessage(r)})
  <1>1. ~Some(q, LastGrants) /\ ~Some(ms, LastMsgs)
    BY PauseIsNoGrant, OtherIsNotOwn, EveryNotSome DEF Idle
  <1>2. \A x : ~Some(q, Covering(x)) /\ ~Some(ms, AsMessage(x))
    BY PauseIsNoGrant, OtherIsNotOwn, EveryNotSome DEF Idle
  <1>3. \A r : ~Some(ms, {LastMessage(r)})
    BY OtherIsNotOwn, EveryNotSome DEF Idle
  <1> QED
    BY <1>1, <1>2, <1>3 DEF Owes

\* Two queues with the same grants in the same order.
SameWork(q, p) ==
    /\ Every(q, Pauses) <=> Every(p, Pauses)
    /\ Some(q, LastGrants) <=> Some(p, LastGrants)
    /\ \A x : Some(q, Covering(x)) <=> Some(p, Covering(x))
    /\ Final(q, Pauses, LastGrants) <=> Final(p, Pauses, LastGrants)

\* They mean the same to the invariant.
LEMMA Requeued ==
    ASSUME NEW q, NEW p, NEW ms, NEW ow, SameWork(q, p), Lined(q, ms), Owes(q, ms, ow)
    PROVE  Lined(p, ms) /\ Owes(p, ms, ow) /\ (Idle(p, ms) <=> Idle(q, ms))
  BY DEF SameWork, Lined, Owes, Idle

\* What is handed over from m_eventsWithContext stays in its place.
LEMMA HandedOver ==
    ASSUME NEW ev \in Seq(EventSet), NEW wc \in Seq(EventSet), NEW o \in Seq(EventSet)
    PROVE  /\ ev \o wc \in Seq(EventSet) /\ <<>> \in Seq(EventSet)
           /\ \A X : Some(ev \o wc, X) <=> Some(ev, X) \/ Some(wc, X)
           /\ \A X : Every(Queue(ev \o wc, <<>>, o), X) <=> Every(ev, X) /\ Every(wc, X) /\ Every(o, X)
           /\ \A X : Some(Queue(ev \o wc, <<>>, o), X) <=> Some(ev, X) \/ Some(wc, X) \/ Some(o, X)
           /\ \A X, Z : Final(Queue(ev \o wc, <<>>, o), X, Z) <=>
                 /\ Final(ev, X, Z) /\ Final(wc, X, Z) /\ Final(o, X, Z)
                 /\ Some(ev, Z) => Every(wc, X) /\ Every(o, X)
                 /\ Some(wc, Z) => Every(o, X)
  <1>1. /\ ev \o wc \in Seq(EventSet)
        /\ \A X : Every(ev \o wc, X) <=> Every(ev, X) /\ Every(wc, X)
        /\ \A X : Some(ev \o wc, X) <=> Some(ev, X) \/ Some(wc, X)
        /\ \A X, Z : Final(ev \o wc, X, Z) <=> /\ Final(ev, X, Z) /\ Final(wc, X, Z)
                                               /\ Some(ev, Z) => Every(wc, X)
    BY ConcatParts
  <1>2. PICK h \in Seq(EventSet) : h = ev \o wc
    BY <1>1
  <1>3. PICK z \in Seq(EventSet) : z = <<>>
    BY NoElement
  <1>4. /\ \A X : Every(Queue(h, z, o), X) <=> Every(h, X) /\ Every(z, X) /\ Every(o, X)
        /\ \A X : Some(Queue(h, z, o), X) <=> Some(h, X) \/ Some(z, X) \/ Some(o, X)
        /\ \A X, Z : Final(Queue(h, z, o), X, Z) <=>
                 /\ Final(h, X, Z) /\ Final(z, X, Z) /\ Final(o, X, Z)
                 /\ Some(h, Z) => Every(z, X) /\ Every(o, X)
                 /\ Some(z, Z) => Every(o, X)
    BY QueueParts
  <1>5. (\A X : Every(z, X) /\ ~Some(z, X)) /\ \A X, Z : Final(z, X, Z)
    BY <1>3, NoElement
  <1>6. /\ \A X : Every(Queue(h, z, o), X) <=> Every(ev, X) /\ Every(wc, X) /\ Every(o, X)
        /\ \A X : Some(Queue(h, z, o), X) <=> Some(ev, X) \/ Some(wc, X) \/ Some(o, X)
        /\ \A X, Z : Final(Queue(h, z, o), X, Z) <=>
                 /\ Final(ev, X, Z) /\ Final(wc, X, Z) /\ Final(o, X, Z)
                 /\ Some(ev, Z) => Every(wc, X) /\ Every(o, X)
                 /\ Some(wc, Z) => Every(o, X)
    BY <1>1, <1>2, <1>4, <1>5
  <1> QED
    BY <1>1, <1>2, <1>3, <1>6

\* A queue that is not empty has a first event.
LEMMA FirstEvent ==
    ASSUME NEW ev \in Seq(EventSet), ev # <<>>
    PROVE  /\ Head(ev) \in EventSet /\ Tail(ev) \in Seq(EventSet)
           /\ \A X : Every(ev, X) <=> Head(ev) \in X /\ Every(Tail(ev), X)
           /\ \A X : Some(ev, X) <=> Head(ev) \in X \/ Some(Tail(ev), X)
           /\ \A X, Z : Final(ev, X, Z) <=> /\ Final(Tail(ev), X, Z)
                                            /\ Head(ev) \in Z => Every(Tail(ev), X)
  <1>1. PICK n \in Nat : Len(ev) = n + 1
    <2>1. Len(ev) - 1 \in Nat /\ Len(ev) = (Len(ev) - 1) + 1
      OBVIOUS
    <2> QED
      BY <2>1
  <1>2. ev = <<ev[1]>> \o Tail(ev) /\ ev[1] \in EventSet /\ Tail(ev) \in Seq(EventSet)
    BY <1>1, Begins
  <1>3. PICK e \in EventSet : e = ev[1]
    BY <1>2
  <1>4. PICK t \in Seq(EventSet) : t = Tail(ev)
    BY <1>2
  <1>5. Head(ev) = e
    BY <1>3
  <1>6. PICK u \in Seq(EventSet) : u = <<e>>
    BY OneElement
  <1>7. ev = u \o t
    BY <1>2, <1>3, <1>4, <1>6
  <1>8. /\ \A X : Every(u, X) <=> e \in X
        /\ \A X : Some(u, X) <=> e \in X
        /\ \A X, Z : Final(u, X, Z)
    BY <1>6, OneElement
  <1>9. /\ \A X : Every(u \o t, X) <=> Every(u, X) /\ Every(t, X)
        /\ \A X : Some(u \o t, X) <=> Some(u, X) \/ Some(t, X)
        /\ \A X, Z : Final(u \o t, X, Z) <=> /\ Final(u, X, Z) /\ Final(t, X, Z)
                                             /\ Some(u, Z) => Every(t, X)
    BY ConcatParts
  <1>10. /\ \A X : Every(ev, X) <=> e \in X /\ Every(t, X)
         /\ \A X : Some(ev, X) <=> e \in X \/ Some(t, X)
         /\ \A X, Z : Final(ev, X, Z) <=> /\ Final(t, X, Z)
                                          /\ e \in Z => Every(t, X)
    BY <1>7, <1>8, <1>9
  <1> QED
    BY <1>2, <1>3, <1>4, <1>5, <1>10

----------------------------------------------------------------------------
(* The steps                                                               *)

\* Initially nothing is held.
LEMMA InitInv == Init => IInv
  <1> SUFFICES ASSUME Init PROVE IInv
    OBVIOUS
  <1>1. Framed /\ InOrder /\ Pend = <<>>
    BY FramedInit
  <1>2. Modes
    BY DEF Init, Modes
  <1>3. /\ sim = "running" /\ events = <<>> /\ withContext = <<>> /\ out = <<>>
        /\ owed = {} /\ round = 0
    BY DEF Init
  <1>4. <<>> \in Seq(EventSet) /\ (\A X : Every(<<>>, X) /\ ~Some(<<>>, X)) /\ \A X, Z : Final(<<>>, X, Z)
    BY NoElement
  <1>5. PICK z \in Seq(EventSet) : z = <<>>
    BY <1>4
  <1>6. /\ \A X : Every(Queue(z, z, z), X) <=> Every(z, X) /\ Every(z, X) /\ Every(z, X)
        /\ \A X : Some(Queue(z, z, z), X) <=> Some(z, X) \/ Some(z, X) \/ Some(z, X)
        /\ \A X, Z : Final(Queue(z, z, z), X, Z) <=>
                 /\ Final(z, X, Z) /\ Final(z, X, Z) /\ Final(z, X, Z)
                 /\ Some(z, Z) => Every(z, X) /\ Every(z, X)
                 /\ Some(z, Z) => Every(z, X)
    BY QueueParts
  <1>7. (\A X : Every(z, X) /\ ~Some(z, X)) /\ \A X, Z : Final(z, X, Z)
    BY <1>4, <1>5
  <1>8. Lined(Queue(z, z, z), z) /\ Idle(Queue(z, z, z), z)
    BY <1>6, <1>7 DEF Lined, Idle
  <1>9. Waiting
    <2>1. Owes(Queue(events, withContext, out), Pend, owed)
      BY <1>3 DEF Owes
    <2>2. Lined(Queue(events, withContext, out), Pend) /\ Idle(Queue(events, withContext, out), Pend)
      BY <1>1, <1>3, <1>5, <1>8
    <2>3. Held(sim, pause, events, Queue(events, withContext, out), Pend)
      BY <2>2 DEF Held
    <2>4. ~(round > 0)
      BY <1>3
    <2> QED
      BY <1>3, <1>4, <2>1, <2>2, <2>3, <2>4 DEF Waiting
  <1> QED
    BY <1>1, <1>2, <1>9 DEF IInv

\* BuildAndSendReportMessage: the answer to the report before has been applied.
LEMMA ReportInv ==
    ASSUME IInv, Report
    PROVE  IInv'
  <1>1. Framed' /\ Pend' = Pend \o Answers(round + 1) /\ round' = round + 1 /\ decoded' = decoded
    BY FramedReport DEF IInv
  <1>2. /\ sim = "running" /\ events = <<>> /\ round < Rounds
        /\ sim' = "reporting" /\ pause' = pause /\ events' = events
        /\ withContext' = withContext /\ out' = out /\ apart' = apart
        /\ owed' = owed \cup {<<round', i>> : i \in DOMAIN Answer}
    BY DEF Report
  <1>3. round \in Nat /\ round + 1 \in 0..Rounds /\ decoded \in Seq(Message) /\ Pend \in Seq(Message)
    BY <1>1, <1>2, E2Assumption DEF IInv, Framed
  <1>4. PICK a \in Seq(Message) : a = Answers(round + 1)
    BY <1>3, AnswersAre
  <1>5. PICK l \in Nat \ {0} : l = Len(Answer)
    BY E2Assumption
  <1>6. DOMAIN a = 1..l /\ \A i \in 1..l : a[i] = [plmn |-> Own, round |-> round + 1, part |-> i]
    BY <1>3, <1>4, <1>5, AnswersAre
  <1>7. (decoded \o Pend) \o a = decoded \o (Pend \o a) /\ decoded \o Pend \in Seq(Message)
    BY <1>3, ConcatAssociative
  <1>8. InOrder'
    <2>1. Ranked((decoded \o Pend) \o Answers(round + 1), round + 1)
      BY <1>3, <1>7, RankedAnswers DEF IInv, InOrder
    <2>2. decoded' \o Pend' = (decoded \o Pend) \o Answers(round + 1)
      BY <1>1, <1>4, <1>7
    <2>3. Ranked(decoded' \o Pend', round')
      BY <1>1, <2>1, <2>2
    <2> QED
      BY <2>3 DEF InOrder
  <1>9. Modes'
    BY <1>2 DEF IInv, Modes
  <1>10. ASSUME apart = TRUE PROVE Waiting'
    <2> DEFINE q == Queue(events, withContext, out)
    <2>1. Waiting
      BY <1>10 DEF IInv
    <2>2. Idle(q, Pend)
      <3>1. ~Some(events, Pauses)
        BY <1>2, NoElement
      <3> QED
        BY <1>2, <2>1, <3>1 DEF Waiting, Held
    <2>3. /\ ~Some(q, LastGrants) /\ ~Some(Pend, LastMsgs) /\ owed = {}
      BY <2>1, <2>2, IdleOwesNothing DEF Waiting
    <2>4. Queue(events', withContext', out') = q
      BY <1>2
    <2>5. /\ \A X : Some(Pend \o a, X) <=> Some(Pend, X) \/ Some(a, X)
          /\ \A X, Z : Final(Pend \o a, X, Z) <=> /\ Final(Pend, X, Z) /\ Final(a, X, Z)
                                                  /\ Some(Pend, Z) => Every(a, X)
      BY <1>3, ConcatParts
    <2>6. Final(a, OtherMsgs, LastMsgs)
      <3> SUFFICES ASSUME NEW i \in 1..l, NEW j \in 1..l, i < j, a[i] \in LastMsgs PROVE FALSE
        BY <1>6 DEF Final
      <3>1. a[i].part = i
        BY <1>6
      <3>2. a[i].part = l
        BY <1>5 DEF LastMsgs
      <3> QED
        BY <3>1, <3>2
    <2>7. Lined(q, Pend')
      BY <1>1, <1>4, <2>1, <2>3, <2>5, <2>6 DEF Waiting, Lined
    <2>8. Owes(q, Pend', owed')
      <3> SUFFICES ASSUME NEW i \in 1..l PROVE Some(Pend', AsMessage(<<round + 1, i>>))
        <4>1. DOMAIN Answer = 1..l
          BY <1>5, E2Assumption
        <4>2. owed' = {<<round + 1, i>> : i \in 1..l}
          BY <1>1, <1>2, <2>3, <4>1
        <4> QED
          BY <4>2 DEF Owes
      <3>1. a[i] \in AsMessage(<<round + 1, i>>)
        BY <1>6 DEF AsMessage
      <3>2. Some(a, AsMessage(<<round + 1, i>>))
        BY <1>6, <3>1 DEF Some
      <3> QED
        BY <1>1, <1>4, <2>5, <3>2
    <2>9. Some(decoded' \o Pend', {LastMessage(round')})
      <3>1. a[l] \in {LastMessage(round')} /\ l \in DOMAIN a
        BY <1>1, <1>5, <1>6 DEF LastMessage
      <3>2. Some(a, {LastMessage(round')})
        BY <3>1 DEF Some
      <3>3. decoded' \o Pend' = (decoded \o Pend) \o a
        BY <1>1, <1>4, <1>7
      <3>4. \A X : Some((decoded \o Pend) \o a, X) <=> Some(decoded \o Pend, X) \/ Some(a, X)
        BY <1>7, ConcatParts
      <3> QED
        BY <3>2, <3>3, <3>4
    <2>10. Held(sim', pause', events', q, Pend')
      BY <1>2 DEF Held
    <2>11. events' \in Seq(EventSet) /\ withContext' \in Seq(EventSet) /\ out' \in Seq(EventSet)
      BY <1>2, <2>1 DEF Waiting
    <2> HIDE DEF q
    <2> QED
      BY <2>4, <2>7, <2>8, <2>9, <2>10, <2>11 DEF Waiting
  <1> QED
    BY <1>1, <1>2, <1>8, <1>9, <1>10 DEF IInv

\* A step that leaves the stream alone keeps what is known of it.
LEMMA StreamSame ==
    ASSUME IInv, UNCHANGED <<round, remaining, stream, decoded>>
    PROVE  Framed' /\ InOrder' /\ Pend' = Pend
  <1>1. Framed' /\ Pend' = Pend
    BY FramedSame DEF IInv
  <1> QED
    BY <1>1 DEF IInv, InOrder

\* The end of the report: the simulation is held.
LEMMA ReportEndsInv ==
    ASSUME IInv, ReportEnds
    PROVE  IInv'
  <1>1. Framed' /\ InOrder' /\ Pend' = Pend
    BY StreamSame DEF ReportEnds
  <1>2. /\ sim = "reporting" /\ sim' = "running" /\ pause' = TRUE
        /\ events' = <<Pause>> \o withContext /\ withContext' = <<>>
        /\ out' = out /\ owed' = owed /\ apart' = apart /\ round' = round /\ decoded' = decoded
    BY DEF ReportEnds, ProcessEventsWithContext
  <1>3. Modes'
    BY <1>2 DEF IInv, Modes
  <1>4. ASSUME apart = TRUE PROVE Waiting'
    <2>1. Waiting /\ events = <<>>
      BY <1>2, <1>4 DEF IInv, Modes
    <2>2. events \in Seq(EventSet) /\ withContext \in Seq(EventSet) /\ out \in Seq(EventSet)
      BY <2>1 DEF Waiting
    <2>3. PICK u \in Seq(EventSet) : u = <<Pause>>
      BY PauseIsNoGrant, OneElement
    <2>4. /\ \A X : Every(u, X) <=> Pause \in X
          /\ \A X : Some(u, X) <=> Pause \in X
          /\ \A X, Z : Final(u, X, Z)
      BY <2>3, PauseIsNoGrant, OneElement
    <2>5. Pause \in Pauses /\ Pause \notin LastGrants /\ \A x : Pause \notin Covering(x)
      BY PauseIsNoGrant DEF Pauses
    <2>6. (\A X : Every(events, X) /\ ~Some(events, X)) /\ \A X, Z : Final(events, X, Z)
      BY <2>1, NoElement
    <2> DEFINE q == Queue(events, withContext, out)
               p == Queue(u \o withContext, <<>>, out)
    <2>7. SameWork(q, p) /\ u \o withContext \in Seq(EventSet) /\ <<>> \in Seq(EventSet)
      BY <2>2, <2>4, <2>5, <2>6, QueueParts, HandedOver DEF SameWork
    <2>8. Some(u \o withContext, Pauses)
      BY <2>2, <2>4, <2>5, HandedOver
    <2>9. Queue(events', withContext', out') = p /\ events' = u \o withContext
      BY <1>2, <2>3
    <2> HIDE DEF q, p
    <2>10. Lined(q, Pend) /\ Owes(q, Pend, owed)
      BY <2>1 DEF Waiting, q
    <2>11. Lined(p, Pend') /\ Owes(p, Pend', owed')
      BY <1>1, <1>2, <2>7, <2>10, Requeued
    <2>12. Held(sim', pause', events', p, Pend')
      BY <1>2, <2>8, <2>9 DEF Held
    <2>13. round' > 0 => Some(decoded' \o Pend', {LastMessage(round')})
      BY <1>1, <1>2, <2>1 DEF Waiting
    <2>14. events' \in Seq(EventSet) /\ withContext' \in Seq(EventSet) /\ out' \in Seq(EventSet)
      BY <1>2, <2>2, <2>7, <2>9
    <2> QED
      BY <2>9, <2>11, <2>12, <2>13, <2>14 DEF Waiting
  <1> QED
    BY <1>1, <1>2, <1>3, <1>4 DEF IInv

\* PauseSimulation: it goes behind what is due at the same time.
LEMMA PauseSimulationInv ==
    ASSUME IInv, PauseSimulation
    PROVE  IInv'
  <1>1. Framed' /\ InOrder' /\ Pend' = Pend
    BY StreamSame DEF PauseSimulation
  <1>2. /\ sim = "running" /\ events # <<>> /\ Head(events) = Pause
        /\ events' = (IF pause THEN Append(Tail(events), Pause) ELSE Tail(events)) \o withContext
        /\ withContext' = <<>> /\ sim' = sim /\ pause' = pause
        /\ out' = out /\ owed' = owed /\ apart' = apart /\ round' = round /\ decoded' = decoded
    BY DEF PauseSimulation, ProcessEventsWithContext
  <1>3. Modes'
    BY <1>2 DEF IInv, Modes
  <1>4. ASSUME apart = TRUE PROVE Waiting'
    <2>1. Waiting /\ pause \in BOOLEAN
      BY <1>4 DEF IInv, Modes
    <2>2. events \in Seq(EventSet) /\ withContext \in Seq(EventSet) /\ out \in Seq(EventSet)
      BY <2>1 DEF Waiting
    <2>3. PICK t \in Seq(EventSet) : t = Tail(events)
      BY <1>2, <2>2, FirstEvent
    <2>4. /\ \A X : Every(events, X) <=> Pause \in X /\ Every(t, X)
          /\ \A X : Some(events, X) <=> Pause \in X \/ Some(t, X)
          /\ \A X, Z : Final(events, X, Z) <=> Final(t, X, Z) /\ (Pause \in Z => Every(t, X))
      BY <1>2, <2>2, <2>3, FirstEvent
    <2>5. Pause \in Pauses /\ Pause \notin LastGrants /\ \A x : Pause \notin Covering(x)
      BY PauseIsNoGrant DEF Pauses
    <2>6. PICK u \in Seq(EventSet) : u = <<Pause>>
      BY PauseIsNoGrant, OneElement
    <2>7. /\ \A X : Every(u, X) <=> Pause \in X
          /\ \A X : Some(u, X) <=> Pause \in X
          /\ \A X, Z : Final(u, X, Z)
      BY <2>6, PauseIsNoGrant, OneElement
    <2>8. PICK v \in Seq(EventSet) : v = IF pause THEN t \o u ELSE t
      <3>1. t \o u \in Seq(EventSet)
        OBVIOUS
      <3>2. (IF pause THEN t \o u ELSE t) \in Seq(EventSet)
        BY <2>1, <3>1
      <3> QED
        BY <3>2, Zenon
    <2>9. /\ \A X : Every(t \o u, X) <=> Every(t, X) /\ Every(u, X)
          /\ \A X : Some(t \o u, X) <=> Some(t, X) \/ Some(u, X)
          /\ \A X, Z : Final(t \o u, X, Z) <=> /\ Final(t, X, Z) /\ Final(u, X, Z)
                                               /\ Some(t, Z) => Every(u, X)
      BY ConcatParts
    <2>10. /\ Every(v, Pauses) <=> Every(events, Pauses)
           /\ Some(v, LastGrants) <=> Some(events, LastGrants)
           /\ \A x : Some(v, Covering(x)) <=> Some(events, Covering(x))
           /\ Final(v, Pauses, LastGrants) <=> Final(events, Pauses, LastGrants)
      <3>1. CASE pause = TRUE
        <4>1. v = t \o u
          BY <2>8, <3>1
        <4> QED
          BY <2>4, <2>5, <2>7, <2>9, <4>1
      <3>2. CASE pause = FALSE
        <4>1. v = t
          BY <2>8, <3>2
        <4> QED
          BY <2>4, <2>5, <4>1
      <3> QED
        BY <2>1, <3>1, <3>2
    <2>11. events' = v \o withContext
      <3>1. Append(t, Pause) = t \o u
        BY <2>6, PauseIsNoGrant, AppendIsConcat
      <3> QED
        BY <1>2, <2>3, <2>8, <3>1
    <2> DEFINE q == Queue(events, withContext, out)
               p == Queue(v \o withContext, <<>>, out)
    <2>12. SameWork(q, p) /\ v \o withContext \in Seq(EventSet) /\ <<>> \in Seq(EventSet)
      BY <2>2, <2>10, QueueParts, HandedOver DEF SameWork
    <2>13. pause = TRUE => Some(v \o withContext, Pauses)
      <3>1. pause = TRUE => Some(v, Pauses)
        BY <2>5, <2>7, <2>8, <2>9
      <3> QED
        BY <2>2, <3>1, HandedOver
    <2>14. Queue(events', withContext', out') = p
      BY <1>2, <2>11
    <2> HIDE DEF q, p
    <2>15. Lined(q, Pend) /\ Owes(q, Pend, owed) /\ Held(sim, pause, events, q, Pend)
      BY <2>1 DEF Waiting, q
    <2>16. Lined(p, Pend) /\ Owes(p, Pend, owed) /\ (Idle(p, Pend) <=> Idle(q, Pend))
      BY <2>12, <2>15, Requeued
    <2>17. Held(sim', pause', events', p, Pend')
      <3>1. pause = TRUE \/ Idle(p, Pend)
        BY <1>2, <2>15, <2>16 DEF Held
      <3> QED
        BY <1>1, <1>2, <2>11, <2>13, <3>1 DEF Held
    <2>18. round' > 0 => Some(decoded' \o Pend', {LastMessage(round')})
      BY <1>1, <1>2, <2>1 DEF Waiting
    <2>19. events' \in Seq(EventSet) /\ withContext' \in Seq(EventSet) /\ out' \in Seq(EventSet)
      BY <1>2, <2>2, <2>11, <2>12
    <2>20. Lined(p, Pend') /\ Owes(p, Pend', owed')
      BY <1>1, <1>2, <2>16
    <2> QED
      BY <2>14, <2>17, <2>18, <2>19, <2>20 DEF Waiting
  <1> QED
    BY <1>1, <1>2, <1>3, <1>4 DEF IInv

\* SendSchedulerDataToTrace: after the grant of the last report there is
\* nothing left to wait for.
LEMMA SendSchedulerInv ==
    ASSUME IInv, SendSchedulerDataToTrace
    PROVE  IInv'
  <1>1. Framed' /\ InOrder' /\ Pend' = Pend
    BY StreamSame DEF SendSchedulerDataToTrace
  <1>2. /\ sim = "running" /\ events # <<>> /\ Head(events) # Pause
        /\ events' = Tail(events) \o withContext
        /\ withContext' = <<>> /\ sim' = sim
        /\ pause' = (pause /\ ~Head(events).last)
        /\ owed' = owed \ Applied(Head(events))
        /\ out' = out /\ apart' = apart /\ round' = round /\ decoded' = decoded
    BY DEF SendSchedulerDataToTrace, ProcessEventsWithContext
  <1>3. Modes'
    <2>1. pause' \in BOOLEAN
      BY <1>2
    <2> QED
      BY <1>2, <2>1 DEF IInv, Modes
  <1>4. ASSUME apart = TRUE PROVE Waiting'
    <2>1. Waiting /\ pause \in BOOLEAN
      BY <1>4 DEF IInv, Modes
    <2>2. events \in Seq(EventSet) /\ withContext \in Seq(EventSet) /\ out \in Seq(EventSet)
      BY <2>1 DEF Waiting
    <2>3. PICK t \in Seq(EventSet) : t = Tail(events)
      BY <1>2, <2>2, FirstEvent
    <2>4. PICK e \in GrantSet : e = Head(events)
      BY <1>2, <2>2, FirstEvent, PauseIsNoGrant
    <2>5. /\ \A X : Every(events, X) <=> e \in X /\ Every(t, X)
          /\ \A X : Some(events, X) <=> e \in X \/ Some(t, X)
          /\ \A X, Z : Final(events, X, Z) <=> Final(t, X, Z) /\ (e \in Z => Every(t, X))
      BY <1>2, <2>2, <2>3, <2>4, FirstEvent
    <2>6. e \notin Pauses
      BY <2>4, PauseIsNoGrant DEF Pauses
    <2> DEFINE q == Queue(events, withContext, out)
               p == Queue(t \o withContext, <<>>, out)
    <2>7. /\ \A X : Every(q, X) <=> e \in X /\ Every(p, X)
          /\ \A X : Some(q, X) <=> e \in X \/ Some(p, X)
          /\ Final(q, Pauses, LastGrants) =>
                Final(p, Pauses, LastGrants) /\ (e \in LastGrants => Every(p, Pauses))
          /\ t \o withContext \in Seq(EventSet) /\ <<>> \in Seq(EventSet)
          /\ Some(t, Pauses) => Some(t \o withContext, Pauses)
      BY <2>2, <2>5, QueueParts, HandedOver
    <2>8. Queue(events', withContext', out') = p /\ events' = t \o withContext
      BY <1>2, <2>3
    <2> HIDE DEF q, p
    <2>9. Lined(q, Pend) /\ Owes(q, Pend, owed) /\ Held(sim, pause, events, q, Pend)
      BY <2>1 DEF Waiting, q
    <2>10. Lined(p, Pend)
      BY <2>7, <2>9 DEF Lined
    <2>11. Owes(p, Pend, owed')
      <3> SUFFICES ASSUME NEW x \in owed, x \notin Applied(e)
                   PROVE  Some(p, Covering(x)) \/ Some(Pend, AsMessage(x))
        BY <1>2, <2>4 DEF Owes
      <3>1. e \notin Covering(x)
        BY DEF Covering
      <3> QED
        BY <2>7, <2>9, <3>1 DEF Owes
    <2>12. pause = TRUE /\ Some(t, Pauses)
      BY <1>2, <2>5, <2>6, <2>7, <2>9 DEF Held, Idle
    <2>13. Held(sim', pause', events', p, Pend)
      <3>1. CASE e.last = TRUE
        <4>1. e \in LastGrants
          BY <3>1 DEF LastGrants
        <4>2. Idle(p, Pend)
          BY <2>7, <2>9, <4>1 DEF Lined, Idle
        <4> QED
          BY <4>2 DEF Held
      <3>2. CASE e.last = FALSE
        <4>1. pause' = TRUE
          BY <1>2, <2>4, <2>12, <3>2
        <4> QED
          BY <2>7, <2>8, <2>12, <4>1 DEF Held
      <3>3. e.last \in BOOLEAN
        BY DEF GrantSet
      <3> QED
        BY <3>1, <3>2, <3>3
    <2>14. round' > 0 => Some(decoded' \o Pend', {LastMessage(round')})
      BY <1>1, <1>2, <2>1 DEF Waiting
    <2>15. events' \in Seq(EventSet) /\ withContext' \in Seq(EventSet) /\ out' \in Seq(EventSet)
      BY <1>2, <2>2, <2>7, <2>8
    <2> QED
      BY <1>1, <2>8, <2>10, <2>11, <2>13, <2>14, <2>15 DEF Waiting
  <1> QED
    BY <1>1, <1>2, <1>3, <1>4 DEF IInv

\* The simulation goes on.
LEMMA AdvanceInv ==
    ASSUME IInv, Advance
    PROVE  IInv'
  <1>1. Framed' /\ InOrder' /\ Pend' = Pend
    BY StreamSame DEF Advance
  <1>2. /\ sim = "running" /\ events = <<>>
        /\ events' = <<>> \o withContext
        /\ withContext' = <<>> /\ sim' = sim /\ pause' = pause
        /\ out' = out /\ owed' = owed /\ apart' = apart /\ round' = round /\ decoded' = decoded
    BY DEF Advance, ProcessEventsWithContext
  <1>3. Modes'
    BY <1>2 DEF IInv, Modes
  <1>4. ASSUME apart = TRUE PROVE Waiting'
    <2>1. Waiting
      BY <1>4 DEF IInv
    <2>2. events \in Seq(EventSet) /\ withContext \in Seq(EventSet) /\ out \in Seq(EventSet)
      BY <2>1 DEF Waiting
    <2> DEFINE q == Queue(events, withContext, out)
               p == Queue(events \o withContext, <<>>, out)
    <2>3. SameWork(q, p) /\ events \o withContext \in Seq(EventSet) /\ <<>> \in Seq(EventSet)
      BY <2>2, QueueParts, HandedOver DEF SameWork
    <2>4. Queue(events', withContext', out') = p /\ events' = events \o withContext
      BY <1>2
    <2> HIDE DEF q, p
    <2>5. Lined(q, Pend) /\ Owes(q, Pend, owed) /\ Held(sim, pause, events, q, Pend)
      BY <2>1 DEF Waiting, q
    <2>6. Idle(q, Pend)
      <3>1. ~Some(events, Pauses)
        BY <1>2, NoElement
      <3> QED
        BY <1>2, <2>5, <3>1 DEF Held
    <2>7. Lined(p, Pend) /\ Owes(p, Pend, owed) /\ Idle(p, Pend)
      BY <2>3, <2>5, <2>6, Requeued
    <2>8. Held(sim', pause', events', p, Pend')
      BY <1>1, <2>7 DEF Held
    <2>9. round' > 0 => Some(decoded' \o Pend', {LastMessage(round')})
      BY <1>1, <1>2, <2>1 DEF Waiting
    <2>10. events' \in Seq(EventSet) /\ withContext' \in Seq(EventSet) /\ out' \in Seq(EventSet)
      BY <1>2, <2>2, <2>3, <2>4
    <2>11. Lined(p, Pend') /\ Owes(p, Pend', owed')
      BY <1>1, <1>2, <2>7
    <2> QED
      BY <2>4, <2>8, <2>9, <2>10, <2>11 DEF Waiting
  <1> QED
    BY <1>1, <1>2, <1>3, <1>4 DEF IInv

\* A message for another simulation.
LEMMA OtherInv ==
    ASSUME IInv, OtherPlmn
    PROVE  IInv'
  <1>1. Framed' /\ Pend' = Pend \o <<OtherMessage>> /\ round' = round /\ decoded' = decoded
    BY FramedOther DEF IInv
  <1>2. UNCHANGED <<sim, pause, events, withContext, out, owed, apart>>
    BY DEF OtherPlmn
  <1>3. decoded \in Seq(Message) /\ Pend \in Seq(Message)
    BY DEF IInv, Framed
  <1>4. PICK o \in Seq(Message) : o = <<OtherMessage>>
    BY OtherIs
  <1>5. (decoded \o Pend) \o o = decoded \o (Pend \o o) /\ decoded \o Pend \in Seq(Message)
    BY <1>3, ConcatAssociative
  <1>6. decoded' \o Pend' = (decoded \o Pend) \o o
    BY <1>1, <1>4, <1>5
  <1>7. InOrder'
    <2>1. Ranked((decoded \o Pend) \o o, round)
      BY <1>4, <1>5, RankedOther DEF IInv, InOrder
    <2>2. Ranked(decoded' \o Pend', round')
      BY <1>1, <1>6, <2>1
    <2> QED
      BY <2>2 DEF InOrder
  <1>8. Modes'
    BY <1>2 DEF IInv, Modes
  <1>9. ASSUME apart = TRUE PROVE Waiting'
    <2> DEFINE q == Queue(events, withContext, out)
    <2>1. Waiting
      BY <1>9 DEF IInv
    <2>2. Queue(events', withContext', out') = q
      BY <1>2
    <2>3. /\ \A X : Every(o, X) <=> OtherMessage \in X
          /\ \A X : Some(o, X) <=> OtherMessage \in X
          /\ \A X, Z : Final(o, X, Z)
      BY <1>4, OtherIs, OneElement
    <2>4. /\ \A X : Every(Pend \o o, X) <=> Every(Pend, X) /\ Every(o, X)
          /\ \A X : Some(Pend \o o, X) <=> Some(Pend, X) \/ Some(o, X)
          /\ \A X, Z : Final(Pend \o o, X, Z) <=> /\ Final(Pend, X, Z) /\ Final(o, X, Z)
                                                  /\ Some(Pend, Z) => Every(o, X)
      BY <1>3, ConcatParts
    <2>5. \A X : Some((decoded \o Pend) \o o, X) <=> Some(decoded \o Pend, X) \/ Some(o, X)
      BY <1>5, ConcatParts
    <2>6. Pend' = Pend \o o /\ OtherMessage \in OtherMsgs
      BY <1>1, <1>4, OtherIsNotOwn
    <2> HIDE DEF q
    <2>7. Lined(q, Pend) /\ Owes(q, Pend, owed) /\ Held(sim, pause, events, q, Pend)
      BY <2>1 DEF Waiting, q
    <2>8. Lined(q, Pend') /\ (Idle(q, Pend') <=> Idle(q, Pend)) /\ Owes(q, Pend', owed)
      BY <2>3, <2>4, <2>6, <2>7 DEF Lined, Idle, Owes
    <2>9. Held(sim', pause', events', q, Pend') /\ Owes(q, Pend', owed')
      BY <1>2, <2>7, <2>8 DEF Held
    <2>10. round' > 0 => Some(decoded' \o Pend', {LastMessage(round')})
      BY <1>1, <1>6, <2>1, <2>5 DEF Waiting
    <2>11. events' \in Seq(EventSet) /\ withContext' \in Seq(EventSet) /\ out' \in Seq(EventSet)
      BY <1>2, <2>1 DEF Waiting
    <2> QED
      BY <2>2, <2>8, <2>9, <2>10, <2>11 DEF Waiting
  <1> QED
    BY <1>1, <1>2, <1>7, <1>8, <1>9 DEF IInv

\* ScheduleWithContext: the E2 thread puts an event at the end of
\* m_eventsWithContext, before the events it has still to put there.
LEMMA ScheduleInv ==
    ASSUME IInv, ScheduleWithContext
    PROVE  IInv'
  <1>1. Framed' /\ InOrder' /\ Pend' = Pend
    BY StreamSame DEF ScheduleWithContext
  <1>2. /\ out # <<>> /\ withContext' = Append(withContext, Head(out)) /\ out' = Tail(out)
        /\ UNCHANGED <<sim, round, pause, events, owed, decoded, apart>>
    BY DEF ScheduleWithContext
  <1>3. Modes'
    BY <1>2 DEF IInv, Modes
  <1>4. ASSUME apart = TRUE PROVE Waiting'
    <2>1. Waiting
      BY <1>4 DEF IInv
    <2>2. events \in Seq(EventSet) /\ withContext \in Seq(EventSet) /\ out \in Seq(EventSet)
      BY <2>1 DEF Waiting
    <2>3. PICK t \in Seq(EventSet) : t = Tail(out)
      BY <1>2, <2>2, FirstEvent
    <2>4. PICK e \in EventSet : e = Head(out)
      BY <1>2, <2>2, FirstEvent
    <2>5. /\ \A X : Every(out, X) <=> e \in X /\ Every(t, X)
          /\ \A X : Some(out, X) <=> e \in X \/ Some(t, X)
          /\ \A X, Z : Final(out, X, Z) <=> Final(t, X, Z) /\ (e \in Z => Every(t, X))
      BY <1>2, <2>2, <2>3, <2>4, FirstEvent
    <2>6. PICK u \in Seq(EventSet) : u = <<e>>
      BY OneElement
    <2>7. /\ \A X : Every(u, X) <=> e \in X
          /\ \A X : Some(u, X) <=> e \in X
          /\ \A X, Z : Final(u, X, Z)
      BY <2>6, OneElement
    <2>8. PICK w \in Seq(EventSet) : w = withContext \o u
      <3>1. withContext \o u \in Seq(EventSet)
        BY <2>2
      <3> QED
        BY <3>1
    <2>9. /\ \A X : Every(w, X) <=> Every(withContext, X) /\ Every(u, X)
          /\ \A X : Some(w, X) <=> Some(withContext, X) \/ Some(u, X)
          /\ \A X, Z : Final(w, X, Z) <=> /\ Final(withContext, X, Z) /\ Final(u, X, Z)
                                          /\ Some(withContext, Z) => Every(u, X)
      BY <2>2, <2>8, ConcatParts
    <2> DEFINE q == Queue(events, withContext, out)
               p == Queue(events, w, t)
    <2>10. SameWork(q, p)
      <3>1. /\ \A X : Every(q, X) <=> Every(events, X) /\ Every(withContext, X) /\ Every(out, X)
            /\ \A X : Some(q, X) <=> Some(events, X) \/ Some(withContext, X) \/ Some(out, X)
            /\ \A X, Z : Final(q, X, Z) <=>
                 /\ Final(events, X, Z) /\ Final(withContext, X, Z) /\ Final(out, X, Z)
                 /\ Some(events, Z) => Every(withContext, X) /\ Every(out, X)
                 /\ Some(withContext, Z) => Every(out, X)
        BY <2>2, QueueParts
      <3>2. /\ \A X : Every(p, X) <=> Every(events, X) /\ Every(w, X) /\ Every(t, X)
            /\ \A X : Some(p, X) <=> Some(events, X) \/ Some(w, X) \/ Some(t, X)
            /\ \A X, Z : Final(p, X, Z) <=>
                 /\ Final(events, X, Z) /\ Final(w, X, Z) /\ Final(t, X, Z)
                 /\ Some(events, Z) => Every(w, X) /\ Every(t, X)
                 /\ Some(w, Z) => Every(t, X)
        BY <2>2, QueueParts
      <3> HIDE DEF q, p
      <3>3. \A X : (Every(q, X) <=> Every(p, X)) /\ (Some(q, X) <=> Some(p, X))
        BY <2>5, <2>7, <2>9, <3>1, <3>2
      <3>4. Final(q, Pauses, LastGrants) <=> Final(p, Pauses, LastGrants)
        BY <2>5, <2>7, <2>9, <3>1, <3>2
      <3> QED
        BY <3>3, <3>4 DEF SameWork
    <2>11. withContext' = w /\ Queue(events', withContext', out') = p
      <3>1. Append(withContext, e) = withContext \o u
        BY <2>2, <2>6, AppendIsConcat
      <3> QED
        BY <1>2, <2>3, <2>4, <2>8, <3>1
    <2> HIDE DEF q, p
    <2>12. Lined(q, Pend) /\ Owes(q, Pend, owed) /\ Held(sim, pause, events, q, Pend)
      BY <2>1 DEF Waiting, q
    <2>13. Lined(p, Pend) /\ Owes(p, Pend, owed) /\ (Idle(p, Pend) <=> Idle(q, Pend))
      BY <2>10, <2>12, Requeued
    <2>14. Held(sim', pause', events', p, Pend')
      BY <1>1, <1>2, <2>12, <2>13 DEF Held
    <2>15. round' > 0 => Some(decoded' \o Pend', {LastMessage(round')})
      BY <1>1, <1>2, <2>1 DEF Waiting
    <2>16. events' \in Seq(EventSet) /\ withContext' \in Seq(EventSet) /\ out' \in Seq(EventSet)
      BY <1>2, <2>2, <2>3, <2>11
    <2>17. Lined(p, Pend') /\ Owes(p, Pend', owed')
      BY <1>1, <1>2, <2>13
    <2> QED
      BY <2>11, <2>14, <2>15, <2>16, <2>17 DEF Waiting
  <1> QED
    BY <1>1, <1>2, <1>3, <1>4 DEF IInv

\* The events of one message: what they are when it comes alone in its PDU.
LEMMA OneMessage ==
    ASSUME NEW m \in Message
    PROVE  LET E == ControlMessageReceivedCallback(<<m>>) IN
           /\ E \in Seq(EventSet)
           /\ m.plmn # Own => E = <<>>
           /\ m.plmn = Own => Some(E, Covering(<<m.round, m.part>>))
           /\ Final(E, Pauses, LastGrants)
           /\ Some(E, LastGrants) => m \in LastMsgs
  <1>1. PICK F : F = EventsOf(m, LastReport(<<m>>))
    OBVIOUS
  <1>2. ASSUME UesOf(m) # <<>> PROVE LastReport(<<m>>) = FALSE
    <2>1. DOMAIN <<m>> = {1} /\ <<m>>[1] = m
      OBVIOUS
    <2>2. ~ \E i \in DOMAIN <<m>> : UesOf(<<m>>[i]) = <<>>
      BY <1>2, <2>1
    <2> QED
      BY <2>2, Zenon DEF LastReport
  <1>3. m.part \in 1..Len(Answer) /\ m.plmn \in {Own, Other} /\ m.round \in 0..Rounds
    BY DEF Message
  <1>4. m.plmn = Own => UesOf(m) = Answer[m.part] /\ UesOf(m) \in Seq(Nat)
    BY <1>3, E2Assumption DEF UesOf
  <1>5. m.plmn = Own => (UesOf(m) = <<>> <=> m.part = Len(Answer))
    BY <1>3, <1>4, E2Assumption
  <1>6. /\ F \in Seq(EventSet)
        /\ m.plmn # Own => F = <<>>
        /\ m.plmn = Own => Some(F, Covering(<<m.round, m.part>>))
        /\ Final(F, Pauses, LastGrants)
        /\ Some(F, LastGrants) => m \in LastMsgs
    <2>1. CASE m.plmn # Own
      <3>1. F = <<>>
        BY <1>1, <2>1 DEF EventsOf
      <3> QED
        BY <2>1, <3>1, NoElement
    <2>2. CASE m.plmn = Own /\ UesOf(m) = <<>>
      <3>1. PICK e : e = Grant(m, 0, TRUE)
        OBVIOUS
      <3>2. F = <<e>>
        BY <1>1, <2>2, <3>1 DEF EventsOf
      <3>3. e \in GrantSet /\ e.msg = m /\ e.ue = 0
        BY <3>1 DEF Grant, GrantSet
      <3>4. <<m.round, m.part>> \in Applied(e)
        BY <3>3 DEF Applied
      <3>5. e \in EventSet /\ e \in Covering(<<m.round, m.part>>)
        BY <3>3, <3>4 DEF EventSet, Covering
      <3>6. m \in LastMsgs
        BY <1>5, <2>2 DEF LastMsgs
      <3> QED
        BY <2>2, <3>2, <3>5, <3>6, OneElement
    <2>3. CASE m.plmn = Own /\ UesOf(m) # <<>>
      <3>1. PICK ues \in Seq(Nat) : ues = UesOf(m) /\ ues # <<>>
        BY <1>4, <2>3
      <3>2. LastReport(<<m>>) = FALSE
        BY <1>2, <2>3
      <3>3. F = [i \in DOMAIN ues |-> Grant(m, ues[i], FALSE)]
        BY <1>1, <2>3, <3>1, <3>2 DEF EventsOf
      <3>4. \A i \in DOMAIN ues : Grant(m, ues[i], FALSE) \in GrantSet /\ ~(Grant(m, ues[i], FALSE).last = TRUE)
        BY DEF Grant, GrantSet
      <3>5. DOMAIN ues = 1..Len(ues) /\ Len(ues) \in Nat /\ Len(ues) \in 1..Len(ues)
        BY <3>1
      <3>6. F \in [1..Len(ues) -> EventSet] /\ \A i \in DOMAIN F : F[i] \notin LastGrants
        BY <3>3, <3>4, <3>5 DEF EventSet, LastGrants
      <3>7. F \in Seq(EventSet)
        BY <3>5, <3>6
      <3>8. ~Some(F, LastGrants) /\ Final(F, Pauses, LastGrants)
        BY <3>6 DEF Some, Final
      <3>9. PICK e : e = F[Len(ues)]
        OBVIOUS
      <3>10. e = Grant(m, ues[Len(ues)], FALSE) /\ Len(ues) \in DOMAIN F /\ e \in GrantSet
        BY <3>3, <3>4, <3>5, <3>9
      <3>11. e.msg = m /\ e.ue = Last(UesOf(m))
        BY <3>1, <3>10 DEF Grant, Last
      <3>12. <<m.round, m.part>> \in Applied(e)
        BY <3>11 DEF Applied
      <3>13. Some(F, Covering(<<m.round, m.part>>))
        BY <3>9, <3>10, <3>12 DEF Some, Covering
      <3> QED
        BY <2>3, <3>7, <3>8, <3>13
    <2> QED
      BY <2>1, <2>2, <2>3
  <1>7. ControlMessageReceivedCallback(<<m>>) = F
    <2>1. [i \in DOMAIN <<m>> |-> EventsOf(<<m>>[i], LastReport(<<m>>))] = <<F>>
      BY <1>1
    <2> QED
      BY <1>6, <2>1, FlattenOne DEF ControlMessageReceivedCallback
  <1> QED
    BY <1>6, <1>7

\* A PDU that completes one message.
LEMMA AtMostOne ==
    ASSUME NEW s \in Seq(Message), s # <<>>, Len(s) <= 1
    PROVE  \E m \in Message : s = <<m>>
  <1>1. Len(s) = 0 + 1 /\ 0 \in Nat
    <2>1. Len(s) \in Nat /\ Len(s) # 0
      OBVIOUS
    <2> QED
      BY <2>1
  <1>2. s = <<s[1]>> \o Tail(s) /\ s[1] \in Message /\ Tail(s) \in Seq(Message) /\ Len(Tail(s)) = 0
    BY <1>1, Begins
  <1>3. Tail(s) = <<>>
    BY <1>2
  <1>4. <<s[1]>> \o <<>> = <<s[1]>>
    BY <1>2
  <1> QED
    BY <1>2, <1>3, <1>4

\* A PDU: its message, if it completes one, becomes events behind those before.
LEMMA ReceiveInv ==
    ASSUME IInv, NEW n \in 1..Len(stream), Receive(n)
    PROVE  IInv'
  <1>1. /\ Framed' /\ round' = round
        /\ \E msgs \in Seq(Message) :
              /\ Pend = msgs \o Pend' /\ decoded' = decoded \o msgs
              /\ out = <<>> /\ out' = ControlMessageReceivedCallback(msgs)
              /\ apart' = (apart /\ Len(msgs) <= 1)
    BY FramedReceive DEF IInv
  <1>2. PICK msgs \in Seq(Message) :
              /\ Pend = msgs \o Pend' /\ decoded' = decoded \o msgs
              /\ out = <<>> /\ out' = ControlMessageReceivedCallback(msgs)
              /\ apart' = (apart /\ Len(msgs) <= 1)
    BY <1>1
  <1>3. UNCHANGED <<sim, pause, events, withContext, owed>>
    BY DEF Receive
  <1>4. decoded \in Seq(Message) /\ Pend \in Seq(Message) /\ Pend' \in Seq(Message)
    BY <1>1 DEF IInv, Framed
  <1>5. decoded' \o Pend' = decoded \o Pend
    BY <1>2, <1>4, ConcatAssociative
  <1>6. InOrder'
    <2>1. Ranked(decoded' \o Pend', round')
      BY <1>1, <1>5 DEF IInv, InOrder
    <2> QED
      BY <2>1 DEF InOrder
  <1>7. Modes'
    <2>1. apart' \in BOOLEAN
      BY <1>2
    <2> QED
      BY <1>3, <2>1 DEF IInv, Modes
  <1>8. ASSUME apart' = TRUE PROVE Waiting'
    <2>1. apart = TRUE /\ Len(msgs) <= 1
      BY <1>2, <1>8 DEF IInv, Modes
    <2>2. Waiting
      BY <2>1 DEF IInv
    <2>3. events \in Seq(EventSet) /\ withContext \in Seq(EventSet)
      BY <2>2 DEF Waiting
    <2>4. PICK ms \in Seq(Message) : ms = Pend'
      BY <1>4
    <2>5. round' > 0 => Some(decoded' \o ms, {LastMessage(round')})
      BY <1>1, <1>5, <2>2, <2>4 DEF Waiting
    <2> DEFINE q == Queue(events, withContext, out)
    <2>6. Lined(q, Pend) /\ Owes(q, Pend, owed) /\ Held(sim, pause, events, q, Pend)
      BY <2>2 DEF Waiting
    <2> SUFFICES ASSUME NEW E \in Seq(EventSet), out' = E
                 PROVE  /\ Lined(Queue(events, withContext, E), ms)
                        /\ Held(sim, pause, events, Queue(events, withContext, E), ms)
                        /\ Owes(Queue(events, withContext, E), ms, owed)
      <3>1. out' \in Seq(EventSet)
        <4>1. CASE msgs = <<>>
          <5>1. [i \in DOMAIN <<>> |-> EventsOf(<<>>[i], LastReport(<<>>))] = <<>>
            OBVIOUS
          <5>2. out' = <<>>
            BY <1>2, <4>1, <5>1, FlattenEmpty DEF ControlMessageReceivedCallback
          <5> QED
            BY <5>2, NoElement
        <4>2. CASE msgs # <<>>
          <5>1. PICK m \in Message : msgs = <<m>>
            BY <2>1, <4>2, AtMostOne
          <5> QED
            BY <1>2, <5>1, OneMessage
        <4> QED
          BY <4>1, <4>2
      <3>2. PICK E \in Seq(EventSet) : E = out'
        BY <3>1
      <3>3. /\ Lined(Queue(events, withContext, E), ms)
            /\ Held(sim, pause, events, Queue(events, withContext, E), ms)
            /\ Owes(Queue(events, withContext, E), ms, owed)
        BY <3>2
      <3>4. Queue(events', withContext', out') = Queue(events, withContext, E)
        BY <1>3, <3>2
      <3> QED
        BY <1>3, <2>3, <2>4, <2>5, <3>2, <3>3, <3>4 DEF Waiting
    <2> DEFINE p == Queue(events, withContext, E)
    <2>7. PICK z \in Seq(EventSet) : z = out
      BY <1>2, NoElement
    <2>8. (\A X : Every(z, X) /\ ~Some(z, X)) /\ \A X, Z : Final(z, X, Z)
      BY <1>2, <2>7, NoElement
    <2>9. /\ \A X : Every(p, X) <=> Every(q, X) /\ Every(E, X)
          /\ \A X : Some(p, X) <=> Some(q, X) \/ Some(E, X)
          /\ \A X, Z : Final(p, X, Z) <=> /\ Final(q, X, Z) /\ Final(E, X, Z)
                                          /\ Some(q, Z) => Every(E, X)
      <3>1. /\ \A X : Every(q, X) <=> Every(events, X) /\ Every(withContext, X) /\ Every(z, X)
            /\ \A X : Some(q, X) <=> Some(events, X) \/ Some(withContext, X) \/ Some(z, X)
            /\ \A X, Z : Final(q, X, Z) <=>
                 /\ Final(events, X, Z) /\ Final(withContext, X, Z) /\ Final(z, X, Z)
                 /\ Some(events, Z) => Every(withContext, X) /\ Every(z, X)
                 /\ Some(withContext, Z) => Every(z, X)
        BY <2>3, <2>7, QueueParts
      <3>2. /\ \A X : Every(p, X) <=> Every(events, X) /\ Every(withContext, X) /\ Every(E, X)
            /\ \A X : Some(p, X) <=> Some(events, X) \/ Some(withContext, X) \/ Some(E, X)
            /\ \A X, Z : Final(p, X, Z) <=>
                 /\ Final(events, X, Z) /\ Final(withContext, X, Z) /\ Final(E, X, Z)
                 /\ Some(events, Z) => Every(withContext, X) /\ Every(E, X)
                 /\ Some(withContext, Z) => Every(E, X)
        BY <2>3, QueueParts
      <3> HIDE DEF q, p
      <3> QED
        BY <2>8, <3>1, <3>2
    <2> HIDE DEF q, p
    <2>10. CASE msgs = <<>>
      <3>1. E = <<>>
        <4>1. [i \in DOMAIN <<>> |-> EventsOf(<<>>[i], LastReport(<<>>))] = <<>>
          OBVIOUS
        <4> QED
          BY <1>2, <2>10, <4>1, FlattenEmpty DEF ControlMessageReceivedCallback
      <3>2. ms = Pend
        BY <1>2, <1>4, <2>4, <2>10
      <3>3. SameWork(q, p)
        BY <2>9, <3>1, NoElement DEF SameWork
      <3>4. Lined(p, Pend) /\ Owes(p, Pend, owed) /\ (Idle(p, Pend) <=> Idle(q, Pend))
        BY <2>6, <3>3, Requeued
      <3> QED
        BY <2>6, <3>2, <3>4 DEF Held, p
    <2>11. CASE msgs # <<>>
      <3>1. PICK m \in Message : msgs = <<m>>
        BY <2>1, <2>11, AtMostOne
      <3>2. /\ m.plmn # Own => E = <<>>
            /\ m.plmn = Own => Some(E, Covering(<<m.round, m.part>>))
            /\ Final(E, Pauses, LastGrants)
            /\ Some(E, LastGrants) => m \in LastMsgs
        BY <1>2, <3>1, OneMessage
      <3>3. PICK u \in Seq(Message) : u = <<m>>
        BY <3>1
      <3>4. /\ \A X : Every(u, X) <=> m \in X
            /\ \A X : Some(u, X) <=> m \in X
        BY <3>3, OneElement
      <3>5. Pend = u \o ms
        BY <1>2, <2>4, <3>1, <3>3
      <3>6. /\ \A X : Every(Pend, X) <=> m \in X /\ Every(ms, X)
            /\ \A X : Some(Pend, X) <=> m \in X \/ Some(ms, X)
            /\ \A X, Z : Final(Pend, X, Z) => Final(ms, X, Z) /\ (m \in Z => Every(ms, X))
        BY <3>4, <3>5, ConcatParts
      <3>7. m \in OtherMsgs <=> m.plmn # Own
        BY DEF OtherMsgs, Message, Own, Other
      <3>8. CASE m.plmn # Own
        <4>1. SameWork(q, p)
          BY <2>9, <3>2, <3>8, NoElement DEF SameWork
        <4>2. Lined(p, Pend) /\ Owes(p, Pend, owed) /\ (Idle(p, Pend) <=> Idle(q, Pend))
          BY <2>6, <4>1, Requeued
        <4>3. Lined(p, ms) /\ (Idle(p, ms) <=> Idle(p, Pend))
          BY <3>6, <3>7, <3>8, <4>2 DEF Lined, Idle
        <4>4. Owes(p, ms, owed)
          <5>1. \A x : m \notin AsMessage(x)
            BY <3>7, <3>8, OtherIsNotOwn
          <5> QED
            BY <3>6, <4>2, <5>1 DEF Owes
        <4> QED
          BY <2>6, <4>2, <4>3, <4>4 DEF Held, p
      <3>9. CASE m.plmn = Own
        <4>1. ~Every(Pend, OtherMsgs) /\ ~Idle(q, Pend)
          BY <3>6, <3>7, <3>9 DEF Idle
        <4>2. ~Some(q, LastGrants)
          BY <2>6, <4>1 DEF Lined
        <4>3. Lined(p, ms)
          BY <2>6, <2>9, <3>2, <3>6, <4>2 DEF Lined
        <4>4. Held(sim, pause, events, p, ms)
          BY <2>6, <4>1 DEF Held
        <4>5. Owes(p, ms, owed)
          <5> SUFFICES ASSUME NEW x \in owed PROVE Some(p, Covering(x)) \/ Some(ms, AsMessage(x))
            BY DEF Owes
          <5>1. CASE Some(q, Covering(x)) \/ Some(ms, AsMessage(x))
            BY <2>9, <5>1
          <5>2. CASE m \in AsMessage(x)
            <6>1. x = <<m.round, m.part>>
              BY <5>2 DEF AsMessage
            <6>3. Some(E, Covering(x))
              BY <3>2, <3>9, <6>1
            <6> QED
              BY <2>9, <6>3
          <5> QED
            BY <2>6, <3>6, <5>1, <5>2 DEF Owes
        <4> QED
          BY <4>3, <4>4, <4>5 DEF p
      <3> QED
        BY <3>8, <3>9
    <2> QED
      BY <2>10, <2>11
  <1> QED
    BY <1>1, <1>6, <1>7, <1>8 DEF IInv

----------------------------------------------------------------------------
(* The theorems                                                            *)

\* The invariant is kept by every step.
LEMMA NextInv == IInv /\ [Next]_vars => IInv'
  <1> SUFFICES ASSUME IInv, [Next]_vars PROVE IInv'
    OBVIOUS
  <1>1. CASE Report
    BY <1>1, ReportInv
  <1>2. CASE ReportEnds
    BY <1>2, ReportEndsInv
  <1>3. CASE PauseSimulation
    BY <1>3, PauseSimulationInv
  <1>4. CASE SendSchedulerDataToTrace
    BY <1>4, SendSchedulerInv
  <1>5. CASE Advance
    BY <1>5, AdvanceInv
  <1>6. CASE ScheduleWithContext
    BY <1>6, ScheduleInv
  <1>7. ASSUME NEW n \in 1..Len(stream), Receive(n) PROVE IInv'
    BY <1>7, ReceiveInv
  <1>8. CASE OtherPlmn
    BY <1>8, OtherInv
  <1>9. CASE UNCHANGED vars
    <2>1. Framed' /\ InOrder' /\ Pend' = Pend
      BY <1>9, StreamSame DEF vars
    <2>2. UNCHANGED <<sim, round, pause, events, withContext, out, owed, decoded, apart>>
      BY <1>9 DEF vars
    <2>3. Modes'
      BY <2>2 DEF IInv, Modes
    <2>4. Queue(events', withContext', out') = Queue(events, withContext, out)
      BY <2>2
    <2>5. Waiting => Waiting'
      BY <2>1, <2>2, <2>4 DEF Waiting
    <2> QED
      BY <2>1, <2>2, <2>3, <2>5 DEF IInv
  <1> QED
    BY <1>1, <1>2, <1>3, <1>4, <1>5, <1>6, <1>7, <1>8, <1>9 DEF Next, SimThread, E2Thread

\* The inductive invariant of the stream and of the pause holds throughout.
THEOREM Invariance == Spec => []IInv
  BY InitInv, NextInv, PTL DEF Spec

\* However the E2 thread receives the stream, cut at any octet, and whatever
\* messages for other simulations come in between, the messages for this one are
\* put together again by RicControlMessage: none is missing and number n is the
\* one that the xApp sent as number n.
THEOREM StreamIsReassembled == Spec => []Reassembled
  <1>1. IInv => Reassembled
    BY DEF IInv, InOrder, Ranked, OwnTo, Pend, Reassembled
  <1> QED
    BY <1>1, Invariance, PTL

\* As long as no PDU completes two messages, PauseSimulation holds the
\* simulation until every message of the answer has been applied.
THEOREM WaitsForSchedule == Spec => []MovesOnWithSchedule
  <1>1. IInv => MovesOnWithSchedule
    <2> SUFFICES ASSUME IInv, apart, sim = "running", events = <<>> PROVE owed = {}
      BY DEF MovesOnWithSchedule, ScheduleIsThere
    <2>1. Waiting
      BY DEF IInv, Modes
    <2>2. ~Some(events, Pauses)
      BY NoElement
    <2>3. Idle(Queue(events, withContext, out), Pend)
      BY <2>1, <2>2 DEF Waiting, Held
    <2> QED
      BY <2>1, <2>3, IdleOwesNothing DEF Waiting
  <1> QED
    BY <1>1, Invariance, PTL

\* Under the same condition only the last report for this simulation ends the
\* pause: messages for another PLMN never do.
THEOREM OwnAnswerResumes == Spec => []ResumedByOwnAnswer
  <1>1. IInv => ResumedByOwnAnswer
    <2> SUFFICES ASSUME IInv, apart, sim = "running", ~pause, round > 0
                 PROVE  \E i \in DOMAIN decoded : decoded[i] = LastMessage(round)
      BY DEF ResumedByOwnAnswer, ReportIsOwn, LastMessage
    <2>1. Waiting /\ decoded \in Seq(Message) /\ Pend \in Seq(Message)
      BY DEF IInv, Modes, Framed
    <2>2. Idle(Queue(events, withContext, out), Pend)
      BY <2>1 DEF Waiting, Held
    <2>3. ~Some(Pend, {LastMessage(round)})
      BY <2>2, IdleOwesNothing
    <2>4. Some(decoded \o Pend, {LastMessage(round)})
      BY <2>1 DEF Waiting
    <2>5. Some(decoded, {LastMessage(round)})
      BY <2>1, <2>3, <2>4, ConcatParts
    <2> QED
      BY <2>5 DEF Some
  <1> QED
    BY <1>1, Invariance, PTL

=============================================================================
