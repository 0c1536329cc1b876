--------------------------- MODULE NrSlSensingProofs ---------------------------
(***************************************************************************)
(* Proofs about NrSlSensing, for any senders and what they announce, any    *)
(* pool, windows, periods, thresholds and number of sub-channels.           *)
(***************************************************************************)
EXTENDS NrSlSensing, FiniteSetTheorems, SequenceTheorems, TLAPS

----------------------------------------------------------------------------
(* Numbers                                                                 *)

\* A set of naturals that is not empty has a least element.
LEMMA Least ==
    ASSUME NEW T, T \subseteq Nat, T # {}
    PROVE  \E x \in T : \A y \in T : x <= y
  <1> DEFINE R == OpToRel(<, Nat)
  <1>1. \A a, b \in Nat : a < b => <<a, b>> \in R
    BY DEF OpToRel
  <1>2. IsWellFoundedOn(R, Nat)
    BY NatLessThanWellFounded
  <1> HIDE DEF R
  <1>3. PICK x \in T : \A y \in T : ~ (<<y, x>> \in R)
    BY <1>2, WFMin
  <1>4. \A y \in T : ~ (y < x)
    BY <1>1, <1>3
  <1>5. \A y \in T : x \in Int /\ y \in Int
    OBVIOUS
  <1>6. \A y \in T : x <= y
    BY <1>4, <1>5
  <1> QED
    BY <1>6

\* Induction over the natural numbers, as a property of sets.
LEMMA SetInduction ==
    ASSUME NEW S, 0 \in S, \A n \in Nat : n \in S => n + 1 \in S
    PROVE  Nat \subseteq S
  <1> DEFINE T == {n \in Nat : n \notin S}
  <1> SUFFICES ASSUME T # {} PROVE FALSE
    OBVIOUS
  <1>1. PICK x \in T : \A y \in T : x <= y
    BY Least
  <1>2. x # 0 /\ x - 1 \in Nat /\ x - 1 \notin T
    BY <1>1
  <1> QED
    BY <1>2

\* Min is the least element.
LEMMA MinIs ==
    ASSUME NEW T, T \subseteq Nat, T # {}
    PROVE  Min(T) \in T /\ \A y \in T : Min(T) <= y
  <1>1. \E x \in T : \A y \in T : x <= y
    BY Least
  <1> QED
    BY <1>1 DEF Min

\* Max is the greatest element of a set that has a bound.
LEMMA MaxIs ==
    ASSUME NEW T, T \subseteq Nat, T # {}, NEW b \in Nat, \A y \in T : y <= b
    PROVE  Max(T) \in T /\ \A y \in T : y <= Max(T)
  <1> DEFINE U == {x \in Nat : \A y \in T : y <= x}
  <1>1. U # {} /\ U \subseteq Nat
    OBVIOUS
  <1>2. PICK m \in U : \A x \in U : m <= x
    BY <1>1, Least
  <1>3. m \in T
    <2> SUFFICES ASSUME m \notin T PROVE FALSE
      OBVIOUS
    <2>1. \A y \in T : y \in Nat /\ y < m
      OBVIOUS
    <2>2. m \in Nat /\ m # 0
      <3>1. PICK y \in T : TRUE
        OBVIOUS
      <3>2. y \in Nat /\ y < m /\ m \in Nat
        BY <2>1
      <3> QED
        BY <3>2
    <2>3. m - 1 \in Nat /\ \A y \in T : y <= m - 1
      BY <2>1, <2>2
    <2>4. m - 1 \in U
      BY <2>3
    <2> QED
      BY <1>2, <2>2, <2>4
  <1>4. \E x \in T : \A y \in T : x >= y
    BY <1>3
  <1>5. Max(T) \in T /\ \A y \in T : Max(T) >= y
    BY <1>4 DEF Max
  <1> QED
    BY <1>5

----------------------------------------------------------------------------
(* Sub-channels                                                            *)

\* The scheduler always finds a sub-channel in a slot.
LEMMA AvailIs ==
    ASSUME NEW occ
    PROVE  Avail(occ) \subseteq SbCh /\ Avail(occ) # {} /\ SbCh # {}
  <1>1. 0 \in SbCh
    BY TotalSubChAssumption DEF SbCh
  <1> QED
    BY <1>1 DEF Avail

\* The longest run is a run.
LEMMA LongestRunIs ==
    ASSUME NEW av, av \subseteq SbCh, av # {}
    PROVE  /\ LongestRun(av) \in 1..TotalSubCh
           /\ \E s \in av : Span(s, LongestRun(av)) \subseteq av
  <1> DEFINE T == {len \in 1..TotalSubCh : \E s \in av : Span(s, len) \subseteq av}
  <1>1. PICK s \in av : TRUE
    OBVIOUS
  <1>2. s \in Int /\ TotalSubCh \in Nat /\ TotalSubCh >= 1
    BY TotalSubChAssumption DEF SbCh
  <1>3. Span(s, 1) = {s}
    BY <1>2 DEF Span
  <1>4. 1 \in T
    BY <1>2, <1>3
  <1>5. T \subseteq Nat /\ \A y \in T : y <= TotalSubCh
    BY <1>2
  <1> HIDE DEF T
  <1>6. Max(T) \in T
    BY <1>2, <1>4, <1>5, MaxIs
  <1>7. LongestRun(av) = Max(T)
    BY DEF LongestRun, T
  <1> QED
    BY <1>6, <1>7 DEF T

\* A shorter run begins where a longer one does.
LEMMA ShorterSpan ==
    ASSUME NEW s \in Int, NEW m \in Nat, NEW len \in Nat, len <= m
    PROVE  Span(s, len) \subseteq Span(s, m)
  BY DEF Span

\* GetAvailSbChInfo returns no more than any of the slots offers.
LEMMA AvailSbChInfoIs ==
    ASSUME NEW slots, NEW sel
    PROVE  LET num == GetAvailSbChInfo(Selected(slots, sel)) IN
           /\ num \in 1..TotalSubCh
           /\ \A s \in sel : num <= LongestRun(Avail(slots[s]))
  <1> DEFINE c == Selected(slots, sel)
             T == {TotalSubCh} \cup {LongestRun(Avail(c[s])) : s \in DOMAIN c}
  <1>1. DOMAIN c = sel /\ \A s \in sel : c[s] = slots[s]
    BY DEF Selected
  <1>2. \A s \in sel : LongestRun(Avail(c[s])) \in 1..TotalSubCh
    BY AvailIs, LongestRunIs
  <1>3. TotalSubCh \in 1..TotalSubCh /\ 1..TotalSubCh \subseteq Nat
    BY TotalSubChAssumption
  <1> HIDE DEF c
  <1>4. T \subseteq 1..TotalSubCh /\ T # {}
    BY <1>1, <1>2, <1>3
  <1>5. \A s \in sel : LongestRun(Avail(c[s])) \in T
    BY <1>1
  <1>6. GetAvailSbChInfo(c) = Min(T)
    BY DEF GetAvailSbChInfo
  <1> HIDE DEF T
  <1>7. Min(T) \in T /\ \A y \in T : Min(T) <= y
    BY <1>3, <1>4, MinIs
  <1>8. \A s \in sel : Min(T) <= LongestRun(Avail(slots[s]))
    BY <1>1, <1>5, <1>7
  <1> QED
    BY <1>4, <1>6, <1>7, <1>8 DEF c

\* RandSelSbChStart has a start to find in every selected slot.
LEMMA StartExists ==
    ASSUME NEW slots, NEW sel, NEW s \in sel,
           NEW len \in 1..GetAvailSbChInfo(Selected(slots, sel))
    PROVE  RandSelSbChStart(slots[s], GetAvailSbChInfo(Selected(slots, sel)), len) # {}
  <1>1. PICK num \in 1..TotalSubCh : num = GetAvailSbChInfo(Selected(slots, sel))
    BY AvailSbChInfoIs
  <1>2. num <= LongestRun(Avail(slots[s])) /\ len \in 1..num
    BY <1>1, AvailSbChInfoIs
  <1>3. PICK av : av = Avail(slots[s])
    OBVIOUS
  <1>4. av \subseteq SbCh /\ av # {} /\ SbCh # {}
    BY <1>3, AvailIs
  <1>5. PICK m \in 1..TotalSubCh : m = LongestRun(av) /\ \E t \in av : Span(t, m) \subseteq av
    BY <1>4, LongestRunIs
  <1>6. PICK t \in av : Span(t, m) \subseteq av
    BY <1>5
  <1>7. num <= m
    BY <1>2, <1>3, <1>5
  <1>8. m \in Nat /\ len \in Nat /\ len <= m /\ t \in Int
    BY <1>2, <1>4, <1>6, <1>7, TotalSubChAssumption DEF SbCh
  <1>9. Span(t, len) \subseteq av
    BY <1>6, <1>8, ShorterSpan
  <1>10. RandSelSbChStart(slots[s], num, len) # {}
    BY <1>3, <1>4, <1>6, <1>9 DEF RandSelSbChStart
  <1> QED
    BY <1>1, <1>10

----------------------------------------------------------------------------
(* The list of sensing data                                                *)

\* The walk of AtPositions over the first n positions.
Collects(s, I, f, n) ==
    f = [j \in 0..n |-> IF j = 0 THEN << >>
                        ELSE IF j \in I THEN Append(f[j - 1], s[j]) ELSE f[j - 1]]

\* The walk is defined for any length.
LEMMA CollectsExists ==
    ASSUME NEW s, NEW I, NEW m \in Nat
    PROVE  \E f : Collects(s, I, f, m)
  <1> DEFINE T == {n \in Nat : \E f : Collects(s, I, f, n)}
  <1>1. 0 \in T
    <2> DEFINE f == [j \in 0..0 |-> << >>]
    <2>1. \A j \in 0..0 : j = 0
      OBVIOUS
    <2>2. Collects(s, I, f, 0)
      BY <2>1 DEF Collects
    <2> QED
      BY <2>2
  <1>2. ASSUME NEW n \in Nat, n \in T PROVE n + 1 \in T
    <2>1. PICK f : Collects(s, I, f, n)
      BY <1>2
    <2> DEFINE E(h, j) == IF j = 0 THEN << >>
                          ELSE IF j \in I THEN Append(h[j - 1], s[j]) ELSE h[j - 1]
               g == [j \in 0..(n + 1) |-> E(f, j)]
    <2>2. \A j \in 0..n : f[j] = E(f, j)
      BY <2>1 DEF Collects
    <2>3. \A j \in 0..n : g[j] = f[j]
      BY <2>2
    <2>4. \A j \in 0..(n + 1) : j = 0 \/ j - 1 \in 0..n
      OBVIOUS
    <2>5. \A j \in 0..(n + 1) : E(g, j) = E(f, j)
      <3> TAKE j \in 0..(n + 1)
      <3>1. j = 0 \/ g[j - 1] = f[j - 1]
        BY <2>3, <2>4
      <3> HIDE DEF g
      <3> QED
        BY <3>1
    <2>6. g = [j \in 0..(n + 1) |-> E(g, j)]
      BY <2>5
    <2>7. Collects(s, I, g, n + 1)
      BY <2>6 DEF Collects
    <2> QED
      BY <2>7
  <1> HIDE DEF T
  <1>3. Nat \subseteq T
    BY <1>1, <1>2, SetInduction
  <1> QED
    BY <1>3 DEF T

\* So it gives the sequence that is returned.
LEMMA Collected ==
    ASSUME NEW s, NEW I, Len(s) \in Nat
    PROVE  \E f : Collects(s, I, f, Len(s)) /\ AtPositions(s, I) = f[Len(s)]
  <1> DEFINE f == CHOOSE h : Collects(s, I, h, Len(s))
  <1>1. Collects(s, I, f, Len(s))
    BY CollectsExists
  <1>2. AtPositions(s, I) = f[Len(s)]
    BY DEF AtPositions, Collects
  <1> QED
    BY <1>1, <1>2

\* What the walk has collected after n positions.
Collection(S, s, I, c, n) ==
    /\ c \in Seq(S)
    /\ \A i \in 1..n : i \in I => \E p \in 1..Len(c) : c[p] = s[i]
    /\ \A p \in 1..Len(c) : \E i \in 1..n : i \in I /\ c[p] = s[i]
    /\ \A p, q \in 1..Len(c) : p <= q =>
          \E i, j \in 1..n : i <= j /\ c[p] = s[i] /\ c[q] = s[j]
    /\ Len(c) <= n
    /\ n >= 1 /\ 1 \notin I => Len(c) <= n - 1

LEMMA CollectionMore ==
    ASSUME NEW S, NEW s \in Seq(S), NEW I, NEW c, NEW n \in Nat, n + 1 <= Len(s),
           Collection(S, s, I, c, n), n + 1 \in I
    PROVE  Collection(S, s, I, Append(c, s[n + 1]), n + 1)
  <1>1. c \in Seq(S) /\ Len(c) \in Nat /\ s[n + 1] \in S
    BY DEF Collection
  <1>2. PICK x \in S : x = s[n + 1]
    BY <1>1
  <1>3. PICK d : d = Append(c, x)
    OBVIOUS
  <1>4. d \in Seq(S) /\ Len(d) = Len(c) + 1 /\ d[Len(c) + 1] = x
        /\ \A p \in 1..Len(c) : d[p] = c[p]
    BY <1>1, <1>3
  <1>5. ASSUME NEW i \in 1..(n + 1), i \in I PROVE \E p \in 1..Len(d) : d[p] = s[i]
    <2>1. CASE i \in 1..n
      <3>1. PICK p \in 1..Len(c) : c[p] = s[i]
        BY <1>5, <2>1 DEF Collection
      <3>2. p \in 1..Len(d)
        BY <1>1, <1>4
      <3> QED
        BY <1>4, <3>1, <3>2
    <2>2. CASE i = n + 1
      <3>1. Len(c) + 1 \in 1..Len(d)
        BY <1>1, <1>4
      <3> QED
        BY <1>2, <1>4, <2>2, <3>1
    <2>3. i \in 1..n \/ i = n + 1
      OBVIOUS
    <2> QED
      BY <2>1, <2>2, <2>3
  <1>6. ASSUME NEW p \in 1..Len(d) PROVE \E i \in 1..(n + 1) : i \in I /\ d[p] = s[i]
    <2>1. CASE p \in 1..Len(c)
      <3>1. PICK i \in 1..n : i \in I /\ c[p] = s[i]
        BY <2>1 DEF Collection
      <3>2. i \in 1..(n + 1)
        OBVIOUS
      <3> QED
        BY <1>4, <2>1, <3>1, <3>2
    <2>2. CASE p = Len(c) + 1
      <3>1. n + 1 \in 1..(n + 1)
        OBVIOUS
      <3> QED
        BY <1>2, <1>4, <2>2, <3>1
    <2>3. p \in 1..Len(c) \/ p = Len(c) + 1
      BY <1>1, <1>4
    <2> QED
      BY <2>1, <2>2, <2>3
  <1>7. Len(d) <= n + 1 /\ (1 \notin I => Len(d) <= (n + 1) - 1)
    <2>1. Len(c) <= n /\ (n >= 1 /\ 1 \notin I => Len(c) <= n - 1)
      BY DEF Collection
    <2>2. Len(d) <= n + 1
      BY <1>1, <1>4, <2>1
    <2>3. ASSUME 1 \notin I PROVE Len(d) <= (n + 1) - 1
      <3>1. n # 0
        BY <2>3
      <3>2. Len(c) <= n - 1
        BY <2>1, <2>3, <3>1
      <3> QED
        BY <1>1, <1>4, <3>2
    <2> QED
      BY <2>2, <2>3
  <1>9. ASSUME NEW p \in 1..Len(d), NEW q \in 1..Len(d), p <= q
        PROVE  \E i, j \in 1..(n + 1) : i <= j /\ d[p] = s[i] /\ d[q] = s[j]
    <2>1. CASE q \in 1..Len(c)
      <3>1. p \in 1..Len(c)
        BY <1>1, <1>9, <2>1
      <3>2. PICK i \in 1..n, j \in 1..n : i <= j /\ c[p] = s[i] /\ c[q] = s[j]
        BY <1>9, <2>1, <3>1 DEF Collection
      <3>3. i \in 1..(n + 1) /\ j \in 1..(n + 1)
        OBVIOUS
      <3> QED
        BY <1>4, <2>1, <3>1, <3>2, <3>3
    <2>2. CASE q = Len(c) + 1
      <3>1. PICK i \in 1..(n + 1) : d[p] = s[i]
        BY <1>6
      <3>2. n + 1 \in 1..(n + 1) /\ i <= n + 1 /\ d[q] = s[n + 1]
        BY <1>2, <1>4, <2>2
      <3> QED
        BY <3>1, <3>2
    <2>3. q \in 1..Len(c) \/ q = Len(c) + 1
      BY <1>1, <1>4
    <2> QED
      BY <2>1, <2>2, <2>3
  <1>8. Collection(S, s, I, d, n + 1)
    BY <1>4, <1>5, <1>6, <1>7, <1>9 DEF Collection
  <1> QED
    BY <1>2, <1>3, <1>8

LEMMA CollectionSame ==
    ASSUME NEW S, NEW s \in Seq(S), NEW I, NEW c, NEW n \in Nat,
           Collection(S, s, I, c, n), n + 1 \notin I
    PROVE  Collection(S, s, I, c, n + 1)
  <1>1. c \in Seq(S) /\ Len(c) \in Nat /\ Len(c) <= n
    BY DEF Collection
  <1>2. ASSUME NEW i \in 1..(n + 1), i \in I PROVE \E p \in 1..Len(c) : c[p] = s[i]
    <2>1. i \in 1..n
      <3>1. i # n + 1
        BY <1>2
      <3> QED
        BY <3>1
    <2> QED
      BY <1>2, <2>1 DEF Collection
  <1>3. ASSUME NEW p \in 1..Len(c) PROVE \E i \in 1..(n + 1) : i \in I /\ c[p] = s[i]
    <2>1. PICK i \in 1..n : i \in I /\ c[p] = s[i]
      BY DEF Collection
    <2>2. i \in 1..(n + 1)
      OBVIOUS
    <2> QED
      BY <2>1, <2>2
  <1>4. Len(c) <= n + 1 /\ Len(c) <= (n + 1) - 1
    BY <1>1
  <1>5. ASSUME NEW p \in 1..Len(c), NEW q \in 1..Len(c), p <= q
        PROVE  \E i, j \in 1..(n + 1) : i <= j /\ c[p] = s[i] /\ c[q] = s[j]
    <2>1. PICK i \in 1..n, j \in 1..n : i <= j /\ c[p] = s[i] /\ c[q] = s[j]
      BY <1>5 DEF Collection
    <2>2. i \in 1..(n + 1) /\ j \in 1..(n + 1)
      OBVIOUS
    <2> QED
      BY <2>1, <2>2
  <1> QED
    BY <1>1, <1>2, <1>3, <1>4, <1>5 DEF Collection

\* AtPositions returns the entries at the given positions and no others.
LEMMA AtPositionsIs ==
    ASSUME NEW S, NEW s \in Seq(S), NEW I
    PROVE  Collection(S, s, I, AtPositions(s, I), Len(s))
  <1>1. Len(s) \in Nat
    OBVIOUS
  <1>2. PICK f : Collects(s, I, f, Len(s)) /\ AtPositions(s, I) = f[Len(s)]
    BY <1>1, Collected
  <1> DEFINE T == {n \in Nat : n <= Len(s) => Collection(S, s, I, f[n], n)}
  <1>3. f[0] = << >>
    BY <1>1, <1>2 DEF Collects
  <1>4. \A j \in 0..Len(s) : j # 0 => f[j] = IF j \in I THEN Append(f[j - 1], s[j]) ELSE f[j - 1]
    BY <1>2 DEF Collects
  <1>5. 0 \in T
    <2>1. Len(<< >>) = 0 /\ << >> \in Seq(S)
      OBVIOUS
    <2>2. 1..0 = {} /\ 0 <= 0 /\ ~(0 >= 1)
      OBVIOUS
    <2>3. Collection(S, s, I, << >>, 0)
      BY <2>1, <2>2 DEF Collection
    <2> QED
      BY <1>3, <2>3
  <1>6. ASSUME NEW n \in Nat, n \in T PROVE n + 1 \in T
    <2> SUFFICES ASSUME n + 1 <= Len(s) PROVE Collection(S, s, I, f[n + 1], n + 1)
      OBVIOUS
    <2>1. n + 1 \in 0..Len(s) /\ n + 1 # 0 /\ (n + 1) - 1 = n /\ n <= Len(s)
      BY <1>1
    <2>2. f[n + 1] = IF n + 1 \in I THEN Append(f[n], s[n + 1]) ELSE f[n]
      BY <1>4, <2>1
    <2>3. Collection(S, s, I, f[n], n)
      BY <1>6, <2>1
    <2>4. CASE n + 1 \in I
      BY <2>2, <2>3, <2>4, CollectionMore
    <2>5. CASE n + 1 \notin I
      BY <2>2, <2>3, <2>5, CollectionSame
    <2> QED
      BY <2>4, <2>5
  <1> HIDE DEF T
  <1>7. Len(s) \in T
    BY <1>1, <1>5, <1>6, SetInduction
  <1> QED
    BY <1>1, <1>2, <1>7 DEF T

----------------------------------------------------------------------------
(* UpdateSensingWindow                                                     *)

\* What a function on lists of entries keeps: the order, and what is not outdated.
Sorted(s) == \A i, j \in DOMAIN s : i <= j => s[i].at <= s[j].at
Keeps(s, c, n) ==
    /\ c \in Seq(Entry)
    /\ ToSet(c) \subseteq ToSet(s)
    /\ \A e \in ToSet(s) : ~Outdated(e, n) => e \in ToSet(c)
    /\ Sorted(s) => Sorted(c)

\* Some entries of a list in their order.
LEMMA CollectionKeeps ==
    ASSUME NEW s \in Seq(Entry), NEW I, NEW n,
           \A i \in 1..Len(s) : ~Outdated(s[i], n) => i \in I
    PROVE  Keeps(s, AtPositions(s, I), n)
  <1>1. PICK c : c = AtPositions(s, I)
    OBVIOUS
  <1>2. Collection(Entry, s, I, c, Len(s))
    BY <1>1, AtPositionsIs
  <1>3. c \in Seq(Entry) /\ Len(c) \in Nat /\ DOMAIN c = 1..Len(c) /\ DOMAIN s = 1..Len(s)
    BY <1>2 DEF Collection
  <1>4. ASSUME NEW e \in ToSet(c) PROVE e \in ToSet(s)
    <2>1. PICK p \in 1..Len(c) : e = c[p]
      BY <1>3 DEF ToSet
    <2>2. PICK i \in 1..Len(s) : c[p] = s[i]
      BY <1>2 DEF Collection
    <2> QED
      BY <1>3, <2>1, <2>2 DEF ToSet
  <1>5. ASSUME NEW e \in ToSet(s), ~Outdated(e, n) PROVE e \in ToSet(c)
    <2>1. PICK i \in 1..Len(s) : e = s[i]
      BY <1>3 DEF ToSet
    <2>2. i \in I
      BY <1>5, <2>1
    <2>3. PICK p \in 1..Len(c) : c[p] = s[i]
      BY <1>2, <2>2 DEF Collection
    <2> QED
      BY <1>3, <2>1, <2>3 DEF ToSet
  <1>6. ASSUME Sorted(s) PROVE Sorted(c)
    <2> SUFFICES ASSUME NEW p \in 1..Len(c), NEW q \in 1..Len(c), p <= q
                 PROVE  c[p].at <= c[q].at
      BY <1>3 DEF Sorted
    <2>1. PICK i \in 1..Len(s), j \in 1..Len(s) : i <= j /\ c[p] = s[i] /\ c[q] = s[j]
      BY <1>2 DEF Collection
    <2>2. s[i].at <= s[j].at
      BY <1>3, <1>6, <2>1 DEF Sorted
    <2> QED
      BY <2>1, <2>2
  <1> QED
    BY <1>1, <1>3, <1>4, <1>5, <1>6 DEF Keeps

\* One pass over the list erases outdated entries only.
LEMMA PassKeeps ==
    ASSUME NEW s \in Seq(Entry), NEW n
    PROVE  Keeps(s, Pass(s, n), n)
  <1> DEFINE I == {i \in DOMAIN s : i \notin Seen(s) \/ \E j \in InWindowAt(s, n) : j <= i}
  <1>1. ASSUME NEW i \in 1..Len(s), ~Outdated(s[i], n) PROVE i \in I
    <2>1. i \in DOMAIN s /\ i <= i
      OBVIOUS
    <2>2. CASE i \in Seen(s)
      <3>1. i \in InWindowAt(s, n)
        BY <1>1, <2>2 DEF InWindowAt
      <3> QED
        BY <2>1, <3>1
    <2> QED
      BY <2>1, <2>2
  <1>2. Pass(s, n) = AtPositions(s, I)
    BY DEF Pass
  <1> HIDE DEF I
  <1> QED
    BY <1>1, <1>2, CollectionKeeps

\* The loop goes round again with fewer entries only.
Round(s, n) == InWindowAt(s, n) = {} /\ Len(s) % 2 = 1
LEMMA RoundIsShorter ==
    ASSUME NEW s \in Seq(Entry), NEW n, Round(s, n)
    PROVE  Pass(s, n) \in Seq(Entry) /\ Len(Pass(s, n)) + 1 <= Len(s)
  <1> DEFINE I == {i \in DOMAIN s : i \notin Seen(s) \/ \E j \in InWindowAt(s, n) : j <= i}
  <1>1. Len(s) \in Nat /\ Len(s) >= 1
    BY DEF Round
  <1>2. 1 \in Seen(s)
    <2>1. 1 \in DOMAIN s /\ 1 % 2 = 1
      BY <1>1
    <2> QED
      BY <2>1 DEF Seen
  <1>3. 1 \notin I
    BY <1>2 DEF Round
  <1>4. Pass(s, n) = AtPositions(s, I)
    BY DEF Pass
  <1> HIDE DEF I
  <1>5. PICK c : c = Pass(s, n)
    OBVIOUS
  <1>6. Collection(Entry, s, I, c, Len(s))
    BY <1>4, <1>5, AtPositionsIs
  <1>7. c \in Seq(Entry) /\ Len(c) \in Nat /\ Len(c) <= Len(s) - 1
    BY <1>1, <1>3, <1>6 DEF Collection
  <1>8. c \in Seq(Entry) /\ Len(c) + 1 <= Len(s)
    BY <1>1, <1>7
  <1> QED
    BY <1>5, <1>8

\* The recursion, and the loop for lists of up to m entries.
Step(f, s, n) == IF Round(s, n) THEN f[Pass(s, n)] ELSE Pass(s, n)
UpTo(m) == {s \in Seq(Entry) : Len(s) <= m}
Erases(f, m, n) == f = [s \in UpTo(m) |-> Step(f, s, n)]

\* There is a loop for lists of any length.
LEMMA ErasesExists ==
    ASSUME NEW n
    PROVE  \A m \in Nat : \E f : Erases(f, m, n)
  <1> DEFINE T == {m \in Nat : \E f : Erases(f, m, n)}
  <1>1. 0 \in T
    <2> DEFINE f == [s \in UpTo(0) |-> Pass(s, n)]
    <2>1. \A s \in UpTo(0) : ~Round(s, n)
      BY DEF UpTo, Round
    <2>2. \A s \in UpTo(0) : Step(f, s, n) = Pass(s, n)
      BY <2>1 DEF Step
    <2>3. Erases(f, 0, n)
      BY <2>2 DEF Erases
    <2> QED
      BY <2>3
  <1>2. ASSUME NEW m \in Nat, m \in T PROVE m + 1 \in T
    <2>1. PICK f : Erases(f, m, n)
      BY <1>2
    <2> DEFINE g == [s \in UpTo(m + 1) |-> Step(f, s, n)]
    <2>2. ASSUME NEW s \in UpTo(m + 1) PROVE Step(g, s, n) = Step(f, s, n)
      <3>1. CASE Round(s, n)
        <4>1. s \in Seq(Entry) /\ Len(s) <= m + 1 /\ Len(s) \in Nat
          BY DEF UpTo
        <4>2. PICK r : r = Pass(s, n)
          OBVIOUS
        <4>3. r \in Seq(Entry) /\ Len(r) \in Nat /\ Len(r) <= m /\ Len(r) <= m + 1
          BY <3>1, <4>1, <4>2, RoundIsShorter
        <4>4. r \in UpTo(m) /\ r \in UpTo(m + 1)
          BY <4>3 DEF UpTo
        <4>5. g[r] = Step(f, r, n)
          BY <4>4
        <4>6. f[r] = Step(f, r, n)
          BY <2>1, <4>4 DEF Erases
        <4> HIDE DEF g
        <4> QED
          BY <3>1, <4>2, <4>5, <4>6 DEF Step
      <3>2. CASE ~Round(s, n)
        BY <3>2 DEF Step
      <3> QED
        BY <3>1, <3>2
    <2>3. Erases(g, m + 1, n)
      <3>1. \A s \in UpTo(m + 1) : Step(g, s, n) = Step(f, s, n)
        BY <2>2
      <3>2. [s \in UpTo(m + 1) |-> Step(g, s, n)] = [s \in UpTo(m + 1) |-> Step(f, s, n)]
        BY <3>1
      <3> QED
        BY <3>2 DEF Erases
    <2> QED
      BY <2>3
  <1> HIDE DEF T
  <1>3. Nat \subseteq T
    BY <1>1, <1>2, SetInduction
  <1> QED
    BY <1>3 DEF T

\* Loops agree on the lists that both take.
LEMMA ErasesUnique ==
    ASSUME NEW n, NEW k \in Nat, NEW m \in Nat, k <= m, NEW f, NEW g,
           Erases(f, k, n), Erases(g, m, n)
    PROVE  \A s \in UpTo(k) : f[s] = g[s]
  <1> DEFINE T == {i \in Nat : \A s \in UpTo(k) : Len(s) <= i => f[s] = g[s]}
  <1>1. \A s \in UpTo(k) : /\ s \in UpTo(m) /\ s \in Seq(Entry)
                           /\ f[s] = Step(f, s, n) /\ g[s] = Step(g, s, n)
    <2> TAKE s \in UpTo(k)
    <2>1. s \in Seq(Entry) /\ Len(s) \in Nat /\ Len(s) <= k
      BY DEF UpTo
    <2>2. s \in UpTo(m)
      BY <2>1 DEF UpTo
    <2> QED
      BY <2>1, <2>2 DEF Erases
  <1>2. 0 \in T
    <2> SUFFICES ASSUME NEW s \in UpTo(k), Len(s) <= 0 PROVE f[s] = g[s]
      OBVIOUS
    <2>1. ~Round(s, n)
      BY DEF UpTo, Round
    <2> QED
      BY <1>1, <2>1 DEF Step
  <1>3. ASSUME NEW i \in Nat, i \in T PROVE i + 1 \in T
    <2> SUFFICES ASSUME NEW s \in UpTo(k), Len(s) <= i + 1 PROVE f[s] = g[s]
      OBVIOUS
    <2>1. CASE Round(s, n)
      <3>1. s \in Seq(Entry) /\ Len(s) <= k /\ Len(s) \in Nat
        BY DEF UpTo
      <3>2. PICK r : r = Pass(s, n)
        OBVIOUS
      <3>3. r \in Seq(Entry) /\ Len(r) \in Nat /\ Len(r) <= k /\ Len(r) <= i
        BY <2>1, <3>1, <3>2, RoundIsShorter
      <3>4. r \in UpTo(k)
        BY <3>3 DEF UpTo
      <3>5. f[r] = g[r]
        BY <1>3, <3>3, <3>4
      <3> QED
        BY <1>1, <2>1, <3>2, <3>5 DEF Step
    <2>2. CASE ~Round(s, n)
      BY <1>1, <2>2 DEF Step
    <2> QED
      BY <2>1, <2>2
  <1> HIDE DEF T
  <1>4. k \in T
    BY <1>2, <1>3, SetInduction
  <1> QED
    BY <1>4 DEF T, UpTo

\* The loop as UpdateSensingWindow writes it has a solution.
LEMMA EraseUnfolds ==
    ASSUME NEW n
    PROVE  \E h : /\ \A s \in Seq(Entry) : h[s] = Step(h, s, n)
                  /\ \A s \in Seq(Entry) : UpdateSensingWindow(s, n) = h[s]
  <1> DEFINE D(m) == CHOOSE f : Erases(f, m, n)
             F == [s \in Seq(Entry) |-> D(Len(s))[s]]
  <1>1. \A m \in Nat : Erases(D(m), m, n)
    BY ErasesExists
  <1> HIDE DEF D
  <1>2. ASSUME NEW s \in Seq(Entry) PROVE F[s] = Step(F, s, n)
    <2>1. Len(s) \in Nat /\ s \in UpTo(Len(s)) /\ F[s] = D(Len(s))[s]
      BY DEF UpTo
    <2>2. PICK f : f = D(Len(s))
      OBVIOUS
    <2>3. Erases(f, Len(s), n)
      BY <1>1, <2>1, <2>2
    <2>4. f[s] = Step(f, s, n)
      BY <2>1, <2>3 DEF Erases
    <2>5. CASE Round(s, n)
      <3>1. PICK r : r = Pass(s, n)
        OBVIOUS
      <3>2. r \in Seq(Entry) /\ Len(r) \in Nat /\ Len(r) <= Len(s)
        BY <2>1, <2>5, <3>1, RoundIsShorter
      <3>3. PICK g : g = D(Len(r))
        OBVIOUS
      <3>4. r \in UpTo(Len(r)) /\ Erases(g, Len(r), n) /\ F[r] = g[r]
        BY <1>1, <3>2, <3>3 DEF UpTo
      <3>5. g[r] = f[r]
        BY <2>1, <2>3, <3>2, <3>4, ErasesUnique
      <3>6. F[r] = f[r]
        BY <3>4, <3>5
      <3> HIDE DEF F
      <3> QED
        BY <2>1, <2>2, <2>4, <2>5, <3>1, <3>6 DEF Step
    <2>6. CASE ~Round(s, n)
      BY <2>1, <2>2, <2>4, <2>6 DEF Step
    <2> QED
      BY <2>5, <2>6
  <1> DEFINE G(h) == [s \in Seq(Entry) |-> Step(h, s, n)]
  <1>3. F = G(F)
    <2>1. \A s \in Seq(Entry) : F[s] = Step(F, s, n)
      BY <1>2
    <2>2. F = [s \in Seq(Entry) |-> F[s]]
      OBVIOUS
    <2> HIDE DEF F
    <2> QED
      BY <2>1, <2>2
  <1> HIDE DEF F
  <1> DEFINE E == CHOOSE h : h = G(h)
  <1>4. E = G(E)
    BY <1>3
  <1>5. \A s : UpdateSensingWindow(s, n) = E[s]
    BY DEF UpdateSensingWindow, Step, Round
  <1> HIDE DEF E
  <1>6. \A s \in Seq(Entry) : E[s] = Step(E, s, n)
    BY <1>4
  <1> QED
    BY <1>5, <1>6

\* UpdateSensingWindow erases outdated entries only and keeps the order.
LEMMA UpdateKeeps ==
    ASSUME NEW s \in Seq(Entry), NEW n
    PROVE  Keeps(s, UpdateSensingWindow(s, n), n)
  <1>1. PICK h : /\ \A t \in Seq(Entry) : h[t] = Step(h, t, n)
                 /\ \A t \in Seq(Entry) : UpdateSensingWindow(t, n) = h[t]
    BY EraseUnfolds
  <1> DEFINE T == {m \in Nat : \A t \in Seq(Entry) : Len(t) <= m => Keeps(t, h[t], n)}
  <1>2. 0 \in T
    <2> SUFFICES ASSUME NEW t \in Seq(Entry), Len(t) <= 0 PROVE Keeps(t, h[t], n)
      OBVIOUS
    <2>1. ~Round(t, n)
      BY DEF Round
    <2> QED
      BY <1>1, <2>1, PassKeeps DEF Step
  <1>3. ASSUME NEW m \in Nat, m \in T PROVE m + 1 \in T
    <2> SUFFICES ASSUME NEW t \in Seq(Entry), Len(t) <= m + 1 PROVE Keeps(t, h[t], n)
      OBVIOUS
    <2>1. CASE Round(t, n)
      <3>1. PICK r : r = Pass(t, n)
        OBVIOUS
      <3>2. r \in Seq(Entry) /\ Len(r) \in Nat /\ Len(t) \in Nat /\ Len(r) <= m
        BY <2>1, <3>1, RoundIsShorter
      <3>3. Keeps(r, h[r], n)
        BY <1>3, <3>2
      <3>4. Keeps(t, r, n)
        BY <3>1, PassKeeps
      <3>5. h[t] = h[r]
        BY <1>1, <2>1, <3>1 DEF Step
      <3>6. Keeps(t, h[r], n)
        BY <3>3, <3>4 DEF Keeps
      <3> QED
        BY <3>5, <3>6
    <2>2. CASE ~Round(t, n)
      BY <1>1, <2>2, PassKeeps DEF Step
    <2> QED
      BY <2>1, <2>2
  <1> HIDE DEF T
  <1>4. Len(s) \in T
    BY <1>2, <1>3, SetInduction
  <1>5. Keeps(s, h[s], n)
    BY <1>4 DEF T
  <1> QED
    BY <1>1, <1>5

----------------------------------------------------------------------------
(* Slot numbers that do not wrap around                                    *)

\* The run starts after the first sensing window and ends before the frame
\* number wraps, so that no difference of slot numbers wraps around.
NumbersDoNotWrap == SensWindLen <= FirstSlot /\ LastSlot < SlotMod

LEMMA Remainder ==
    ASSUME NEW m \in Nat \ {0}, NEW a \in Nat, a < m
    PROVE  a % m = a
  OBVIOUS

LEMMA NoWrap ==
    ASSUME NumbersDoNotWrap, NEW n \in FirstSlot..LastSlot,
           NEW a \in FirstSlot..LastSlot, a <= n
    PROVE  /\ Normalize(n) = n /\ Normalize(a) = a
           /\ Minus(n, SensWindLen) = n - SensWindLen
           /\ Minus(n, a) = n - a
  <1>1. /\ SlotMod \in Nat \ {0} /\ SensWindLen \in Nat /\ FirstSlot \in Nat /\ LastSlot \in Nat
        /\ SensWindLen <= FirstSlot /\ LastSlot < SlotMod
    BY SensingAssumption DEF NumbersDoNotWrap
  <1>2. n \in Nat /\ a \in Nat /\ n < SlotMod /\ a < SlotMod
    BY <1>1
  <1>3. n % SlotMod = n /\ a % SlotMod = a
    BY <1>1, <1>2, Remainder
  <1>4. PICK m \in Nat \ {0} : m = 4 * SlotMod
    BY <1>1
  <1>5. PICK x \in Nat, y \in Nat : x = n - SensWindLen /\ y = n - a /\ x < m /\ y < m
    BY <1>1, <1>2, <1>4
  <1>6. x % m = x /\ y % m = y
    BY <1>4, <1>5, Remainder
  <1>7. (n - SensWindLen) % (4 * SlotMod) = x /\ (n - a) % (4 * SlotMod) = y
    BY <1>4, <1>5, <1>6
  <1> QED
    BY <1>3, <1>5, <1>7 DEF Normalize, Minus

\* Only what is older than the sensing window looks outdated.
LEMMA OutdatedIs ==
    ASSUME NumbersDoNotWrap, NEW n \in FirstSlot..LastSlot, NEW e \in Entry,
           e.at <= n, n - e.at <= SensWindLen
    PROVE  ~Outdated(e, n)
  <1>1. e.at \in FirstSlot..LastSlot
    BY DEF Entry
  <1>2. Normalize(n) = n /\ Normalize(e.at) = e.at /\ Minus(n, SensWindLen) = n - SensWindLen
    BY <1>1, NoWrap
  <1>3. n \in Int /\ e.at \in Int /\ SensWindLen \in Int
    BY <1>1, SensingAssumption
  <1>4. ~(e.at < n - SensWindLen)
    BY <1>3
  <1> QED
    BY <1>2, <1>4 DEF Outdated

\* What is older than Tproc0 is looked at.
LEMMA InTrimmed ==
    ASSUME NumbersDoNotWrap, NEW n \in FirstSlot..LastSlot, NEW s \in Seq(Entry),
           NEW e \in ToSet(s), n - e.at >= Tproc0 + 1
    PROVE  Usable(s, n) # {} /\ e \in ToSet(Trimmed(s, n))
  <1>1. PICK i \in 1..Len(s) : e = s[i]
    BY DEF ToSet
  <1>2. e \in Entry /\ e.at \in FirstSlot..LastSlot
    <2>1. e \in Entry
      BY <1>1
    <2> QED
      BY <2>1 DEF Entry
  <1>3. n \in Int /\ e.at \in Int /\ Tproc0 \in Nat
    BY <1>2, SensingAssumption
  <1>4. e.at <= n
    BY <1>3
  <1>5. Minus(Normalize(n), Normalize(e.at)) = n - e.at
    BY <1>2, <1>4, NoWrap
  <1>6. ~Young(e, n)
    BY <1>3, <1>5 DEF Young
  <1>7. i \in Usable(s, n)
    BY <1>1, <1>6 DEF Usable
  <1> DEFINE U == Usable(s, n)
  <1>8. U \subseteq 1..Len(s) /\ Len(s) \in Nat
    BY DEF Usable
  <1>9. U \subseteq Nat /\ U # {} /\ \A y \in U : y <= Len(s)
    BY <1>7, <1>8
  <1> HIDE DEF U
  <1>10. Max(U) \in U /\ \A y \in U : y <= Max(U)
    BY <1>8, <1>9, MaxIs
  <1>11. PICK m \in 1..Len(s) : m = Max(U)
    BY <1>8, <1>10
  <1>12. i <= m
    BY <1>7, <1>10, <1>11 DEF U
  <1>13. PICK t : t = SubSeq(s, 1, m)
    OBVIOUS
  <1>14. t \in Seq(Entry) /\ Len(t) = m /\ i \in 1..Len(t) /\ t[i] = s[i]
    BY <1>8, <1>11, <1>12, <1>13
  <1>15. Trimmed(s, n) = t
    BY <1>11, <1>13 DEF Trimmed, U
  <1>16. e \in ToSet(t)
    BY <1>1, <1>14 DEF ToSet
  <1> QED
    BY <1>7, <1>15, <1>16

\* The copy that is looked at is a list of entries.
LEMMA TrimmedIs ==
    ASSUME NEW n, NEW s \in Seq(Entry), Usable(s, n) # {}
    PROVE  Trimmed(s, n) \in Seq(Entry)
  <1> DEFINE U == Usable(s, n)
  <1>1. U \subseteq 1..Len(s) /\ Len(s) \in Nat
    BY DEF Usable
  <1>2. U \subseteq Nat /\ U # {} /\ \A y \in U : y <= Len(s)
    BY <1>1
  <1> HIDE DEF U
  <1>3. Max(U) \in U
    BY <1>1, <1>2, MaxIs
  <1>4. PICK m \in 1..Len(s) : m = Max(U)
    BY <1>1, <1>3
  <1>5. SubSeq(s, 1, m) \in Seq(Entry)
    BY <1>1, <1>4
  <1> QED
    BY <1>4, <1>5 DEF Trimmed, U

----------------------------------------------------------------------------
(* The candidates                                                          *)

LEMMA OpportunitiesFinite ==
    ASSUME NEW n \in Nat
    PROVE  /\ GetNrSlCommOpportunities(n) \subseteq (n + T1)..(n + T2)
           /\ IsFiniteSet(GetNrSlCommOpportunities(n))
           /\ Cardinality(GetNrSlCommOpportunities(n)) \in Nat
  <1>1. GetNrSlCommOpportunities(n) \subseteq (n + T1)..(n + T2)
    BY DEF GetNrSlCommOpportunities
  <1>2. n + T1 \in Int /\ n + T2 \in Int
    BY SensingAssumption
  <1>3. IsFiniteSet((n + T1)..(n + T2))
    BY <1>2, FS_Interval
  <1>4. IsFiniteSet(GetNrSlCommOpportunities(n))
    BY <1>1, <1>3, FS_Subset
  <1> QED
    BY <1>1, <1>4, FS_CardinalityType

\* The outcome of the threshold loop: nothing, or what a threshold between the
\* initial one and 0 dBm leaves.
LEMMA ExcludeByRsrpIs ==
    ASSUME NEW cands, NEW data
    PROVE  \/ ExcludeByRsrp(cands, data) = << >>
           \/ \E thr \in Int :
                 /\ ThresRsrp <= thr /\ thr <= 0
                 /\ ExcludeByRsrp(cands, data) = CandidatesLeft(cands, data, thr)
  <1> DEFINE Left(k) == CandidatesLeft(cands, data, ThresRsrp + 3 * (k - 1))
             R == {k \in 1..((0 - ThresRsrp) \div 3) : EnoughOf(Left(k), Cardinality(cands))}
  <1>1. CASE R = {}
    BY <1>1 DEF ExcludeByRsrp
  <1>2. CASE R # {}
    <2>1. ThresRsrp \in Int
      BY SensingAssumption
    <2>2. R \subseteq Nat
      OBVIOUS
    <2>3. ExcludeByRsrp(cands, data) = Left(Min(R))
      BY <1>2 DEF ExcludeByRsrp
    <2>4. \A k \in R : k \in 1..((0 - ThresRsrp) \div 3)
      OBVIOUS
    <2> HIDE DEF R
    <2>5. PICK k \in R : k = Min(R)
      BY <1>2, <2>2, MinIs
    <2>6. k \in 1..((0 - ThresRsrp) \div 3)
      BY <2>4
    <2>7. PICK thr : thr = ThresRsrp + 3 * (k - 1)
      OBVIOUS
    <2>8. thr \in Int /\ thr <= 0 /\ ThresRsrp <= thr
      BY <2>1, <2>6, <2>7
    <2>9. ExcludeByRsrp(cands, data) = CandidatesLeft(cands, data, thr)
      BY <2>3, <2>5, <2>7
    <2> QED
      BY <2>8, <2>9
  <1> QED
    BY <1>1, <1>2

\* The outcomes of GetNrSlTxOpportunities.
Unsensed(o, s, n) ==
    LET cands == GetNrSlCommOpportunities(n) IN
    (cands = {} \/ s = << >>) /\ o = Offer([c \in cands |-> {}])
NoneLeft(o) == o.kind \in {"offered", "undefined"} /\ o.slots = << >>
Sensed(o, s, n) ==
    LET cands == GetNrSlCommOpportunities(n) IN
    /\ Usable(s, n) # {} /\ o.kind = "offered"
    /\ \E thr \in Int : /\ ThresRsrp <= thr /\ thr <= 0
                        /\ o.slots = CandidatesLeft(cands, Trimmed(s, n), thr)

LEMMA Outcomes ==
    ASSUME NEW s, NEW n
    PROVE  LET o == GetNrSlTxOpportunities(s, n) IN
           Unsensed(o, s, n) \/ NoneLeft(o) \/ Sensed(o, s, n)
  <1> DEFINE cands == GetNrSlCommOpportunities(n)
             o == GetNrSlTxOpportunities(s, n)
             x == ExcludeByRsrp(cands, Trimmed(s, n))
  <1>1. CASE cands = {} \/ s = << >>
    BY <1>1 DEF GetNrSlTxOpportunities, Unsensed
  <1>2. CASE ~(cands = {} \/ s = << >>) /\ Usable(s, n) = {}
    BY <1>2 DEF GetNrSlTxOpportunities, NoneLeft
  <1>3. CASE ~(cands = {} \/ s = << >>) /\ Usable(s, n) # {}
    <2>1. o = Offer(x)
      BY <1>3 DEF GetNrSlTxOpportunities
    <2>2. o.kind = "offered" /\ o.slots = x
      BY <2>1 DEF Offer
    <2>3. CASE x = << >>
      BY <2>2, <2>3 DEF NoneLeft
    <2>4. CASE \E thr \in Int :
                 /\ ThresRsrp <= thr /\ thr <= 0
                 /\ x = CandidatesLeft(cands, Trimmed(s, n), thr)
      <3>1. PICK thr \in Int : /\ ThresRsrp <= thr /\ thr <= 0
                               /\ x = CandidatesLeft(cands, Trimmed(s, n), thr)
        BY <2>4
      <3>2. o.slots = CandidatesLeft(cands, Trimmed(s, n), thr)
        BY <2>2, <3>1
      <3> HIDE DEF x, o
      <3>3. Sensed(o, s, n)
        BY <1>3, <2>2, <3>1, <3>2 DEF Sensed
      <3> QED
        BY <3>3 DEF o
    <2> HIDE DEF o
    <2> QED
      BY <2>3, <2>4, ExcludeByRsrpIs
  <1> QED
    BY <1>1, <1>2, <1>3

LEMMA OutcomeIs ==
    ASSUME NEW s, NEW n \in Nat
    PROVE  LET o == GetNrSlTxOpportunities(s, n) IN
           /\ o.kind \in {"offered", "undefined"}
           /\ DOMAIN o.slots \subseteq GetNrSlCommOpportunities(n)
  <1> DEFINE cands == GetNrSlCommOpportunities(n)
  <1>1. PICK o : o = GetNrSlTxOpportunities(s, n)
    OBVIOUS
  <1>2. DOMAIN << >> = {}
    OBVIOUS
  <1>3. CASE Unsensed(o, s, n)
    <2>1. o.kind = "offered" /\ DOMAIN o.slots = cands
      BY <1>3 DEF Unsensed, Offer
    <2> QED
      BY <1>1, <2>1
  <1>4. CASE NoneLeft(o)
    BY <1>1, <1>2, <1>4 DEF NoneLeft
  <1>5. CASE Sensed(o, s, n)
    <2>1. PICK thr \in Int : o.slots = CandidatesLeft(cands, Trimmed(s, n), thr)
      BY <1>5 DEF Sensed
    <2>2. DOMAIN o.slots \subseteq cands
      BY <2>1 DEF CandidatesLeft
    <2> QED
      BY <1>1, <1>5, <2>2 DEF Sensed
  <1> QED
    BY <1>1, <1>3, <1>4, <1>5, Outcomes

----------------------------------------------------------------------------
(* The sub-channels that are taken                                         *)

\* RandSelSbChStart draws a start from which all sub-channels are available.
LEMMA StartIsGood ==
    ASSUME NEW occ, NEW num \in 1..TotalSubCh, num <= LongestRun(Avail(occ)),
           NEW len \in 1..num, NEW st \in RandSelSbChStart(occ, num, len)
    PROVE  Span(st, len) \subseteq Avail(occ)
  <1>1. CASE num = TotalSubCh /\ len = 1
    <2>1. PICK av : av = Avail(occ)
      OBVIOUS
    <2>2. av \subseteq SbCh /\ av # {}
      BY <2>1, AvailIs
    <2>3. PICK m \in 1..TotalSubCh : m = LongestRun(av) /\ \E t \in av : Span(t, m) \subseteq av
      BY <2>2, LongestRunIs
    <2>4. PICK t \in av : Span(t, m) \subseteq av
      BY <2>3
    <2>5. TotalSubCh \in Nat \ {0} /\ num <= m
      BY <2>1, <2>3, TotalSubChAssumption
    <2>6. m = TotalSubCh
      BY <1>1, <2>5
    <2>7. t \in SbCh /\ t \in Nat
      BY <2>2, <2>5 DEF SbCh
    <2>8. t + m - 1 \in Span(t, m)
      BY <2>5, <2>6, <2>7 DEF Span
    <2>9. t + m - 1 \in SbCh
      BY <2>2, <2>4, <2>8
    <2>10. t = 0
      BY <2>5, <2>6, <2>7, <2>9 DEF SbCh
    <2>11. Span(t, m) = SbCh
      BY <2>5, <2>6, <2>10 DEF Span, SbCh
    <2>12. av = SbCh
      BY <2>2, <2>4, <2>11
    <2>13. st \in SbCh
      BY <1>1 DEF RandSelSbChStart
    <2>14. Span(st, len) = {st}
      <3>1. st \in Int
        BY <2>5, <2>13 DEF SbCh
      <3> QED
        BY <1>1, <3>1 DEF Span
    <2> QED
      BY <2>1, <2>12, <2>13, <2>14
  <1>2. CASE ~(num = TotalSubCh /\ len = 1)
    BY <1>2 DEF RandSelSbChStart
  <1> QED
    BY <1>1, <1>2

\* DoNrSlAllocation takes available sub-channels of candidates.
LEMMA AllocationIs ==
    ASSUME NEW slots, NEW sel \in RandomlySelectSlots(slots),
           NEW a \in DoNrSlAllocation(slots, sel)
    PROVE  /\ DOMAIN a \subseteq DOMAIN slots
           /\ \A s \in DOMAIN a : a[s] \subseteq Avail(slots[s])
  <1>1. sel \subseteq DOMAIN slots
    BY DEF RandomlySelectSlots, kSubset
  <1> DEFINE chosen == Selected(slots, sel)
  <1>2. PICK num \in 1..TotalSubCh : /\ num = GetAvailSbChInfo(chosen)
                                    /\ \A s \in sel : num <= LongestRun(Avail(slots[s]))
    BY AvailSbChInfoIs
  <1>3. \A s \in sel : chosen[s] = slots[s]
    BY DEF Selected
  <1> HIDE DEF chosen
  <1>4. PICK len \in 1..num, st \in [sel -> SbCh] :
           /\ \A s \in sel : st[s] \in RandSelSbChStart(chosen[s], num, len)
           /\ a = [s \in sel |-> Span(st[s], len)]
    BY <1>2 DEF DoNrSlAllocation, chosen
  <1>5. ASSUME NEW s \in sel PROVE a[s] \subseteq Avail(slots[s])
    <2>1. st[s] \in RandSelSbChStart(slots[s], num, len)
      BY <1>3, <1>4
    <2>2. Span(st[s], len) \subseteq Avail(slots[s])
      BY <1>2, <2>1, StartIsGood
    <2> QED
      BY <1>4, <2>2
  <1>6. DOMAIN a = sel
    BY <1>4
  <1> QED
    BY <1>1, <1>5, <1>6

----------------------------------------------------------------------------
(* What is announced                                                       *)

\* A sensed SCI is projected beyond the selection window, whatever the slot of
\* the last period in which it was heard.
ProjectedFarEnough == \A u \in Senders : T2 < Periods(u) * Sci[u].rsvp

\* Within the periods that are projected.
LEMMA PeriodsReach ==
    ASSUME NEW r \in Nat \ {0}, NEW i \in Nat, NEW p \in Int, NEW t \in Nat,
           t < p * r, i * r <= t + r
    PROVE  i <= p
  <1> SUFFICES ASSUME i >= p + 1 PROVE FALSE
    OBVIOUS
  <1>1. PICK d \in Nat : i = d + (p + 1)
    <2>1. i - (p + 1) \in Nat /\ i = (i - (p + 1)) + (p + 1)
      OBVIOUS
    <2> QED
      BY <2>1
  <1>2. i * r = d * r + (p * r + r)
    BY <1>1
  <1>3. PICK x \in Nat, y \in Int : x = d * r /\ y = p * r
    OBVIOUS
  <1>4. x + (y + r) <= t + r /\ t < y
    BY <1>2, <1>3
  <1> QED
    BY <1>4

\* Announced transmissions are among those the exclusion looks at.
LEMMA AnnouncedOverlaps ==
    ASSUME ProjectedFarEnough, NEW e \in Entry, NEW n \in Nat, NEW c \in (n + T1)..(n + T2),
           n - e.at <= Sci[e.src].rsvp
    PROVE  Announced(e, c) \subseteq Overlap(c, e)
  <1>1. PICK u \in Senders : u = e.src
    BY DEF Entry
  <1>2. /\ T1 \in Nat /\ T2 \in Nat /\ FirstSlot \in Nat /\ LastSlot \in Nat
        /\ PRsvpTx \in Nat /\ CResel \in Nat \ {0}
    BY SensingAssumption
  <1>3. PICK r \in Nat \ {0} : r = Sci[u].rsvp
    BY SciAssumption
  <1>4. e.at \in Nat /\ c \in Int /\ c <= n + T2
    BY <1>2 DEF Entry
  <1>5. n - e.at <= r
    BY <1>1, <1>3
  <1>6. Periods(u) \in Int
    <2>1. SelWindLen \in Nat
      BY <1>2, SensingAssumption DEF SelWindLen
    <2>2. (SelWindLen + r - 1) \div r \in Int
      BY <1>3, <2>1
    <2> QED
      BY <1>3, <2>2 DEF Periods
  <1>7. T2 < Periods(u) * r
    BY <1>3 DEF ProjectedFarEnough
  <1> SUFFICES ASSUME NEW x \in Announced(e, c) PROVE x \in Overlap(c, e)
    OBVIOUS
  <1>8. PICK k \in DOMAIN Sci[u].tx, i \in 0..LastSlot :
            /\ x \in Span(Sci[u].tx[k].start, Sci[u].len)
            /\ c = e.at + i * r + Sci[u].tx[k].gap
    BY <1>1, <1>3 DEF Announced
  <1>9. PICK g \in Nat : g = Sci[u].tx[k].gap
    BY SciAssumption
  <1>10. i <= Periods(u)
    <2>1. PICK y \in Nat : y = i * r
      BY <1>2, <1>3
    <2>2. y <= T2 + r
      BY <1>2, <1>3, <1>4, <1>5, <1>8, <1>9, <2>1
    <2>3. i \in Nat
      BY <1>2
    <2> QED
      BY <1>2, <1>3, <1>6, <1>7, <2>1, <2>2, <2>3, PeriodsReach
  <1>11. i \in 0..Periods(u)
    BY <1>2, <1>6, <1>10
  <1>12. PICK f : f = TxOf(u, e.at + i * r, k)
    OBVIOUS
  <1>13. f \in GetFutSlotsBasedOnSens(e)
    BY <1>1, <1>3, <1>8, <1>11, <1>12 DEF GetFutSlotsBasedOnSens
  <1>14. f.slot = c /\ x \in f.sb
    BY <1>8, <1>12 DEF TxOf
  <1>15. 0 \in 0..(CResel - 1) /\ c + 0 * PRsvpTx = c
    BY <1>2, <1>4
  <1>16. SameSlot(c + 0 * PRsvpTx, f.slot)
    BY <1>14, <1>15 DEF SameSlot
  <1> QED
    BY <1>13, <1>14, <1>15, <1>16 DEF Overlap

\* An SCI occupies sub-channels of the pool only.
LEMMA OverlapInPool ==
    ASSUME NEW e \in Entry, NEW c
    PROVE  Overlap(c, e) \subseteq SbCh
  <1>1. e.src \in Senders
    BY DEF Entry
  <1>2. \A f \in GetFutSlotsBasedOnSens(e) : f.sb \subseteq SbCh
    BY <1>1, SciAssumption DEF GetFutSlotsBasedOnSens, TxOf
  <1> QED
    BY <1>2 DEF Overlap

\* A slot taken altogether by SCIs above 0 dBm is excluded.
LEMMA StrongHit ==
    ASSUME NEW data \in Seq(Entry), NEW c, NEW thr \in Int, thr <= 0, NEW E,
           \A e \in E : e \in ToSet(data) /\ Sci[e.src].rsrp > 0,
           \A x \in SbCh : \E e \in E : x \in Overlap(c, e)
    PROVE  Excluded(c, data, thr)
  <1> DEFINE D == {k \in 1..Len(data) : Sci[data[k].src].rsrp > 0 /\ Overlap(c, data[k]) # {}}
  <1>1. \A x \in SbCh : \E k \in D : x \in Overlap(c, data[k])
    <2> TAKE x \in SbCh
    <2>1. PICK e \in E : x \in Overlap(c, e)
      OBVIOUS
    <2>2. PICK k \in 1..Len(data) : e = data[k]
      BY DEF ToSet
    <2>3. Sci[data[k].src].rsrp > 0 /\ Overlap(c, data[k]) # {}
      BY <2>1, <2>2
    <2> QED
      BY <2>1, <2>2, <2>3
  <1>2. PICK x0 \in SbCh : TRUE
    BY AvailIs
  <1>3. D \subseteq 1..Len(data) /\ D # {} /\ Len(data) \in Nat
    BY <1>1, <1>2
  <1>4. \A k \in D : Sci[data[k].src].rsrp > 0 /\ Overlap(c, data[k]) # {}
    OBVIOUS
  <1> HIDE DEF D
  <1>5. D \subseteq Nat /\ \A y \in D : y <= Len(data)
    BY <1>3
  <1>6. PICK m \in D : \A y \in D : y <= m
    BY <1>3, <1>5, MaxIs
  <1>7. m \in 1..Len(data) /\ m \in Nat /\ m \in DOMAIN data
    BY <1>3
  <1>8. \A j \in 1..m : data[j] \in Entry
    BY <1>3, <1>7
  <1>9. OccupiedBy(c, data, m) \subseteq SbCh
    BY <1>8, OverlapInPool DEF OccupiedBy
  <1>10. ASSUME NEW x \in SbCh PROVE x \in OccupiedBy(c, data, m)
    <2>1. PICK k \in D : x \in Overlap(c, data[k])
      BY <1>1
    <2>2. k \in 1..m
      BY <1>3, <1>6, <1>7
    <2> QED
      BY <2>1, <2>2 DEF OccupiedBy
  <1>11. data[m].src \in Senders
    <2>1. data[m] \in Entry
      BY <1>7
    <2> QED
      BY <2>1 DEF Entry
  <1>12. Sci[data[m].src].rsrp \in Int /\ Sci[data[m].src].rsrp > 0
    BY <1>4, <1>11, SciAssumption
  <1>13. Sci[data[m].src].rsrp > thr
    BY <1>12
  <1>14. OccupiedBy(c, data, m) = SbCh
    BY <1>9, <1>10
  <1>15. Overlap(c, data[m]) # {}
    BY <1>4
  <1> QED
    BY <1>7, <1>13, <1>14, <1>15 DEF Excluded

----------------------------------------------------------------------------
(* The state                                                               *)

\* The list and the history, apart from what UpdateSensingWindow may lose.
Listed ==
    /\ now \in FirstSlot..LastSlot
    /\ sensingData \in Seq(Entry)
    /\ Sorted(sensingData)
    /\ \A e \in ToSet(sensingData) : e.at <= now
    /\ heard \subseteq Entry
    /\ \A e \in heard : e.at <= now /\ now - e.at <= SensWindLen

\* The last selection is the one of the current slot.
Chosen ==
    /\ txOpps.kind \in {"idle", "offered", "undefined"}
    /\ DOMAIN txOpps.slots \subseteq GetNrSlCommOpportunities(now)
    /\ DOMAIN alloc \subseteq DOMAIN txOpps.slots
    /\ \A s \in DOMAIN alloc : alloc[s] \subseteq Avail(txOpps.slots[s])

IInv == Listed /\ Chosen

\* The variables of a slot in which UpdateSensingWindow runs.
Updating ==
    /\ now < LastSlot
    /\ now' = now + 1
    /\ heard' = RecentlyHeard
    /\ sensingData' = UpdateSensingWindow(sensingData, now + 1)

LEMMA InitIInv == Init => IInv
  <1> SUFFICES ASSUME Init PROVE IInv
    OBVIOUS
  <1>1. DOMAIN << >> = {} /\ << >> \in Seq(Entry) /\ ToSet(<< >>) = {}
    BY DEF ToSet
  <1>2. Listed
    <2>1. now \in FirstSlot..LastSlot
      BY SensingAssumption DEF Init
    <2>2. Sorted(<< >>)
      BY <1>1 DEF Sorted
    <2> QED
      BY <1>1, <2>1, <2>2 DEF Init, Listed
  <1>3. Chosen
    BY <1>1 DEF Init, Chosen, Idle
  <1> QED
    BY <1>2, <1>3 DEF IInv

\* The next slot.
LEMMA NextSlot ==
    ASSUME Listed, now < LastSlot, now' = now + 1, heard' = RecentlyHeard
    PROVE  /\ now' \in FirstSlot..LastSlot /\ now' \in Nat
           /\ heard' \subseteq heard
           /\ heard' \subseteq Entry
           /\ \A e \in heard' : e.at <= now' /\ now' - e.at <= SensWindLen
  <1>1. now \in Nat /\ FirstSlot \in Nat /\ LastSlot \in Nat /\ SensWindLen \in Nat
    BY SensingAssumption DEF Listed
  <1>2. now' \in FirstSlot..LastSlot /\ now' \in Nat
    BY <1>1 DEF Listed
  <1>3. heard' \subseteq heard /\ heard \subseteq Entry
    BY DEF RecentlyHeard, Listed
  <1>4. ASSUME NEW e \in heard' PROVE e.at <= now' /\ now' - e.at <= SensWindLen
    <2>1. e \in heard /\ now + 1 - e.at <= SensWindLen
      BY <1>4 DEF RecentlyHeard
    <2>2. e \in Entry /\ e.at <= now
      BY <2>1 DEF Listed
    <2>3. e.at \in Nat
      BY <1>1, <2>2 DEF Entry
    <2> QED
      BY <1>1, <2>1, <2>2, <2>3
  <1> QED
    BY <1>2, <1>3, <1>4

LEMMA UpdatingListed ==
    ASSUME Listed, Updating
    PROVE  /\ Listed'
           /\ \A e \in heard' : NumbersDoNotWrap /\ e \in ToSet(sensingData) => e \in ToSet(sensingData')
  <1>1. /\ now' \in FirstSlot..LastSlot /\ now' \in Nat
        /\ heard' \subseteq heard /\ heard' \subseteq Entry
        /\ \A e \in heard' : e.at <= now' /\ now' - e.at <= SensWindLen
    BY NextSlot DEF Updating
  <1>2. Keeps(sensingData, sensingData', now + 1)
    BY UpdateKeeps DEF Updating, Listed
  <1>3. sensingData' \in Seq(Entry) /\ Sorted(sensingData') /\ ToSet(sensingData') \subseteq ToSet(sensingData)
    BY <1>2 DEF Keeps, Listed
  <1>4. ASSUME NEW e \in ToSet(sensingData') PROVE e.at <= now'
    <2>1. e \in ToSet(sensingData) /\ e.at <= now
      BY <1>3 DEF Listed
    <2>2. e \in Entry
      <3>1. PICK i \in DOMAIN sensingData : e = sensingData[i]
        BY <2>1 DEF ToSet
      <3> QED
        BY <3>1 DEF Listed
    <2>3. e.at \in Int /\ now \in Int
      BY <2>2, SensingAssumption DEF Entry, Listed
    <2> QED
      BY <2>1, <2>3 DEF Updating
  <1>5. Listed'
    BY <1>1, <1>3, <1>4 DEF Listed, Sorted
  <1>6. ASSUME NEW e \in heard', NumbersDoNotWrap, e \in ToSet(sensingData)
        PROVE  e \in ToSet(sensingData')
    <2>1. ~Outdated(e, now')
      BY <1>1, <1>6, OutdatedIs
    <2>2. now' = now + 1
      BY DEF Updating
    <2> QED
      BY <1>2, <1>6, <2>1, <2>2 DEF Keeps
  <1> QED
    BY <1>5, <1>6

\* A slot that changes the list alone.
LEMMA IdleChosen ==
    ASSUME txOpps' = Idle, alloc' = << >>
    PROVE  Chosen'
  <1>1. DOMAIN << >> = {}
    OBVIOUS
  <1> QED
    BY <1>1 DEF Chosen, Idle

\* The elements of a list with one more.
LEMMA AppendedSet ==
    ASSUME NEW s \in Seq(Entry), NEW e \in Entry
    PROVE  ToSet(Append(s, e)) = ToSet(s) \cup {e}
  <1> DEFINE u == Append(s, e)
  <1>5. u \in Seq(Entry)
    OBVIOUS
  <1>1. PICK t \in Seq(Entry) : t = u
    BY <1>5
  <1>2. /\ Len(s) \in Nat /\ Len(t) = Len(s) + 1 /\ t[Len(s) + 1] = e
        /\ DOMAIN s = 1..Len(s) /\ DOMAIN t = 1..Len(t)
        /\ \A i \in 1..Len(s) : t[i] = s[i]
    BY <1>1
  <1>3. ASSUME NEW x \in ToSet(t) PROVE x \in ToSet(s) \cup {e}
    <2>1. PICK i \in 1..Len(t) : x = t[i]
      BY <1>2 DEF ToSet
    <2>2. i \in 1..Len(s) \/ i = Len(s) + 1
      BY <1>2
    <2> QED
      BY <1>2, <2>1, <2>2 DEF ToSet
  <1>4. ASSUME NEW x \in ToSet(s) \cup {e} PROVE x \in ToSet(t)
    <2>1. \E i \in 1..Len(t) : x = t[i]
      <3>1. CASE x \in ToSet(s)
        <4>1. PICK i \in 1..Len(s) : x = s[i]
          BY <1>2, <3>1 DEF ToSet
        <4> QED
          BY <1>2, <4>1
      <3>2. CASE x = e
        <4>1. Len(s) + 1 \in 1..Len(t)
          BY <1>2
        <4> QED
          BY <1>2, <3>2, <4>1
      <3> QED
        BY <1>4, <3>1, <3>2
    <2> QED
      BY <1>2, <2>1 DEF ToSet
  <1> QED
    BY <1>1, <1>3, <1>4

\* The list after an SCI has been heard.
LEMMA HearListed ==
    ASSUME Listed, NEW u \in Senders, HearSci(u)
    PROVE  /\ Listed'
           /\ [at |-> now, src |-> u] \in ToSet(sensingData')
           /\ ToSet(sensingData) \subseteq ToSet(sensingData')
  <1>1. PICK e : e = [at |-> now, src |-> u]
    OBVIOUS
  <1>2. e \in Entry /\ e.at = now
    BY <1>1 DEF Listed, Entry
  <1>3. /\ sensingData' = Append(sensingData, e) /\ heard' = heard \cup {e} /\ now' = now
    BY <1>1 DEF HearSci, DoReceiveSensingData
  <1>4. PICK s \in Seq(Entry) : s = sensingData
    BY DEF Listed
  <1>5. PICK t \in Seq(Entry) : t = sensingData'
    BY <1>2, <1>3, <1>4
  <1>6. /\ Len(s) \in Nat /\ Len(t) = Len(s) + 1 /\ t[Len(s) + 1] = e
        /\ \A i \in 1..Len(s) : t[i] = s[i]
    BY <1>2, <1>3, <1>4, <1>5
  <1>7. DOMAIN s = 1..Len(s) /\ DOMAIN t = 1..Len(t)
    OBVIOUS
  <1>8. now \in Int /\ SensWindLen \in Nat /\ now <= now /\ now - now <= SensWindLen
    BY SensingAssumption DEF Listed
  <1>9. ASSUME NEW x \in ToSet(t) PROVE x \in ToSet(s) \/ x = e
    <2>1. PICK i \in 1..Len(t) : x = t[i]
      BY <1>7 DEF ToSet
    <2>2. i \in 1..Len(s) \/ i = Len(s) + 1
      BY <1>6
    <2>3. CASE i \in 1..Len(s)
      <3>1. x = s[i]
        BY <1>6, <2>1, <2>3
      <3> QED
        BY <1>7, <2>3, <3>1 DEF ToSet
    <2> QED
      BY <1>6, <2>1, <2>2, <2>3
  <1>10. e \in ToSet(t)
    <2>1. Len(s) + 1 \in 1..Len(t)
      BY <1>6
    <2> QED
      BY <1>6, <1>7, <2>1 DEF ToSet
  <1>11. ASSUME NEW x \in ToSet(s) PROVE x \in ToSet(t)
    <2>1. PICK i \in 1..Len(s) : x = s[i]
      BY <1>7 DEF ToSet
    <2>2. i \in 1..Len(t) /\ t[i] = x
      BY <1>6, <2>1
    <2> QED
      BY <1>7, <2>2 DEF ToSet
  <1>12. ASSUME NEW x \in ToSet(s) PROVE x.at <= now
    BY <1>4 DEF Listed
  <1>13. Sorted(t)
    <2> SUFFICES ASSUME NEW i \in 1..Len(t), NEW j \in 1..Len(t), i <= j
                 PROVE  t[i].at <= t[j].at
      BY <1>7 DEF Sorted
    <2>1. CASE j \in 1..Len(s)
      <3>1. i \in 1..Len(s)
        BY <1>6, <2>1
      <3>2. s[i].at <= s[j].at
        BY <1>4, <1>7, <2>1, <3>1 DEF Listed, Sorted
      <3> QED
        BY <1>6, <2>1, <3>1, <3>2
    <2>2. CASE j = Len(s) + 1
      <3>1. t[i] \in ToSet(t)
        BY <1>7 DEF ToSet
      <3>2. t[i].at <= now
        BY <1>2, <1>8, <1>9, <1>12, <3>1
      <3> QED
        BY <1>2, <1>6, <2>2, <3>2
    <2>3. j \in 1..Len(s) \/ j = Len(s) + 1
      BY <1>6
    <2> QED
      BY <2>1, <2>2, <2>3
  <1>14. \A x \in ToSet(t) : x.at <= now
    BY <1>2, <1>8, <1>9, <1>12
  <1>15. heard' \subseteq Entry /\ \A x \in heard' : x.at <= now /\ now - x.at <= SensWindLen
    BY <1>2, <1>3, <1>8 DEF Listed
  <1>16. now' \in FirstSlot..LastSlot
    BY <1>3 DEF Listed
  <1>17. Listed'
    BY <1>3, <1>5, <1>13, <1>14, <1>15, <1>16 DEF Listed, Sorted
  <1> QED
    BY <1>1, <1>4, <1>5, <1>10, <1>11, <1>17

\* A slot in which the sidelink part of the MAC does not run.
LEMMA OtherListed ==
    ASSUME Listed, OtherSlot
    PROVE  Listed'
  <1>1. now < LastSlot /\ now' = now + 1 /\ heard' = RecentlyHeard /\ sensingData' = sensingData
    BY DEF OtherSlot
  <1>2. /\ now' \in FirstSlot..LastSlot /\ heard' \subseteq Entry
        /\ \A e \in heard' : e.at <= now' /\ now' - e.at <= SensWindLen
    BY <1>1, NextSlot
  <1>3. ASSUME NEW e \in ToSet(sensingData) PROVE e.at <= now'
    <2>1. PICK i \in DOMAIN sensingData : e = sensingData[i]
      BY DEF ToSet
    <2>2. e \in Entry /\ e.at <= now
      BY <2>1 DEF Listed
    <2>3. e.at \in Int /\ now \in Int
      BY <2>2, SensingAssumption DEF Entry, Listed
    <2> QED
      BY <1>1, <2>2, <2>3
  <1> QED
    BY <1>1, <1>2, <1>3 DEF Listed, Sorted

\* A slot in which resources are selected.
LEMMA SelectChosen ==
    ASSUME Listed, SelectingSlot
    PROVE  Chosen'
  <1>1. now' = now + 1 /\ now' \in Nat
    BY NextSlot DEF SelectingSlot
  <1>2. txOpps' = GetNrSlTxOpportunities(sensingData', now')
    BY <1>1 DEF SelectingSlot
  <1>3. PICK o : o = txOpps'
    OBVIOUS
  <1>4. /\ o.kind \in {"offered", "undefined"}
        /\ DOMAIN o.slots \subseteq GetNrSlCommOpportunities(now')
    BY <1>1, <1>2, <1>3, OutcomeIs
  <1>5. \/ alloc' = << >>
        \/ \E sel \in RandomlySelectSlots(o.slots) : alloc' \in DoNrSlAllocation(o.slots, sel)
    BY <1>3 DEF SelectingSlot
  <1>6. DOMAIN << >> = {}
    OBVIOUS
  <1>7. /\ DOMAIN alloc' \subseteq DOMAIN o.slots
        /\ \A s \in DOMAIN alloc' : alloc'[s] \subseteq Avail(o.slots[s])
    BY <1>5, <1>6, AllocationIs
  <1> QED
    BY <1>3, <1>4, <1>7 DEF Chosen

\* The inductive invariant is preserved.
LEMMA NextIInv == IInv /\ [Next]_vars => IInv'
  <1> SUFFICES ASSUME Listed, Chosen, [Next]_vars PROVE Listed' /\ Chosen'
    BY DEF IInv
  <1>1. ASSUME NEW u \in Senders, HearSci(u) PROVE Listed' /\ Chosen'
    <2>1. UNCHANGED <<now, txOpps, alloc>>
      BY <1>1 DEF HearSci
    <2>2. Chosen'
      BY <2>1 DEF Chosen
    <2> QED
      BY <1>1, <2>2, HearListed
  <1>2. CASE OtherSlot
    <2>1. txOpps' = Idle /\ alloc' = << >>
      BY <1>2 DEF OtherSlot
    <2> QED
      BY <1>2, <2>1, OtherListed, IdleChosen
  <1>3. CASE SidelinkSlot
    <2>1. Updating /\ txOpps' = Idle /\ alloc' = << >>
      BY <1>3 DEF SidelinkSlot, Updating
    <2> QED
      BY <2>1, UpdatingListed, IdleChosen
  <1>4. CASE SelectingSlot
    <2>1. Updating
      BY <1>4 DEF SelectingSlot, Updating
    <2> QED
      BY <1>4, <2>1, UpdatingListed, SelectChosen
  <1>5. CASE UNCHANGED vars
    BY <1>5 DEF vars, Listed, Chosen, Sorted
  <1> QED
    BY <1>1, <1>2, <1>3, <1>4, <1>5 DEF Next

----------------------------------------------------------------------------
(* What the list and the selection say of the neighbours                   *)

\* The SCIs of the sensing window in a history and a slot.
Window(h, n) == {e \in h : n - e.at \in (Tproc0 + 1)..Sci[e.src].rsvp}

\* What has been heard in the sensing window is in the list.
Kept == \A e \in heard : e \in ToSet(sensingData)

\* What the window announces in a candidate is recorded with it.
Recorded(slots, W) ==
    \A c \in DOMAIN slots : \A e \in W : Announced(e, c) \subseteq slots[c]

\* No candidate is taken altogether by strong senders of the window.
NoStrong(slots, W) ==
    \A c \in DOMAIN slots :
        SbCh # UNION {Announced(e, c) : e \in {d \in W : Sci[d.src].rsrp > 0}}

Sensing ==
    /\ Kept
    /\ Recorded(txOpps.slots, Window(heard, now))
    /\ NoStrong(txOpps.slots, Window(heard, now))

\* Without candidates, and without anything heard, there is nothing to avoid.
LEMMA NothingToAvoid ==
    ASSUME NEW slots, NEW W, DOMAIN slots = {} \/ W = {}
    PROVE  Recorded(slots, W) /\ NoStrong(slots, W)
  <1>1. SbCh # {}
    BY AvailIs
  <1>2. CASE DOMAIN slots = {}
    BY <1>2 DEF Recorded, NoStrong
  <1>3. CASE W = {}
    <2>1. {d \in W : Sci[d.src].rsrp > 0} = {}
      BY <1>3
    <2>2. ASSUME NEW c PROVE UNION {Announced(e, c) : e \in {d \in W : Sci[d.src].rsrp > 0}} = {}
      BY <2>1
    <2> QED
      BY <1>1, <1>3, <2>2 DEF Recorded, NoStrong
  <1> QED
    BY <1>2, <1>3

\* GetNrSlTxOpportunities on a list that holds the window.
LEMMA OfferAvoids ==
    ASSUME NumbersDoNotWrap, ProjectedFarEnough,
           NEW s \in Seq(Entry), NEW n \in FirstSlot..LastSlot, n \in Nat,
           NEW W, W \subseteq Entry, W \subseteq ToSet(s),
           \A e \in W : n - e.at \in (Tproc0 + 1)..Sci[e.src].rsvp
    PROVE  LET o == GetNrSlTxOpportunities(s, n) IN
           Recorded(o.slots, W) /\ NoStrong(o.slots, W)
  <1>1. PICK o : o = GetNrSlTxOpportunities(s, n)
    OBVIOUS
  <1> SUFFICES Recorded(o.slots, W) /\ NoStrong(o.slots, W)
    BY <1>1
  <1>2. PICK cands : cands = GetNrSlCommOpportunities(n)
    OBVIOUS
  <1>3. CASE Unsensed(o, s, n)
    <2>1. DOMAIN o.slots = cands /\ (cands = {} \/ s = << >>)
      BY <1>2, <1>3 DEF Unsensed, Offer
    <2>2. s = << >> => W = {}
      BY DEF ToSet
    <2> QED
      BY <2>1, <2>2, NothingToAvoid
  <1>4. CASE NoneLeft(o)
    <2>1. DOMAIN o.slots = {}
      BY <1>4 DEF NoneLeft
    <2> QED
      BY <2>1, NothingToAvoid
  <1>5. CASE Sensed(o, s, n)
    <2>1. PICK data : data = Trimmed(s, n)
      OBVIOUS
    <2>2. data \in Seq(Entry) /\ Len(data) \in Nat /\ DOMAIN data = 1..Len(data)
      BY <1>5, <2>1, TrimmedIs DEF Sensed
    <2>3. PICK thr \in Int : thr <= 0 /\ o.slots = CandidatesLeft(cands, data, thr)
      BY <1>2, <1>5, <2>1 DEF Sensed
    <2>4. \A c \in DOMAIN o.slots : /\ c \in cands /\ ~Excluded(c, data, thr)
                                   /\ o.slots[c] = OccupiedBy(c, data, Len(data))
      BY <2>3 DEF CandidatesLeft
    <2>5. \A c \in DOMAIN o.slots : c \in (n + T1)..(n + T2)
      BY <1>2, <2>4, OpportunitiesFinite
    <2>6. \A e \in W : Sci[e.src].rsvp \in Nat /\ e.at \in Nat
      BY SciAssumption, SensingAssumption DEF Entry
    <2>7. ASSUME NEW e \in W
          PROVE  /\ e \in ToSet(data)
                 /\ \A c \in DOMAIN o.slots : Announced(e, c) \subseteq Overlap(c, e)
      <3>1. PICK r \in Nat : r = Sci[e.src].rsvp
        BY <2>6
      <3>2. Tproc0 \in Nat /\ n - e.at \in (Tproc0 + 1)..r /\ n - e.at \in Int
        BY <2>6, <3>1, SensingAssumption
      <3>3. n - e.at >= Tproc0 + 1 /\ n - e.at <= r
        BY <3>2
      <3>4. e \in ToSet(data)
        BY <2>1, <3>3, InTrimmed
      <3>5. n - e.at <= Sci[e.src].rsvp
        BY <3>1, <3>3
      <3> QED
        BY <2>5, <3>4, <3>5, AnnouncedOverlaps
    <2>8. ASSUME NEW c \in DOMAIN o.slots, NEW e \in W PROVE Announced(e, c) \subseteq o.slots[c]
      <3>1. PICK j \in 1..Len(data) : e = data[j]
        BY <2>2, <2>7 DEF ToSet
      <3>2. Overlap(c, e) \subseteq OccupiedBy(c, data, Len(data))
        BY <3>1 DEF OccupiedBy
      <3> QED
        BY <2>4, <2>7, <3>2
    <2>9. ASSUME NEW c \in DOMAIN o.slots,
                 SbCh = UNION {Announced(e, c) : e \in {d \in W : Sci[d.src].rsrp > 0}}
          PROVE  FALSE
      <3> DEFINE E == {d \in W : Sci[d.src].rsrp > 0}
      <3>1. \A e \in E : e \in ToSet(data) /\ Sci[e.src].rsrp > 0
        BY <2>7
      <3>2. ASSUME NEW x \in SbCh PROVE \E e \in E : x \in Overlap(c, e)
        <4>1. PICK e \in E : x \in Announced(e, c)
          BY <2>9
        <4>2. e \in W
          OBVIOUS
        <4> QED
          BY <2>7, <4>1, <4>2
      <3> HIDE DEF E
      <3>3. Excluded(c, data, thr)
        BY <2>2, <2>3, <3>1, <3>2, StrongHit
      <3> QED
        BY <2>4, <3>3
    <2> QED
      BY <2>8, <2>9 DEF Recorded, NoStrong
  <1> QED
    BY <1>1, <1>3, <1>4, <1>5, Outcomes

\* The list keeps the window.
LEMMA NextKept ==
    ASSUME NumbersDoNotWrap, Listed, Kept, [Next]_vars
    PROVE  Kept'
  <1>1. ASSUME NEW u \in Senders, HearSci(u) PROVE Kept'
    <2>1. heard' = heard \cup {[at |-> now, src |-> u]}
      BY <1>1 DEF HearSci
    <2>2. [at |-> now, src |-> u] \in ToSet(sensingData') /\ ToSet(sensingData) \subseteq ToSet(sensingData')
      BY <1>1, HearListed
    <2> QED
      BY <2>1, <2>2 DEF Kept
  <1>2. CASE OtherSlot
    BY <1>2 DEF OtherSlot, Kept, RecentlyHeard
  <1>3. ASSUME Updating PROVE Kept'
    <2>1. heard' \subseteq heard
      BY <1>3 DEF Updating, RecentlyHeard
    <2>2. \A e \in heard' : e \in ToSet(sensingData) => e \in ToSet(sensingData')
      BY <1>3, UpdatingListed
    <2> QED
      BY <2>1, <2>2 DEF Kept
  <1>4. CASE SidelinkSlot
    BY <1>3, <1>4 DEF SidelinkSlot, Updating
  <1>5. CASE SelectingSlot
    BY <1>3, <1>5 DEF SelectingSlot, Updating
  <1>6. CASE UNCHANGED vars
    BY <1>6 DEF vars, Kept
  <1> QED
    BY <1>1, <1>2, <1>4, <1>5, <1>6 DEF Next

\* The selection avoids the window.
LEMMA NextSensing ==
    ASSUME NumbersDoNotWrap, ProjectedFarEnough, IInv, Sensing, [Next]_vars
    PROVE  Sensing'
  <1>8. PICK W : W = Window(heard', now')
    OBVIOUS
  <1>9. PICK slots : slots = txOpps'.slots
    OBVIOUS
  <1> DEFINE Goal == Recorded(slots, W) /\ NoStrong(slots, W)
  <1>1. Listed /\ Listed'
    BY NextIInv DEF IInv
  <1>2. Kept'
    BY <1>1, NextKept DEF Sensing
  <1>3. ASSUME NEW u \in Senders, HearSci(u) PROVE Goal
    <2>1. PICK e : e = [at |-> now, src |-> u]
      OBVIOUS
    <2>2. heard' = heard \cup {e} /\ now' = now /\ txOpps' = txOpps /\ e.at = now
      BY <1>3, <2>1 DEF HearSci
    <2>3. now \in Int /\ Tproc0 \in Nat /\ Sci[u].rsvp \in Nat /\ e.src = u
      BY <1>1, <2>1, SensingAssumption, SciAssumption DEF Listed
    <2>4. ~(now - e.at \in (Tproc0 + 1)..Sci[e.src].rsvp)
      BY <2>2, <2>3
    <2>5. W = Window(heard, now)
      BY <1>8, <2>2, <2>4 DEF Window
    <2>6. slots = txOpps.slots
      BY <1>9, <2>2
    <2> QED
      BY <2>5, <2>6 DEF Sensing
  <1>4. ASSUME txOpps' = Idle PROVE Goal
    <2>1. DOMAIN slots = {}
      BY <1>4, <1>9 DEF Idle
    <2> QED
      BY <2>1, NothingToAvoid
  <1>5. ASSUME SelectingSlot PROVE Goal
    <2>1. txOpps' = GetNrSlTxOpportunities(sensingData', now')
      BY <1>5 DEF SelectingSlot
    <2>2. /\ sensingData' \in Seq(Entry) /\ now' \in FirstSlot..LastSlot
          /\ W \subseteq heard' /\ heard' \subseteq Entry
      BY <1>1, <1>8 DEF Listed, Window
    <2>3. W \subseteq ToSet(sensingData')
      BY <1>2, <2>2 DEF Kept
    <2>4. now' \in Nat
      BY <2>2, SensingAssumption
    <2>5. \A e \in W : now' - e.at \in (Tproc0 + 1)..Sci[e.src].rsvp
      BY <1>8 DEF Window
    <2> QED
      BY <1>9, <2>1, <2>2, <2>3, <2>4, <2>5, OfferAvoids
  <1>6. ASSUME UNCHANGED vars PROVE Goal
    <2>1. W = Window(heard, now) /\ slots = txOpps.slots
      BY <1>6, <1>8, <1>9 DEF vars
    <2> QED
      BY <2>1 DEF Sensing
  <1>7. Goal
    <2>1. OtherSlot \/ SidelinkSlot => txOpps' = Idle
      BY DEF OtherSlot, SidelinkSlot
    <2> HIDE DEF Goal
    <2> QED
      BY <1>3, <1>4, <1>5, <1>6, <2>1 DEF Next
  <1> QED
    BY <1>2, <1>7, <1>8, <1>9 DEF Sensing

LEMMA InitSensing == Init => Sensing
  <1> SUFFICES ASSUME Init PROVE Sensing
    OBVIOUS
  <1>1. Kept
    BY DEF Init, Kept
  <1>2. DOMAIN txOpps.slots = {}
    BY DEF Init, Idle
  <1> QED
    BY <1>1, <1>2, NothingToAvoid DEF Sensing

----------------------------------------------------------------------------
(* What is excluded                                                        *)

\* The projections of a candidate and of an SCI end before the slot numbers wrap.
ProjectionsDoNotWrap ==
    /\ \A i \in 0..(CResel - 1) : LastSlot + T2 + i * PRsvpTx < SlotMod
    /\ \A u \in Senders :
          /\ Periods(u) <= LastSlot
          /\ \A i \in 0..Periods(u), k \in DOMAIN Sci[u].tx :
                LastSlot + i * Sci[u].rsvp + Sci[u].tx[k].gap < SlotMod

\* What an SCI announces in a candidate and its repetitions.
Meets(e, c) == UNION {Announced(e, c + i * PRsvpTx) : i \in 0..(CResel - 1)}

\* The exclusion looks at announced transmissions only.
LEMMA OverlapIsAnnounced ==
    ASSUME ProjectionsDoNotWrap, NEW e \in Entry, NEW n \in FirstSlot..LastSlot,
           NEW c \in (n + T1)..(n + T2)
    PROVE  Overlap(c, e) \subseteq Meets(e, c)
  <1>1. PICK u \in Senders : u = e.src
    BY DEF Entry
  <1>2. /\ T1 \in Nat /\ T2 \in Nat /\ FirstSlot \in Nat /\ LastSlot \in Nat
        /\ PRsvpTx \in Nat /\ CResel \in Nat \ {0} /\ SlotMod \in Nat \ {0}
    BY SensingAssumption
  <1>3. PICK r \in Nat \ {0} : r = Sci[u].rsvp
    BY SciAssumption
  <1>4. e.at \in Nat /\ e.at <= LastSlot /\ c \in Nat /\ c <= LastSlot + T2
    BY <1>2 DEF Entry
  <1>5. Periods(u) \in Int
    <2>1. SelWindLen \in Nat
      BY <1>2, SensingAssumption DEF SelWindLen
    <2>2. (SelWindLen + r - 1) \div r \in Int
      BY <1>3, <2>1
    <2> QED
      BY <1>3, <2>2 DEF Periods
  <1> SUFFICES ASSUME NEW x \in Overlap(c, e) PROVE x \in Meets(e, c)
    OBVIOUS
  <1>6. PICK f \in GetFutSlotsBasedOnSens(e), i \in 0..(CResel - 1) :
            x \in f.sb /\ SameSlot(c + i * PRsvpTx, f.slot)
    BY DEF Overlap
  <1>7. PICK q \in 0..Periods(u), k \in DOMAIN Sci[u].tx : f = TxOf(u, e.at + q * r, k)
    BY <1>1, <1>3, <1>6 DEF GetFutSlotsBasedOnSens
  <1>8. PICK g \in Nat : g = Sci[u].tx[k].gap
    BY SciAssumption
  <1>9. PICK a \in Nat, b \in Nat : a = i * PRsvpTx /\ b = q * r
    BY <1>2, <1>3, <1>5
  <1>10. f.slot = e.at + b + g /\ f.sb = Span(Sci[u].tx[k].start, Sci[u].len)
    BY <1>7, <1>8, <1>9 DEF TxOf
  <1>11. c + a < SlotMod /\ e.at + b + g < SlotMod
    <2>1. LastSlot + T2 + a < SlotMod /\ LastSlot + b + g < SlotMod
      BY <1>3, <1>8, <1>9 DEF ProjectionsDoNotWrap
    <2> QED
      BY <1>2, <1>4, <2>1
  <1>12. Normalize(c + a) = c + a /\ Normalize(e.at + b + g) = e.at + b + g
    <2>1. c + a \in Nat /\ e.at + b + g \in Nat
      BY <1>4
    <2> QED
      BY <1>2, <1>11, <2>1, Remainder DEF Normalize
  <1>13. c + i * PRsvpTx = e.at + q * Sci[u].rsvp + Sci[u].tx[k].gap
    BY <1>3, <1>6, <1>8, <1>9, <1>10, <1>12 DEF SameSlot
  <1>14. q \in 0..LastSlot
    BY <1>2, <1>5 DEF ProjectionsDoNotWrap
  <1>15. x \in Announced(e, c + i * PRsvpTx)
    BY <1>1, <1>6, <1>10, <1>13, <1>14 DEF Announced
  <1> QED
    BY <1>15 DEF Meets

\* Of a list in the order of the slots, nothing younger than Tproc0 is looked at.
LEMMA TrimmedIsOld ==
    ASSUME NumbersDoNotWrap, NEW n \in FirstSlot..LastSlot, NEW s \in Seq(Entry),
           Sorted(s), \A e \in ToSet(s) : e.at <= n, Usable(s, n) # {},
           NEW e \in ToSet(Trimmed(s, n))
    PROVE  e \in ToSet(s) /\ n - e.at > Tproc0
  <1> DEFINE U == Usable(s, n)
  <1>1. U \subseteq 1..Len(s) /\ Len(s) \in Nat /\ DOMAIN s = 1..Len(s)
    BY DEF Usable
  <1>2. U \subseteq Nat /\ U # {} /\ \A y \in U : y <= Len(s)
    BY <1>1
  <1>3. \A y \in U : ~Young(s[y], n)
    BY DEF Usable
  <1> HIDE DEF U
  <1>4. Max(U) \in U
    BY <1>1, <1>2, MaxIs
  <1>5. PICK m \in 1..Len(s) : m = Max(U)
    BY <1>1, <1>4
  <1>6. Trimmed(s, n) = SubSeq(s, 1, m)
    BY <1>5 DEF Trimmed, U
  <1>7. PICK t : t = SubSeq(s, 1, m)
    OBVIOUS
  <1>8. t \in Seq(Entry) /\ Len(t) = m /\ DOMAIN t = 1..m /\ \A i \in 1..m : t[i] = s[i]
    BY <1>1, <1>5, <1>7
  <1>9. PICK i \in 1..m : e = s[i]
    BY <1>6, <1>7, <1>8 DEF ToSet
  <1>10. i \in 1..Len(s) /\ i <= m /\ e \in ToSet(s) /\ s[m] \in ToSet(s)
    BY <1>1, <1>9 DEF ToSet
  <1>11. e.at <= s[m].at /\ s[m].at <= n
    BY <1>1, <1>9, <1>10 DEF Sorted
  <1>12. e.at \in FirstSlot..LastSlot /\ s[m].at \in FirstSlot..LastSlot
    <2>1. e \in Entry /\ s[m] \in Entry
      BY <1>9, <1>10
    <2> QED
      BY <2>1 DEF Entry
  <1>13. Minus(Normalize(n), Normalize(s[m].at)) = n - s[m].at
    BY <1>11, <1>12, NoWrap
  <1>14. ~(n - s[m].at <= Tproc0)
    BY <1>3, <1>4, <1>5, <1>13 DEF Young
  <1>15. PICK x \in Int, y \in Int : x = e.at /\ y = s[m].at
    BY <1>12
  <1>16. n \in Int /\ Tproc0 \in Nat
    BY SensingAssumption
  <1>17. n - x > Tproc0
    BY <1>11, <1>14, <1>15, <1>16
  <1> QED
    BY <1>10, <1>15, <1>17

\* The SCIs of a list that are old enough, and what their exclusion leaves.
Old(s, n) == {e \in ToSet(s) : n - e.at > Tproc0}
NoFreeExcluded(o, s, n) ==
    o.kind = "offered" /\ DOMAIN o.slots # {} =>
        \A c \in GetNrSlCommOpportunities(n) \ DOMAIN o.slots :
            /\ SbCh = UNION {Meets(e, c) : e \in Old(s, n)}
            /\ \E e \in Old(s, n) : Meets(e, c) # {} /\ Sci[e.src].rsrp > ThresRsrp

LEMMA OfferExcludesNoFree ==
    ASSUME NumbersDoNotWrap, ProjectionsDoNotWrap,
           NEW s \in Seq(Entry), NEW n \in FirstSlot..LastSlot, n \in Nat,
           Sorted(s), \A e \in ToSet(s) : e.at <= n
    PROVE  NoFreeExcluded(GetNrSlTxOpportunities(s, n), s, n)
  <1>1. PICK o : o = GetNrSlTxOpportunities(s, n)
    OBVIOUS
  <1>2. PICK cands : cands = GetNrSlCommOpportunities(n)
    OBVIOUS
  <1> SUFFICES ASSUME o.kind = "offered", DOMAIN o.slots # {}, NEW c \in cands \ DOMAIN o.slots
               PROVE  /\ SbCh = UNION {Meets(e, c) : e \in Old(s, n)}
                      /\ \E e \in Old(s, n) : Meets(e, c) # {} /\ Sci[e.src].rsrp > ThresRsrp
    BY <1>1, <1>2 DEF NoFreeExcluded
  <1>3. Sensed(o, s, n)
    <2>1. ~NoneLeft(o)
      BY DEF NoneLeft
    <2>2. ~Unsensed(o, s, n)
      BY <1>2 DEF Unsensed, Offer
    <2> QED
      BY <1>1, <2>1, <2>2, Outcomes
  <1>4. PICK data : data = Trimmed(s, n)
    OBVIOUS
  <1>5. PICK thr \in Int : ThresRsrp <= thr /\ o.slots = CandidatesLeft(cands, data, thr)
    BY <1>2, <1>3, <1>4 DEF Sensed
  <1>6. Excluded(c, data, thr)
    BY <1>5 DEF CandidatesLeft
  <1>7. Usable(s, n) # {} /\ data \in Seq(Entry) /\ DOMAIN data = 1..Len(data)
    <2>1. Usable(s, n) # {}
      BY <1>3 DEF Sensed
    <2> QED
      BY <1>4, <2>1, TrimmedIs
  <1>8. PICK k \in 1..Len(data) : /\ Overlap(c, data[k]) # {} /\ OccupiedBy(c, data, k) = SbCh
                                 /\ Sci[data[k].src].rsrp > thr
    BY <1>6, <1>7 DEF Excluded
  <1>9. c \in (n + T1)..(n + T2)
    BY <1>2, OpportunitiesFinite
  <1>10. ASSUME NEW j \in 1..k
         PROVE  data[j] \in Old(s, n) /\ Overlap(c, data[j]) \subseteq Meets(data[j], c)
    <2>1. j \in 1..Len(data) /\ data[j] \in Entry
      BY <1>7, <1>8
    <2>2. data[j] \in ToSet(data)
      BY <1>7, <2>1 DEF ToSet
    <2>3. data[j] \in ToSet(s) /\ n - data[j].at > Tproc0
      BY <1>4, <1>7, <2>2, TrimmedIsOld
    <2> QED
      BY <1>9, <2>1, <2>3, OverlapIsAnnounced DEF Old
  <1>11. ASSUME NEW x \in SbCh PROVE x \in UNION {Meets(e, c) : e \in Old(s, n)}
    <2>1. PICK j \in 1..k : x \in Overlap(c, data[j])
      BY <1>8 DEF OccupiedBy
    <2> QED
      BY <1>10, <2>1
  <1>12. ASSUME NEW e \in Old(s, n) PROVE Meets(e, c) \subseteq SbCh
    <2>1. e \in Entry
      BY DEF Old, ToSet
    <2>2. e.src \in Senders
      BY <2>1 DEF Entry
    <2>3. ASSUME NEW v PROVE Announced(e, v) \subseteq SbCh
      BY <2>2, SciAssumption DEF Announced
    <2> QED
      BY <2>3 DEF Meets
  <1>13. k \in 1..k /\ Sci[data[k].src].rsrp > ThresRsrp
    <2>1. data[k] \in Entry
      BY <1>7, <1>8
    <2>2. data[k].src \in Senders
      BY <2>1 DEF Entry
    <2>3. Sci[data[k].src].rsrp \in Int /\ ThresRsrp \in Int
      BY <2>2, SciAssumption, SensingAssumption
    <2> QED
      BY <1>5, <1>8, <2>3
  <1> QED
    BY <1>8, <1>10, <1>11, <1>12, <1>13

\* What is excluded stays justified until the next selection.
LEMMA NextNoFreeExcluded ==
    ASSUME NumbersDoNotWrap, ProjectionsDoNotWrap, IInv,
           NoFreeExcluded(txOpps, sensingData, now), [Next]_vars
    PROVE  NoFreeExcluded(txOpps', sensingData', now')
  <1>1. Listed /\ Listed'
    BY NextIInv DEF IInv
  <1>2. ASSUME NEW u \in Senders, HearSci(u) PROVE NoFreeExcluded(txOpps', sensingData', now')
    <2>1. PICK e : e = [at |-> now, src |-> u]
      OBVIOUS
    <2>2. sensingData' = Append(sensingData, e) /\ now' = now /\ txOpps' = txOpps
      BY <1>2, <2>1 DEF HearSci, DoReceiveSensingData
    <2>3. now \in Int /\ Tproc0 \in Nat /\ e \in Entry /\ e.at = now /\ sensingData \in Seq(Entry)
      BY <1>1, <2>1, SensingAssumption DEF Listed, Entry
    <2>4. ToSet(sensingData') = ToSet(sensingData) \cup {e}
      BY <2>2, <2>3, AppendedSet
    <2>5. Old(sensingData', now') = Old(sensingData, now)
      BY <2>2, <2>3, <2>4 DEF Old
    <2> QED
      BY <2>2, <2>5 DEF NoFreeExcluded
  <1>3. ASSUME txOpps' = Idle PROVE NoFreeExcluded(txOpps', sensingData', now')
    BY <1>3 DEF Idle, NoFreeExcluded
  <1>4. CASE SelectingSlot
    <2>1. txOpps' = GetNrSlTxOpportunities(sensingData', now')
      BY <1>4 DEF SelectingSlot
    <2>2. /\ sensingData' \in Seq(Entry) /\ now' \in FirstSlot..LastSlot /\ Sorted(sensingData')
          /\ \A e \in ToSet(sensingData') : e.at <= now'
      BY <1>1 DEF Listed, Sorted
    <2>3. now' \in Nat
      BY <2>2, SensingAssumption
    <2> QED
      BY <2>1, <2>2, <2>3, OfferExcludesNoFree
  <1>5. CASE UNCHANGED vars
    BY <1>5 DEF vars, NoFreeExcluded, Old
  <1>6. OtherSlot \/ SidelinkSlot => txOpps' = Idle
    BY DEF OtherSlot, SidelinkSlot
  <1> QED
    BY <1>2, <1>3, <1>4, <1>5, <1>6 DEF Next

----------------------------------------------------------------------------
(* Theorems                                                                *)

\* The inductive invariant.
THEOREM Invariance == Spec => []IInv
  <1> QED
    BY InitIInv, NextIInv, PTL DEF Spec

\* m_sensingData stays a list of SCIs in the order of their slots, whatever
\* UpdateSensingWindow erases and however often its iterator goes round the list;
\* the selection is one of candidates in the selection window.
THEOREM TypeCorrect == Spec => []TypeOK
  <1>1. IInv => TypeOK
    <2> SUFFICES ASSUME IInv PROVE TypeOK
      OBVIOUS
    <2>1. now \in Nat
      BY SensingAssumption DEF IInv, Listed
    <2>2. DOMAIN txOpps.slots \subseteq (now + T1)..(now + T2)
      BY <2>1, OpportunitiesFinite DEF IInv, Chosen
    <2> QED
      BY <2>2 DEF IInv, Listed, Chosen, Sorted, TypeOK
  <1> QED
    BY <1>1, Invariance, PTL

\* A slot of the selection window is left out only for transmissions that were
\* announced in all its sub-channels, one of them above the initial threshold, as
\* long as neither the slots of the run nor the projections wrap around.
THEOREM FreeAreOffered ==
    ASSUME NumbersDoNotWrap, ProjectionsDoNotWrap PROVE Spec => []FreeIsOffered
  <1> DEFINE P == NoFreeExcluded(txOpps, sensingData, now)
  <1>1. Init => P
    BY DEF Init, Idle, NoFreeExcluded
  <1>2. IInv /\ P /\ [Next]_vars => P'
    BY NextNoFreeExcluded
  <1>3. P => FreeIsOffered
    <2> SUFFICES ASSUME P PROVE FreeIsOffered
      OBVIOUS
    <2>1. Heeded = Old(sensingData, now)
      BY DEF Heeded, Old
    <2> QED
      BY <2>1 DEF NoFreeExcluded, FreeIsOffered, Meets
  <1> HIDE DEF P
  <1> QED
    BY <1>1, <1>2, <1>3, Invariance, PTL DEF Spec

\* The random draw of RandSelSbChStart can end in every slot that is selected.
THEOREM DrawAlwaysEnds == Spec => []DrawEnds
  <1>1. DrawEnds
    <2> SUFFICES ASSUME NEW sel \in RandomlySelectSlots(txOpps.slots),
                        NEW len \in 1..GetAvailSbChInfo(Selected(txOpps.slots, sel)),
                        NEW s \in sel
                 PROVE  RandSelSbChStart(txOpps.slots[s],
                            GetAvailSbChInfo(Selected(txOpps.slots, sel)), len) # {}
      BY DEF DrawEnds
    <2> QED
      BY StartExists
  <1> QED
    BY <1>1, PTL

\* UpdateSensingWindow erases nothing that the sensing window covers, as long as
\* the difference with the window length does not wrap around.
THEOREM WindowIsKept ==
    ASSUME NumbersDoNotWrap PROVE Spec => []WindowKept
  <1>1. Init => Kept
    BY DEF Init, Kept
  <1>2. IInv /\ Kept /\ [Next]_vars => Kept'
    BY NextKept DEF IInv
  <1>3. Kept => WindowKept
    BY DEF Kept, WindowKept
  <1> QED
    BY <1>1, <1>2, <1>3, Invariance, PTL DEF Spec

\* What is heard in the window stays in the list, and the last selection was
\* made from it.
THEOREM SensingInvariance ==
    ASSUME NumbersDoNotWrap, ProjectedFarEnough PROVE Spec => []Sensing
  <1>1. IInv /\ Sensing /\ [Next]_vars => Sensing'
    BY NextSensing
  <1> QED
    BY <1>1, InitSensing, Invariance, PTL DEF Spec

\* A candidate that strong senders of the sensing window take altogether is
\* excluded in every round of the threshold loop.
THEOREM StrongAreExcluded ==
    ASSUME NumbersDoNotWrap, ProjectedFarEnough PROVE Spec => []StrongIsExcluded
  <1>1. Sensing => StrongIsExcluded
    <2> SUFFICES ASSUME Sensing PROVE StrongIsExcluded
      OBVIOUS
    <2>1. InWindow = Window(heard, now)
      BY DEF InWindow, Window
    <2> QED
      BY <2>1 DEF Sensing, NoStrong, StrongIsExcluded
  <1> QED
    BY <1>1, SensingInvariance, PTL

\* The scheduler takes no sub-channel that a sender of the sensing window has
\* announced, unless it holds the whole slot for occupied: the occupied
\* sub-channels of a slot, once complete, are treated as free.
AvoidedUnlessFull ==
    \A s \in DOMAIN alloc :
        \/ alloc[s] \cap UNION {Announced(e, s) : e \in InWindow} = {}
        \/ SbCh \subseteq txOpps.slots[s]

\* GetAvailSbChInfo gives the draw no sub-channel that a sender of the sensing
\* window has announced for the slot, unless all of them count as occupied.
THEOREM AnnouncedAreAvoided ==
    ASSUME NumbersDoNotWrap, ProjectedFarEnough PROVE Spec => []AvoidedUnlessFull
  <1>1. IInv /\ Sensing => AvoidedUnlessFull
    <2> SUFFICES ASSUME IInv, Sensing, NEW s \in DOMAIN alloc,
                        ~(SbCh \subseteq txOpps.slots[s])
                 PROVE  alloc[s] \cap UNION {Announced(e, s) : e \in InWindow} = {}
      BY DEF AvoidedUnlessFull
    <2>1. InWindow = Window(heard, now)
      BY DEF InWindow, Window
    <2>2. s \in DOMAIN txOpps.slots /\ alloc[s] \subseteq SbCh \ txOpps.slots[s]
      BY DEF IInv, Chosen, Avail
    <2>3. \A e \in InWindow : Announced(e, s) \subseteq txOpps.slots[s]
      BY <2>1, <2>2 DEF Sensing, Recorded
    <2> QED
      BY <2>2, <2>3
  <1> QED
    BY <1>1, Invariance, SensingInvariance, PTL

=============================================================================
