-------------------------- MODULE TestRunnerProofs --------------------------
(***************************************************************************)
(* Proofs about test.py, for any sets of suites, examples and options and   *)
(* any number of worker threads.                                            *)
(***************************************************************************)
EXTENDS TestRunner, SequenceTheorems, FunctionTheorems, FiniteSetTheorems, TLAPS

Entries == [job : Jobs, result : Codes \cup {"skip", "is_break"}]
XmlEntries == [job : Jobs, result : Status]

(***************************************************************************)
(* A queue of jobs and special jobs: its real jobs, that none of them is in *)
(* it twice, and that the special jobs come last.  A queue of results: its  *)
(* jobs, and that none of them is in it twice.                              *)
(***************************************************************************)
Real(q) == ToSet(q) \ {Break}
RealOnce(q) == \A i, k \in DOMAIN q : q[i] = q[k] /\ q[i] /= Break => i = k
Fifo(q) == \A i, k \in DOMAIN q : i < k /\ q[i] = Break => q[k] = Break
JobsOf(q) == {q[i].job : i \in DOMAIN q}
JobOnce(q) == \A i, k \in DOMAIN q : q[i].job = q[k].job => i = k

(***************************************************************************)
(* Where a job can be: still to be dispatched, waiting in input_queue, held *)
(* by a worker, returned in output_queue, or written to the XML file.       *)
(***************************************************************************)
Chosen == ToSet(JobList(options))
Todo == ToSet(todo)
Waiting == Real(input_queue)
Held == {j \in Jobs : \E w \in Workers : worker[w].job = j}
Returned == JobsOf(output_queue)
Written == JobsOf(results)
InFlight == Waiting \cup Held \cup Returned

Exited == {w \in Workers : worker[w].at = "exited"}

\* The jobs written that ended well or were to be skipped.
Good == {j \in Written : ran[j] = "0" \/ IsSkip(options, j)}

\* Before the special jobs are all dispatched, or without dispatching any.
Early == {"start", "dispatch", "exit_2"}

Shape ==
    /\ options \in CommandLines
    /\ main \in Early \cup {"collect", "return_0", "return_1", "raised"}
    /\ todo \in Seq(Jobs) /\ results \in Seq(XmlEntries)
    /\ input_queue \in Seq(Jobs \cup {Break})
    /\ output_queue \in Seq(Entries)
    /\ breaks \in Nat /\ jobs \in Nat /\ total_tests \in Nat
    /\ thread_exit \in BOOLEAN
    /\ files \in [Jobs -> {"PASS", "FAIL", "none"}]
    /\ tally \in [Status -> Nat]
    /\ ran \in [Jobs -> {"no", "garbled"} \cup Codes]

\* What a worker holds at each of its steps.
Hands ==
    /\ worker \in [Workers -> [at : {"get", "got", "running", "exited"},
                              job : Jobs \cup {Break, NoJob}]]
    /\ \A w \in Workers :
          /\ worker[w].at = "get" => worker[w].job = NoJob
          /\ worker[w].at = "exited" => worker[w].job = Break
          /\ worker[w].at \in {"got", "running"} => worker[w].job \in Jobs
          /\ worker[w].at = "running" => ~IsSkip(options, worker[w].job)

\* No job is twice in the same place.
Once ==
    /\ IsInjective(todo) /\ JobOnce(results)
    /\ RealOnce(input_queue) /\ JobOnce(output_queue)
    /\ \A v, w \in Workers :
          worker[v].job = worker[w].job /\ worker[v].job \in Jobs => v = w

\* No job is in two places.
Apart ==
    /\ Todo \cap InFlight = {} /\ Todo \cap Written = {} /\ Written \cap InFlight = {}
    /\ Waiting \cap Held = {} /\ Waiting \cap Returned = {} /\ Held \cap Returned = {}
    /\ Todo \cup InFlight \cup Written \subseteq Chosen

\* The counters of the main thread count jobs.
Sums ==
    /\ total_tests = Cardinality(Chosen \ Todo)
    /\ main /= "raised" => jobs = Cardinality(InFlight)
    /\ Len(results) + jobs <= total_tests
    /\ ~thread_exit /\ main /= "raised" => Chosen \subseteq Todo \cup InFlight \cup Written
    /\ ~thread_exit => \A i \in DOMAIN output_queue : output_queue[i].result /= "is_break"

(***************************************************************************)
(* What a result in output_queue, the file of a suite and an entry of the   *)
(* XML file tell of what became of the job.                                 *)
(***************************************************************************)
ResultTells(e) ==
    /\ e.result = "0" => ran[e.job] = "0"
    /\ e.result \in Codes \ {"0"} => ran[e.job] /= "0"
    /\ e.result \in Codes => ~IsSkip(options, e.job)
    /\ e.result = "skip" => IsSkip(options, e.job)

FileTells(j) ==
    /\ files[j] /= "none" => j \in Suites
    /\ ran[j] = "0" /\ j \in Suites => files[j] = "PASS"
    /\ files[j] = "PASS" => ran[j] \in {"0", "2", "garbled"}

EntryTells(e) ==
    /\ ran[e.job] = "0" => e.result = "PASS"
    /\ IsSkip(options, e.job) => e.result = "SKIP"
    /\ e.result = "PASS" => ran[e.job] = "0" \/ e.job \in Masked
    /\ e.result = "SKIP" => IsSkip(options, e.job)

Truth ==
    /\ \A i \in DOMAIN output_queue : ResultTells(output_queue[i])
    /\ \A i \in DOMAIN results : EntryTells(results[i])
    /\ \A j \in Jobs : FileTells(j)
    /\ \A j \in Jobs : ran[j] /= "no" => ~IsSkip(options, j)
    /\ main /= "raised" =>
          \A j \in Jobs : ran[j] /= "no" =>
             j \in Written \/ \E i \in DOMAIN output_queue :
                                 /\ output_queue[i].job = j
                                 /\ output_queue[i].result /= "is_break"

\* The counters of the results.
Tallies ==
    /\ \A s \in Status : tally[s] <= Len(results)
    /\ tally["PASS"] + tally["SKIP"] = Cardinality(Good)

\* The special jobs come last, and there is one for every thread.
BreaksLast ==
    /\ breaks + Occurrences(Break, input_queue) + Cardinality(Exited) = Cardinality(Workers)
    /\ main \in Early <=> breaks > 0
    /\ main \notin Early => todo = << >>
    /\ todo /= << >> => Break \notin ToSet(input_queue) /\ Exited = {}
    /\ Exited /= {} => Waiting = {}
    /\ Fifo(input_queue)

\* What the exit status was derived from.
Ending ==
    /\ main \in {"return_0", "return_1"} => jobs = 0
    /\ main = "return_0" => tally["PASS"] + tally["SKIP"] = total_tests
    /\ main = "return_1" => tally["PASS"] + tally["SKIP"] /= total_tests

IInv == Shape /\ Hands /\ Once /\ Apart /\ Sums /\ Truth /\ Tallies /\ BreaksLast /\ Ending

-----------------------------------------------------------------------------
(***************************************************************************)
(* Sequences: what put (Append) and get (Head, Tail) do to the elements.    *)
(***************************************************************************)
LEMMA TailFacts ==
    ASSUME NEW S, NEW s \in Seq(S), s /= << >>
    PROVE  /\ Len(s) \in Nat /\ Len(s) >= 1 /\ DOMAIN s = 1 .. Len(s)
           /\ Head(s) = s[1] /\ Head(s) \in S
           /\ Tail(s) \in Seq(S) /\ Len(Tail(s)) = Len(s) - 1
           /\ DOMAIN Tail(s) = 1 .. Len(s) - 1
           /\ \A i \in 1 .. Len(s) - 1 : Tail(s)[i] = s[i + 1]
  <1>1. Len(s) \in Nat \ {0} /\ DOMAIN s = 1 .. Len(s)
    BY EmptySeq, LenProperties
  <1>2. /\ Head(s) \in S /\ Tail(s) \in Seq(S) /\ Len(Tail(s)) = Len(s) - 1
        /\ \A i \in 1 .. Len(Tail(s)) : Tail(s)[i] = s[i + 1]
    BY HeadTailProperties
  <1>3. DOMAIN Tail(s) = 1 .. Len(Tail(s))
    BY <1>2, LenProperties
  <1> QED
    BY <1>1, <1>2, <1>3

\* Putting an element into a queue makes it the last one.
LEMMA AppendFacts ==
    ASSUME NEW S, NEW s \in Seq(S), NEW x \in S
    PROVE  /\ Len(s) \in Nat /\ DOMAIN s = 1 .. Len(s)
           /\ Append(s, x) \in Seq(S) /\ Len(Append(s, x)) = Len(s) + 1
           /\ DOMAIN Append(s, x) = 1 .. Len(s) + 1
           /\ \A i \in 1 .. Len(s) : Append(s, x)[i] = s[i]
           /\ Append(s, x)[Len(s) + 1] = x
  <1>1. Len(s) \in Nat /\ DOMAIN s = 1 .. Len(s)
    BY LenProperties
  <1>2. /\ Append(s, x) \in Seq(S) /\ Len(Append(s, x)) = Len(s) + 1
        /\ \A i \in 1 .. Len(s) : Append(s, x)[i] = s[i]
        /\ Append(s, x)[Len(s) + 1] = x
    BY AppendProperties
  <1>3. DOMAIN Append(s, x) = 1 .. Len(Append(s, x))
    BY <1>2, LenProperties
  <1> QED
    BY <1>1, <1>2, <1>3

\* An empty list has no elements.
LEMMA EmptyToSet == ToSet(<< >>) = {}
  BY DEF ToSet

\* Taking the head of a list without repetitions.
LEMMA TailOfInjective ==
    ASSUME NEW S, NEW s \in Seq(S), s /= << >>, IsInjective(s)
    PROVE  /\ IsInjective(Tail(s))
           /\ ToSet(Tail(s)) = ToSet(s) \ {Head(s)}
           /\ Head(s) \in ToSet(s)
  <1>1. /\ Len(s) \in Nat /\ Len(s) >= 1 /\ DOMAIN s = 1 .. Len(s)
        /\ Head(s) = s[1]
        /\ DOMAIN Tail(s) = 1 .. Len(s) - 1
        /\ \A i \in 1 .. Len(s) - 1 : Tail(s)[i] = s[i + 1]
    BY TailFacts
  <1>2. \A a, b \in 1 .. Len(s) : s[a] = s[b] => a = b
    BY <1>1 DEF IsInjective
  <1>3. IsInjective(Tail(s))
    BY <1>1, <1>2 DEF IsInjective
  <1>4. ToSet(Tail(s)) \subseteq ToSet(s) \ {Head(s)}
    BY <1>1, <1>2 DEF ToSet
  <1>5. ASSUME NEW y \in ToSet(s) \ {Head(s)} PROVE y \in ToSet(Tail(s))
    <2>1. PICK i \in 1 .. Len(s) : y = s[i]
      BY <1>1 DEF ToSet
    <2>2. i - 1 \in 1 .. Len(s) - 1 /\ (i - 1) + 1 = i
      BY <1>1, <2>1
    <2>3. Tail(s)[i - 1] = y
      BY <1>1, <2>1, <2>2
    <2> QED
      BY <1>1, <2>2, <2>3 DEF ToSet
  <1>6. Head(s) \in ToSet(s)
    BY <1>1 DEF ToSet
  <1> QED
    BY <1>3, <1>4, <1>5, <1>6

\* Appending to a list.
LEMMA ToSetAppend ==
    ASSUME NEW S, NEW s \in Seq(S), NEW x \in S
    PROVE  ToSet(Append(s, x)) = ToSet(s) \cup {x}
  <1>1. /\ Len(s) \in Nat /\ DOMAIN s = 1 .. Len(s)
        /\ DOMAIN Append(s, x) = 1 .. Len(s) + 1
        /\ \A i \in 1 .. Len(s) : Append(s, x)[i] = s[i]
        /\ Append(s, x)[Len(s) + 1] = x
    BY AppendFacts
  <1>2. \A i \in 1 .. Len(s) + 1 : i \in 1 .. Len(s) \/ i = Len(s) + 1
    BY <1>1
  <1>3. ToSet(Append(s, x)) \subseteq ToSet(s) \cup {x}
    BY <1>1, <1>2 DEF ToSet
  <1>4. \A i \in 1 .. Len(s) : i \in 1 .. Len(s) + 1
    BY <1>1
  <1>5. Len(s) + 1 \in 1 .. Len(s) + 1
    BY <1>1
  <1>6. ToSet(s) \cup {x} \subseteq ToSet(Append(s, x))
    BY <1>1, <1>4, <1>5 DEF ToSet
  <1> QED
    BY <1>3, <1>6

(***************************************************************************)
(* Occurrences in a queue are counted by put and get.                       *)
(***************************************************************************)
LEMMA OccurrencesNat ==
    ASSUME NEW S, NEW s \in Seq(S), NEW e
    PROVE  /\ IsFiniteSet({i \in DOMAIN s : s[i] = e})
           /\ Occurrences(e, s) \in Nat
  <1>1. IsFiniteSet(1 .. Len(s)) /\ DOMAIN s = 1 .. Len(s)
    BY LenProperties, FS_Interval
  <1>2. IsFiniteSet({i \in DOMAIN s : s[i] = e})
    BY <1>1, FS_Subset
  <1> QED
    BY <1>2, FS_CardinalityType DEF Occurrences

\* A put adds an occurrence of what is put.
LEMMA OccurrencesAppend ==
    ASSUME NEW S, NEW s \in Seq(S), NEW x \in S, NEW e
    PROVE  Occurrences(e, Append(s, x)) =
              Occurrences(e, s) + (IF x = e THEN 1 ELSE 0)
  <1> DEFINE D == {i \in DOMAIN s : s[i] = e}
  <1> DEFINE E == {i \in DOMAIN Append(s, x) : Append(s, x)[i] = e}
  <1>1. /\ Len(s) \in Nat /\ DOMAIN s = 1 .. Len(s)
        /\ DOMAIN Append(s, x) = 1 .. Len(s) + 1
        /\ \A i \in 1 .. Len(s) : Append(s, x)[i] = s[i]
        /\ Append(s, x)[Len(s) + 1] = x
    BY AppendFacts
  <1>2. IsFiniteSet(D) /\ Cardinality(D) \in Nat
    BY OccurrencesNat, FS_CardinalityType
  <1>0. Occurrences(e, s) = Cardinality(D) /\ Occurrences(e, Append(s, x)) = Cardinality(E)
    BY DEF Occurrences
  <1>3. Len(s) + 1 \notin D
    BY <1>1
  <1>4. CASE x = e
    <2>1. E = D \cup {Len(s) + 1}
      BY <1>1, <1>4
    <2>2. Cardinality(D \cup {Len(s) + 1}) = Cardinality(D) + 1
      BY <1>2, <1>3, FS_AddElement
    <2> QED
      BY <1>4, <2>1, <2>2 DEF Occurrences
  <1>5. CASE x /= e
    <2>1. E = D
      BY <1>1, <1>5
    <2>2. Occurrences(e, Append(s, x)) = Occurrences(e, s)
      BY <1>0, <2>1
    <2>3. Occurrences(e, s) \in Nat
      BY <1>0, <1>2
    <2> QED
      BY <1>5, <2>2, <2>3
  <1> QED
    BY <1>4, <1>5

\* A get removes an occurrence of what is got.
LEMMA OccurrencesTail ==
    ASSUME NEW S, NEW s \in Seq(S), s /= << >>, NEW e
    PROVE  Occurrences(e, Tail(s)) =
              Occurrences(e, s) - (IF Head(s) = e THEN 1 ELSE 0)
  <1> DEFINE D == {i \in DOMAIN s : s[i] = e}
  <1> DEFINE E == {i \in DOMAIN Tail(s) : Tail(s)[i] = e}
  <1>1. /\ Len(s) \in Nat /\ Len(s) >= 1 /\ DOMAIN s = 1 .. Len(s)
        /\ Head(s) = s[1]
        /\ DOMAIN Tail(s) = 1 .. Len(s) - 1
        /\ \A i \in 1 .. Len(s) - 1 : Tail(s)[i] = s[i + 1]
    BY TailFacts
  <1>2. IsFiniteSet(D) /\ Cardinality(D) \in Nat
    BY OccurrencesNat, FS_CardinalityType
  <1>3. IsFiniteSet(D \ {1})
        /\ Cardinality(D \ {1}) = IF 1 \in D THEN Cardinality(D) - 1 ELSE Cardinality(D)
    BY <1>2, FS_RemoveElement
  <1>4. Cardinality(E) = Cardinality(D \ {1})
    <2> DEFINE f == [i \in D \ {1} |-> i - 1]
    <2>1. ASSUME NEW i \in D \ {1} PROVE i - 1 \in E /\ i \in Nat
      <3>1. i \in 1 .. Len(s) /\ i /= 1 /\ s[i] = e
        BY <1>1
      <3>2. i - 1 \in 1 .. Len(s) - 1 /\ (i - 1) + 1 = i
        BY <1>1, <3>1
      <3> QED
        BY <1>1, <3>1, <3>2
    <2>2. f \in [D \ {1} -> E]
      BY <2>1
    <2>3. \A a, b \in D \ {1} : f[a] = f[b] => a = b
      BY <2>1
    <2>4. ASSUME NEW k \in E PROVE \E i \in D \ {1} : f[i] = k
      <3>1. k \in 1 .. Len(s) - 1 /\ s[k + 1] = e
        BY <1>1
      <3>2. k + 1 \in D \ {1} /\ (k + 1) - 1 = k
        BY <1>1, <3>1
      <3> QED
        BY <3>2
    <2>5. f \in Bijection(D \ {1}, E)
      BY <2>2, <2>3, <2>4, Fun_IsBij
    <2>6. ExistsBijection(D \ {1}, E)
      BY <2>5, Fun_ExistsBij
    <2> QED
      BY <1>3, <2>6, FS_Bijection
  <1>5. 1 \in D <=> Head(s) = e
    BY <1>1
  <1>6. Occurrences(e, s) = Cardinality(D) /\ Occurrences(e, Tail(s)) = Cardinality(E)
    BY DEF Occurrences
  <1> HIDE DEF D, E
  <1>7. CASE Head(s) = e
    BY <1>2, <1>3, <1>4, <1>5, <1>6, <1>7
  <1>8. CASE Head(s) /= e
    BY <1>2, <1>3, <1>4, <1>5, <1>6, <1>8
  <1> QED
    BY <1>7, <1>8

\* An element of a list without repetitions occurs once.
LEMMA OccurrencesOnce ==
    ASSUME NEW S, NEW s \in Seq(S), NEW e,
           \A i, k \in DOMAIN s : s[i] = e /\ s[k] = e => i = k
    PROVE  Occurrences(e, s) = IF e \in ToSet(s) THEN 1 ELSE 0
  <1>1. CASE e \in ToSet(s)
    <2>1. PICK i \in DOMAIN s : s[i] = e
      BY <1>1 DEF ToSet
    <2>2. {k \in DOMAIN s : s[k] = e} = {i}
      BY <2>1
    <2> QED
      BY <1>1, <2>2, FS_Singleton DEF Occurrences
  <1>2. CASE e \notin ToSet(s)
    <2>1. {k \in DOMAIN s : s[k] = e} = {}
      BY <1>2 DEF ToSet
    <2> QED
      BY <1>2, <2>1, FS_EmptySet DEF Occurrences
  <1> QED
    BY <1>1, <1>2

-----------------------------------------------------------------------------
(***************************************************************************)
(* The queues of test.py under put and get.                                 *)
(***************************************************************************)
LEMMA PutReal ==
    ASSUME NEW S, NEW q \in Seq(S), NEW x \in S, RealOnce(q),
           x = Break \/ x \notin ToSet(q)
    PROVE  /\ RealOnce(Append(q, x))
           /\ Real(Append(q, x)) = Real(q) \cup ({x} \ {Break})
  <1>1. /\ Len(q) \in Nat /\ DOMAIN q = 1 .. Len(q)
        /\ DOMAIN Append(q, x) = 1 .. Len(q) + 1
        /\ \A i \in 1 .. Len(q) : Append(q, x)[i] = q[i]
        /\ Append(q, x)[Len(q) + 1] = x
    BY AppendFacts
  <1>2. \A i, k \in 1 .. Len(q) : q[i] = q[k] /\ q[i] /= Break => i = k
    BY <1>1 DEF RealOnce
  <1>3. \A i \in 1 .. Len(q) : q[i] /= x \/ x = Break
    BY <1>1 DEF ToSet
  <1>4. RealOnce(Append(q, x))
    BY <1>1, <1>2, <1>3 DEF RealOnce
  <1>5. Real(Append(q, x)) = Real(q) \cup ({x} \ {Break})
    BY ToSetAppend DEF Real
  <1> QED
    BY <1>4, <1>5

\* A get of input_queue takes a job out of it for good.
LEMMA GetReal ==
    ASSUME NEW S, NEW q \in Seq(S), q /= << >>, RealOnce(q)
    PROVE  /\ RealOnce(Tail(q))
           /\ Real(Tail(q)) = Real(q) \ {Head(q)}
           /\ Head(q) \in ToSet(q)
  <1>1. /\ Len(q) \in Nat /\ Len(q) >= 1 /\ DOMAIN q = 1 .. Len(q)
        /\ Head(q) = q[1]
        /\ DOMAIN Tail(q) = 1 .. Len(q) - 1
        /\ \A i \in 1 .. Len(q) - 1 : Tail(q)[i] = q[i + 1]
    BY TailFacts
  <1>2. \A i, k \in 1 .. Len(q) : q[i] = q[k] /\ q[i] /= Break => i = k
    BY <1>1 DEF RealOnce
  <1>3. RealOnce(Tail(q))
    BY <1>1, <1>2 DEF RealOnce
  <1>4. Real(Tail(q)) \subseteq Real(q) \ {Head(q)}
    BY <1>1, <1>2 DEF Real, ToSet
  <1>5. ASSUME NEW y \in Real(q) \ {Head(q)} PROVE y \in Real(Tail(q))
    <2>1. PICK i \in 1 .. Len(q) : y = q[i]
      BY <1>1 DEF Real, ToSet
    <2>2. i - 1 \in 1 .. Len(q) - 1 /\ (i - 1) + 1 = i
      BY <1>1, <2>1
    <2>3. Tail(q)[i - 1] = y
      BY <1>1, <2>1, <2>2
    <2> QED
      BY <1>1, <2>2, <2>3 DEF Real, ToSet
  <1>6. Head(q) \in ToSet(q)
    BY <1>1 DEF ToSet
  <1> QED
    BY <1>3, <1>4, <1>5, <1>6

\* A special job, or any job before the first special one, may be put last.
LEMMA PutFifo ==
    ASSUME NEW S, NEW q \in Seq(S), NEW x \in S, Fifo(q),
           x = Break \/ Break \notin ToSet(q)
    PROVE  Fifo(Append(q, x))
  <1>1. /\ Len(q) \in Nat /\ DOMAIN q = 1 .. Len(q)
        /\ DOMAIN Append(q, x) = 1 .. Len(q) + 1
        /\ \A i \in 1 .. Len(q) : Append(q, x)[i] = q[i]
        /\ Append(q, x)[Len(q) + 1] = x
    BY AppendFacts
  <1>2. \A i, k \in 1 .. Len(q) : i < k /\ q[i] = Break => q[k] = Break
    BY <1>1 DEF Fifo
  <1>3. x = Break \/ \A i \in 1 .. Len(q) : q[i] /= Break
    BY <1>1 DEF ToSet
  <1> QED
    BY <1>1, <1>2, <1>3 DEF Fifo

\* When a special job is at the head no real job is behind it.
LEMMA GetFifo ==
    ASSUME NEW S, NEW q \in Seq(S), q /= << >>, Fifo(q)
    PROVE  /\ Fifo(Tail(q))
           /\ Head(q) = Break => Real(Tail(q)) = {}
           /\ Break \in ToSet(Tail(q)) => Break \in ToSet(q)
  <1>1. /\ Len(q) \in Nat /\ Len(q) >= 1 /\ DOMAIN q = 1 .. Len(q)
        /\ Head(q) = q[1]
        /\ DOMAIN Tail(q) = 1 .. Len(q) - 1
        /\ \A i \in 1 .. Len(q) - 1 : Tail(q)[i] = q[i + 1]
    BY TailFacts
  <1>2. \A i, k \in 1 .. Len(q) : i < k /\ q[i] = Break => q[k] = Break
    BY <1>1 DEF Fifo
  <1>3. Fifo(Tail(q))
    BY <1>1, <1>2 DEF Fifo
  <1>4. ASSUME Head(q) = Break PROVE Real(Tail(q)) = {}
    <2>1. \A i \in 1 .. Len(q) - 1 : Tail(q)[i] = Break
      BY <1>1, <1>2, <1>4
    <2> QED
      BY <1>1, <2>1 DEF Real, ToSet
  <1>5. Break \in ToSet(Tail(q)) => Break \in ToSet(q)
    BY <1>1 DEF ToSet
  <1> QED
    BY <1>3, <1>4, <1>5

\* A put into output_queue reports one job more.
LEMMA PutResult ==
    ASSUME NEW S, NEW q \in Seq(S), NEW r \in S, JobOnce(q), r.job \notin JobsOf(q)
    PROVE  /\ JobOnce(Append(q, r))
           /\ JobsOf(Append(q, r)) = JobsOf(q) \cup {r.job}
  <1>1. /\ Len(q) \in Nat /\ DOMAIN q = 1 .. Len(q)
        /\ DOMAIN Append(q, r) = 1 .. Len(q) + 1
        /\ \A i \in 1 .. Len(q) : Append(q, r)[i] = q[i]
        /\ Append(q, r)[Len(q) + 1] = r
    BY AppendFacts
  <1>2. \A i, k \in 1 .. Len(q) : q[i].job = q[k].job => i = k
    BY <1>1 DEF JobOnce
  <1>3. \A i \in 1 .. Len(q) : q[i].job /= r.job
    BY <1>1 DEF JobsOf
  <1>4. JobOnce(Append(q, r))
    BY <1>1, <1>2, <1>3 DEF JobOnce
  <1>5. \A i \in 1 .. Len(q) + 1 : i \in 1 .. Len(q) \/ i = Len(q) + 1
    BY <1>1
  <1>6. \A i \in 1 .. Len(q) : i \in 1 .. Len(q) + 1
    BY <1>1
  <1>7. Len(q) + 1 \in 1 .. Len(q) + 1
    BY <1>1
  <1>8. JobsOf(Append(q, r)) = JobsOf(q) \cup {r.job}
    BY <1>1, <1>5, <1>6, <1>7 DEF JobsOf
  <1> QED
    BY <1>4, <1>8

\* A get of output_queue takes the result of one job out of it.
LEMMA GetResult ==
    ASSUME NEW S, NEW q \in Seq(S), q /= << >>, JobOnce(q)
    PROVE  /\ JobOnce(Tail(q))
           /\ JobsOf(Tail(q)) = JobsOf(q) \ {Head(q).job}
           /\ Head(q).job \in JobsOf(q)
  <1>1. /\ Len(q) \in Nat /\ Len(q) >= 1 /\ DOMAIN q = 1 .. Len(q)
        /\ Head(q) = q[1]
        /\ DOMAIN Tail(q) = 1 .. Len(q) - 1
        /\ \A i \in 1 .. Len(q) - 1 : Tail(q)[i] = q[i + 1]
    BY TailFacts
  <1>2. \A i, k \in 1 .. Len(q) : q[i].job = q[k].job => i = k
    BY <1>1 DEF JobOnce
  <1>3. JobOnce(Tail(q))
    BY <1>1, <1>2 DEF JobOnce
  <1>4. JobsOf(Tail(q)) \subseteq JobsOf(q) \ {Head(q).job}
    BY <1>1, <1>2 DEF JobsOf
  <1>5. ASSUME NEW y \in JobsOf(q) \ {Head(q).job} PROVE y \in JobsOf(Tail(q))
    <2>1. PICK i \in 1 .. Len(q) : y = q[i].job
      BY <1>1 DEF JobsOf
    <2>2. i - 1 \in 1 .. Len(q) - 1 /\ (i - 1) + 1 = i
      BY <1>1, <2>1
    <2>3. Tail(q)[i - 1] = q[i]
      BY <1>1, <2>1, <2>2
    <2> QED
      BY <1>1, <2>1, <2>2, <2>3 DEF JobsOf
  <1>6. Head(q).job \in JobsOf(q)
    BY <1>1 DEF JobsOf
  <1> QED
    BY <1>3, <1>4, <1>5, <1>6

-----------------------------------------------------------------------------
(***************************************************************************)
(* The list of jobs chosen by the options has no repetitions.               *)
(***************************************************************************)
LEMMA SetToSeqFacts ==
    ASSUME NEW T, IsFiniteSet(T)
    PROVE  /\ SetToSeq(T) \in Seq(T)
           /\ IsInjective(SetToSeq(T))
           /\ ToSet(SetToSeq(T)) = T
  <1> DEFINE n == Cardinality(T)
  <1> DEFINE g == SetToSeq(T)
  <1>1. n \in Nat /\ ExistsBijection(1 .. n, T)
    BY FS_CardinalityType
  <1>2. PICK f : f \in Bijection(1 .. n, T)
    BY <1>1, Fun_ExistsBij
  <1>3. f \in [1 .. n -> T] /\ IsInjective(f)
    BY <1>2 DEF Bijection, Injection
  <1>4. g \in [1 .. n -> T] /\ IsInjective(g)
    BY <1>3 DEF SetToSeq
  <1> HIDE DEF g
  <1>5. g \in Injection(1 .. n, T)
    BY <1>4, Fun_IsInj DEF IsInjective
  <1>6. Cardinality(1 .. n) = n /\ IsFiniteSet(1 .. n)
    BY <1>1, FS_Interval
  <1>7. g \in Surjection(1 .. n, T)
    BY <1>5, <1>6, FS_Injection
  <1>8. \A t \in T : \E i \in 1 .. n : g[i] = t
    BY <1>7 DEF Surjection
  <1>9. ToSet(g) = T
    BY <1>4, <1>8 DEF ToSet
  <1>10. g \in Seq(T)
    BY <1>1, <1>4
  <1> QED
    BY <1>4, <1>9, <1>10 DEF g

\* Two lists without repetitions and with nothing in common.
LEMMA ConcatOfInjective ==
    ASSUME NEW S, NEW s \in Seq(S), NEW t \in Seq(S), IsInjective(s), IsInjective(t),
           ToSet(s) \cap ToSet(t) = {}
    PROVE  /\ s \o t \in Seq(S)
           /\ IsInjective(s \o t)
           /\ ToSet(s \o t) = ToSet(s) \cup ToSet(t)
  <1> DEFINE u == s \o t
  <1>1. /\ Len(s) \in Nat /\ DOMAIN s = 1 .. Len(s)
        /\ Len(t) \in Nat /\ DOMAIN t = 1 .. Len(t)
    BY LenProperties
  <1>2. /\ u \in Seq(S) /\ Len(u) = Len(s) + Len(t)
        /\ \A i \in 1 .. Len(s) + Len(t) : u[i] = IF i <= Len(s) THEN s[i] ELSE t[i - Len(s)]
    BY ConcatProperties
  <1>3. DOMAIN u = 1 .. Len(s) + Len(t)
    BY <1>2, LenProperties
  <1> HIDE DEF u
  <1>4. \A i \in 1 .. Len(s) + Len(t) :
           \/ i \in 1 .. Len(s) /\ u[i] = s[i]
           \/ i - Len(s) \in 1 .. Len(t) /\ u[i] = t[i - Len(s)]
    BY <1>1, <1>2
  <1>5. \A i \in 1 .. Len(s), k \in 1 .. Len(t) : s[i] /= t[k]
    BY <1>1 DEF ToSet
  <1>6. IsInjective(u)
    <2> SUFFICES ASSUME NEW a \in DOMAIN u, NEW b \in DOMAIN u, u[a] = u[b] PROVE a = b
      BY DEF IsInjective
    <2>1. CASE a \in 1 .. Len(s) /\ b \in 1 .. Len(s)
      BY <1>1, <1>2, <1>3, <2>1 DEF IsInjective
    <2>2. CASE a - Len(s) \in 1 .. Len(t) /\ b - Len(s) \in 1 .. Len(t)
      <3>1. t[a - Len(s)] = t[b - Len(s)]
        BY <1>1, <1>2, <1>3, <2>2
      <3>2. a - Len(s) = b - Len(s)
        BY <1>1, <2>2, <3>1 DEF IsInjective
      <3> QED
        BY <1>1, <1>3, <3>2
    <2> QED
      BY <1>3, <1>4, <1>5, <2>1, <2>2
  <1>7. ToSet(u) \subseteq ToSet(s) \cup ToSet(t)
    BY <1>1, <1>3, <1>4 DEF ToSet
  <1>8. \A i \in 1 .. Len(s) : i \in 1 .. Len(s) + Len(t) /\ u[i] = s[i]
    BY <1>1, <1>2
  <1>9. \A i \in 1 .. Len(t) : i + Len(s) \in 1 .. Len(s) + Len(t) /\ u[i + Len(s)] = t[i]
    BY <1>1, <1>2
  <1>10. ToSet(s) \cup ToSet(t) \subseteq ToSet(u)
    BY <1>1, <1>3, <1>8, <1>9 DEF ToSet
  <1> QED
    BY <1>2, <1>6, <1>7, <1>10 DEF u

\* JobList: suites, examples and Python examples, each of them once.
LEMMA JobListOnce ==
    ASSUME NEW o \in Options
    PROVE  /\ JobList(o) \in Seq(Jobs)
           /\ IsInjective(JobList(o))
           /\ ToSet(JobList(o)) \subseteq Jobs
           /\ IsFiniteSet(ToSet(JobList(o)))
  <1> DEFINE A == SuiteList(o)
  <1> DEFINE B == ExampleList(o)
  <1> DEFINE C == PyExampleList(o)
  <1>1. o.suite \subseteq Suites /\ o.example \subseteq Examples /\ o.pyexample \subseteq PyExamples
    BY DEF Options
  <1>2. \A type : PrintTestNameList(type) \subseteq Suites \cup Unlisted
    BY RunnerAssumption DEF PrintTestNameList
  <1>3. A \subseteq Suites \cup Unlisted
    BY <1>1, <1>2 DEF SuiteList
  <1>4. B \subseteq Examples
    BY <1>1 DEF ExampleList
  <1>5. C \subseteq PyExamples
    BY <1>1 DEF PyExampleList
  <1> HIDE DEF A, B, C
  <1>6. A \subseteq Jobs /\ B \subseteq Jobs /\ C \subseteq Jobs
    BY <1>3, <1>4, <1>5 DEF Jobs
  <1>7. IsFiniteSet(A) /\ IsFiniteSet(B) /\ IsFiniteSet(C)
    BY <1>6, JobsAssumption, FS_Subset
  <1>8. /\ SetToSeq(A) \in Seq(A) /\ IsInjective(SetToSeq(A)) /\ ToSet(SetToSeq(A)) = A
        /\ SetToSeq(B) \in Seq(B) /\ IsInjective(SetToSeq(B)) /\ ToSet(SetToSeq(B)) = B
        /\ SetToSeq(C) \in Seq(C) /\ IsInjective(SetToSeq(C)) /\ ToSet(SetToSeq(C)) = C
    BY <1>7, SetToSeqFacts
  <1>9. SetToSeq(A) \in Seq(Jobs) /\ SetToSeq(B) \in Seq(Jobs) /\ SetToSeq(C) \in Seq(Jobs)
    BY <1>6, <1>8, SeqMonotonic
  <1>10. A \cap B = {} /\ (A \cup B) \cap C = {}
    BY <1>3, <1>4, <1>5, JobsAssumption
  <1>11. /\ SetToSeq(A) \o SetToSeq(B) \in Seq(Jobs)
         /\ IsInjective(SetToSeq(A) \o SetToSeq(B))
         /\ ToSet(SetToSeq(A) \o SetToSeq(B)) = A \cup B
    BY <1>8, <1>9, <1>10, ConcatOfInjective
  <1> DEFINE D == SetToSeq(A) \o SetToSeq(B)
  <1> DEFINE E == SetToSeq(C)
  <1>12. /\ D \in Seq(Jobs) /\ E \in Seq(Jobs) /\ IsInjective(D) /\ IsInjective(E)
         /\ ToSet(D) = A \cup B /\ ToSet(E) = C
    BY <1>8, <1>9, <1>11
  <1>13. JobList(o) = D \o E
    BY DEF JobList, A, B, C
  <1> HIDE DEF D, E
  <1>14. ToSet(D) \cap ToSet(E) = {}
    BY <1>10, <1>12
  <1>15. D \o E \in Seq(Jobs) /\ IsInjective(D \o E) /\ ToSet(D \o E) = ToSet(D) \cup ToSet(E)
    BY <1>12, <1>14, ConcatOfInjective
  <1>16. ToSet(JobList(o)) \subseteq Jobs
    BY <1>6, <1>12, <1>13, <1>15
  <1> QED
    BY <1>13, <1>15, <1>16, JobsAssumption, FS_Subset

-----------------------------------------------------------------------------
(***************************************************************************)
(* The sets the invariant counts are finite.                                *)
(***************************************************************************)
LEMMA Finite ==
    ASSUME IInv
    PROVE  /\ Chosen \subseteq Jobs /\ IsFiniteSet(Chosen)
           /\ IsFiniteSet(InFlight) /\ Cardinality(InFlight) \in Nat
           /\ IsFiniteSet(Chosen \ Todo) /\ Cardinality(Chosen \ Todo) \in Nat
           /\ IsFiniteSet(Good) /\ Cardinality(Good) \in Nat
           /\ IsFiniteSet(Exited) /\ Cardinality(Exited) \in Nat
           /\ Cardinality(Workers) \in Nat /\ Cardinality(Workers) > 0
           /\ Occurrences(Break, input_queue) \in Nat
  <1>1. Chosen \subseteq Jobs /\ IsFiniteSet(Chosen)
    BY JobListOnce, CommandLinesAssumption DEF IInv, Shape, Chosen
  <1>2. IsFiniteSet(InFlight) /\ IsFiniteSet(Chosen \ Todo) /\ IsFiniteSet(Good)
    BY <1>1, FS_Subset DEF IInv, Apart, Good
  <1>3. IsFiniteSet(Exited) /\ IsFiniteSet(Workers)
    BY RunnerAssumption, FS_Subset DEF Exited
  <1>4. Cardinality(Workers) \in Nat /\ Cardinality(Workers) /= 0
    BY RunnerAssumption, FS_EmptySet, FS_CardinalityType
  <1>5. Occurrences(Break, input_queue) \in Nat
    BY OccurrencesNat DEF IInv, Shape
  <1> QED
    BY <1>1, <1>2, <1>3, <1>4, <1>5, FS_CardinalityType

\* The state in which the script starts its threads.
LEMMA InitIInv == Init => IInv
  <1> SUFFICES ASSUME Init PROVE IInv
    OBVIOUS
  <1>1. /\ options \in CommandLines /\ todo = JobList(options) /\ todo \in Seq(Jobs)
        /\ IsInjective(todo) /\ ToSet(todo) \subseteq Jobs
    BY JobListOnce, CommandLinesAssumption DEF Init
  <1>2. IsFiniteSet(Workers) /\ Workers /= {} /\ Cardinality(Workers) \in Nat \ {0}
    BY RunnerAssumption, FS_EmptySet, FS_CardinalityType
  <1>3. Shape
    BY <1>1, <1>2, EmptySeq DEF Init, Shape, Early
  <1>4. Hands
    BY DEF Init, Hands
  <1>5. /\ ToSet(<< >>) = {} /\ RealOnce(<< >>) /\ JobOnce(<< >>) /\ IsInjective(<< >>)
        /\ JobsOf(<< >>) = {} /\ Fifo(<< >>)
    BY DEF ToSet, RealOnce, JobOnce, IsInjective, JobsOf, Fifo
  <1>6. /\ Waiting = {} /\ Returned = {} /\ Written = {} /\ Todo = Chosen
    BY <1>1, <1>5 DEF Init, Waiting, Real, Returned, Written, Todo, Chosen
  <1>7. Held = {} /\ Exited = {}
    BY JobsAssumption DEF Init, Held, Exited
  <1>8. Once
    BY <1>1, <1>5, JobsAssumption DEF Init, Once
  <1>9. InFlight = {} /\ Chosen \ Todo = {} /\ Good = {}
    BY <1>6, <1>7 DEF InFlight, Good
  <1>10. Apart
    BY <1>6, <1>7, <1>9 DEF Apart
  <1>11. Sums
    <2>0. Chosen \subseteq Todo
      BY <1>6
    <2>1. /\ total_tests = 0 /\ jobs = 0 /\ Len(results) = 0
          /\ Cardinality(InFlight) = 0 /\ Cardinality(Chosen \ Todo) = 0
      BY <1>9, FS_EmptySet, EmptySeq DEF Init
    <2>2. DOMAIN output_queue = {}
      BY DEF Init
    <2> QED
      BY <2>0, <2>1, <2>2 DEF Sums
  <1>12. Truth
    <2>1. DOMAIN output_queue = {} /\ DOMAIN results = {}
      BY DEF Init
    <2>2. \A j \in Jobs : files[j] = "none" /\ ran[j] = "no"
      BY DEF Init
    <2> QED
      BY <2>1, <2>2 DEF Truth, FileTells
  <1>13. Tallies
    BY <1>9, FS_EmptySet, EmptySeq DEF Init, Tallies, Status
  <1>14. BreaksLast
    <2>1. Occurrences(Break, << >>) = 0
      BY FS_EmptySet DEF Occurrences
    <2> QED
      BY <1>2, <1>5, <1>6, <1>7, <2>1, FS_EmptySet DEF Init, BreaksLast, Early
  <1>15. Ending
    BY DEF Init, Ending
  <1> QED
    BY <1>3, <1>4, <1>8, <1>10, <1>11, <1>12, <1>13, <1>14, <1>15 DEF IInv

\* What is told of the jobs changes with the processes and the results only.
LEMMA TruthKept ==
    ASSUME Truth, UNCHANGED <<options, files, ran, output_queue, results>>,
           main = "raised" => main' = "raised"
    PROVE  Truth'
  <1>1. \A i \in DOMAIN output_queue' : ResultTells(output_queue[i])'
    BY DEF Truth, ResultTells
  <1>2. \A i \in DOMAIN results' : EntryTells(results[i])'
    BY DEF Truth, EntryTells, Masked
  <1>3. \A j \in Jobs : FileTells(j)' /\ (ran'[j] /= "no" => ~IsSkip(options', j))
    BY DEF Truth, FileTells
  <1>4. Written' = Written
    BY DEF Written
  <1> QED
    BY <1>1, <1>2, <1>3, <1>4 DEF Truth

\* An interrupt only sets the flag.
LEMMA SigintIInv ==
    ASSUME IInv, sigint_hook
    PROVE  IInv'
  <1>1. /\ UNCHANGED <<mainVars, input_queue, output_queue, worker, files, ran>>
        /\ thread_exit' = TRUE
    BY DEF sigint_hook
  <1>2. /\ UNCHANGED <<options, main, todo, breaks, jobs, tally, total_tests, results>>
    BY <1>1 DEF mainVars
  <1>3. UNCHANGED <<Chosen, Todo, Waiting, Held, Returned, Written, InFlight, Exited, Good>>
    BY <1>1, <1>2 DEF Chosen, Todo, Waiting, Held, Returned, Written, InFlight, Exited, Good
  <1>4. Shape' /\ Hands' /\ Once'
    BY <1>1, <1>2 DEF IInv, Shape, Hands, Once
  <1>5. Apart' /\ Sums' /\ Tallies' /\ BreaksLast' /\ Ending'
    BY <1>1, <1>2, <1>3 DEF IInv, Apart, Sums, Tallies, BreaksLast, Ending
  <1>6. Truth'
    BY <1>1, <1>2, TruthKept DEF IInv
  <1> QED
    BY <1>4, <1>5, <1>6 DEF IInv

\* A step that changes nothing.
LEMMA StutterIInv ==
    ASSUME IInv, UNCHANGED vars
    PROVE  IInv'
  <1>1. /\ UNCHANGED <<mainVars, input_queue, output_queue, worker, files, ran, thread_exit>>
    BY DEF vars
  <1>2. /\ UNCHANGED <<options, main, todo, breaks, jobs, tally, total_tests, results>>
    BY <1>1 DEF mainVars
  <1>3. UNCHANGED <<Chosen, Todo, Waiting, Held, Returned, Written, InFlight, Exited, Good>>
    BY <1>1, <1>2 DEF Chosen, Todo, Waiting, Held, Returned, Written, InFlight, Exited, Good
  <1>4. Shape' /\ Hands' /\ Once'
    BY <1>1, <1>2 DEF IInv, Shape, Hands, Once
  <1>5. Apart' /\ Sums' /\ Tallies' /\ BreaksLast' /\ Ending'
    BY <1>1, <1>2, <1>3 DEF IInv, Apart, Sums, Tallies, BreaksLast, Ending
  <1>6. Truth'
    BY <1>1, <1>2, TruthKept DEF IInv
  <1> QED
    BY <1>4, <1>5, <1>6 DEF IInv

\* The script goes on, or ends because there is no such suite.
LEMMA StartIInv ==
    ASSUME IInv, Start
    PROVE  IInv'
  <1>1. /\ main = "start" /\ main' \in {"dispatch", "exit_2"}
        /\ options' = options /\ todo' = todo /\ breaks' = breaks /\ jobs' = jobs
        /\ tally' = tally /\ total_tests' = total_tests /\ results' = results
        /\ input_queue' = input_queue /\ output_queue' = output_queue /\ worker' = worker
        /\ thread_exit' = thread_exit /\ files' = files /\ ran' = ran
    BY DEF Start
  <1>2. Shape /\ Hands /\ Once /\ Apart /\ Sums /\ Truth /\ Tallies /\ BreaksLast /\ Ending
    BY DEF IInv
  <1>3. UNCHANGED <<Chosen, Todo, Waiting, Held, Returned, Written, InFlight, Exited, Good>>
    BY <1>1 DEF Chosen, Todo, Waiting, Held, Returned, Written, InFlight, Exited, Good
  <1>4. main \in Early /\ main' \in Early
    BY <1>1 DEF Early
  <1>5. Shape' /\ Hands' /\ Once'
    BY <1>1, <1>2, <1>4 DEF Shape, Hands, Once
  <1>6. Truth'
    BY <1>1, <1>2, TruthKept
  <1>7. Apart' /\ Sums' /\ Tallies' /\ Ending'
    BY <1>1, <1>2, <1>3 DEF Apart, Sums, Tallies, Ending
  <1>8. BreaksLast'
    BY <1>1, <1>2, <1>3, <1>4 DEF BreaksLast
  <1> QED
    BY <1>5, <1>6, <1>7, <1>8 DEF IInv

\* A job goes from the list to input_queue and is counted.
LEMMA DispatchIInv ==
    ASSUME IInv, Dispatch
    PROVE  IInv'
  <1> DEFINE j == Head(todo)
  <1>1. /\ main = "dispatch" /\ todo /= << >>
        /\ input_queue' = Append(input_queue, j) /\ todo' = Tail(todo)
        /\ jobs' = jobs + 1 /\ total_tests' = total_tests + 1
    BY DEF Dispatch
  <1>2. /\ options' = options /\ main' = main /\ breaks' = breaks /\ tally' = tally
        /\ results' = results /\ output_queue' = output_queue /\ worker' = worker
        /\ thread_exit' = thread_exit /\ files' = files /\ ran' = ran
    BY DEF Dispatch
  <1>3. Shape /\ Hands /\ Once /\ Apart /\ Sums /\ Truth /\ Tallies /\ BreaksLast /\ Ending
    BY DEF IInv
  <1>4. /\ j \in Jobs /\ todo' \in Seq(Jobs) /\ IsInjective(todo')
        /\ Todo' = Todo \ {j} /\ j \in Todo
    BY <1>1, <1>3, TailFacts, TailOfInjective DEF Shape, Once, Todo
  <1> HIDE DEF j
  <1>5. j /= Break /\ j \notin InFlight /\ j \notin Written /\ j \in Chosen
    BY <1>3, <1>4, JobsAssumption DEF Apart
  <1>6. /\ j \notin ToSet(input_queue) /\ j \notin Held /\ j \notin Returned
        /\ j \in Jobs \cup {Break} /\ input_queue \in Seq(Jobs \cup {Break})
    BY <1>3, <1>4, <1>5 DEF InFlight, Waiting, Real, Shape
  <1>7. input_queue' \in Seq(Jobs \cup {Break})
    BY <1>1, <1>6, AppendFacts
  <1>8. RealOnce(input_queue') /\ Waiting' = Waiting \cup {j}
    BY <1>1, <1>3, <1>5, <1>6, PutReal DEF Once, Waiting
  <1>9. UNCHANGED <<Chosen, Held, Returned, Written, Exited, Good>>
    BY <1>2 DEF Chosen, Held, Returned, Written, Exited, Good
  <1>10. InFlight' = InFlight \cup {j}
    BY <1>8, <1>9 DEF InFlight
  <1>11. Shape' /\ Hands'
    BY <1>1, <1>2, <1>3, <1>4, <1>7 DEF Shape, Hands
  <1>12. Once'
    BY <1>2, <1>3, <1>4, <1>8 DEF Once
  <1>13. Apart'
    BY <1>3, <1>4, <1>5, <1>6, <1>8, <1>9, <1>10 DEF Apart
  <1>14. Sums'
    <2>1. Cardinality(InFlight') = Cardinality(InFlight) + 1
      BY <1>5, <1>10, Finite, FS_AddElement
    <2>2. Chosen' \ Todo' = (Chosen \ Todo) \cup {j}
      BY <1>4, <1>5, <1>9
    <2>3. Cardinality(Chosen' \ Todo') = Cardinality(Chosen \ Todo) + 1
      BY <1>4, <2>2, Finite, FS_AddElement
    <2>4. Len(results) \in Nat
      BY <1>3, LenProperties DEF Shape
    <2>5. jobs \in Nat /\ total_tests \in Nat /\ Cardinality(InFlight) \in Nat
      BY <1>3, Finite DEF Shape
    <2>6. jobs = Cardinality(InFlight) /\ total_tests = Cardinality(Chosen \ Todo)
      BY <1>1, <1>3 DEF Sums
    <2>7. total_tests' = Cardinality(Chosen' \ Todo') /\ jobs' = Cardinality(InFlight')
      BY <1>1, <2>1, <2>3, <2>6
    <2>8. Len(results') + jobs' <= total_tests'
      BY <1>1, <1>2, <1>3, <2>4, <2>5 DEF Sums
    <2>9. ~thread_exit => Chosen' \subseteq Todo' \cup InFlight' \cup Written'
      BY <1>1, <1>3, <1>4, <1>9, <1>10 DEF Sums
    <2> QED
      BY <1>2, <1>3, <2>7, <2>8, <2>9 DEF Sums
  <1>15. Tallies' /\ Ending'
    BY <1>1, <1>2, <1>3, <1>9 DEF Tallies, Ending
  <1>17. Truth'
    BY <1>2, <1>3, TruthKept
  <1>16. BreaksLast'
    <2>1. Occurrences(Break, input_queue') = Occurrences(Break, input_queue)
      BY <1>1, <1>5, <1>6, OccurrencesAppend, Finite
    <2>2. Break \notin ToSet(input_queue) /\ Exited = {}
      BY <1>1, <1>3 DEF BreaksLast
    <2>3. ToSet(input_queue') = ToSet(input_queue) \cup {j}
      BY <1>1, <1>6, ToSetAppend
    <2>4. Fifo(input_queue')
      BY <1>1, <1>3, <1>6, <2>2, PutFifo DEF BreaksLast
    <2> QED
      BY <1>1, <1>2, <1>3, <1>5, <1>9, <2>1, <2>2, <2>3, <2>4 DEF BreaksLast
  <1> QED
    BY <1>11, <1>12, <1>13, <1>14, <1>15, <1>16, <1>17 DEF IInv

\* A special job goes behind all the others.
LEMMA DispatchBreakIInv ==
    ASSUME IInv, DispatchBreak
    PROVE  IInv'
  <1>1. /\ main = "dispatch" /\ todo = << >>
        /\ input_queue' = Append(input_queue, Break)
        /\ breaks' = breaks - 1
        /\ main' = (IF breaks = 1 THEN "collect" ELSE main)
    BY DEF DispatchBreak
  <1>2. /\ options' = options /\ todo' = todo /\ jobs' = jobs /\ tally' = tally
        /\ total_tests' = total_tests /\ results' = results
        /\ output_queue' = output_queue /\ worker' = worker
        /\ thread_exit' = thread_exit /\ files' = files /\ ran' = ran
    BY DEF DispatchBreak
  <1>3. Shape /\ Hands /\ Once /\ Apart /\ Sums /\ Truth /\ Tallies /\ BreaksLast /\ Ending
    BY DEF IInv
  <1>4. /\ input_queue \in Seq(Jobs \cup {Break}) /\ Break \in Jobs \cup {Break}
        /\ input_queue' \in Seq(Jobs \cup {Break})
    BY <1>1, <1>3, AppendFacts DEF Shape
  <1>5. RealOnce(input_queue') /\ Waiting' = Waiting
    <2>1. /\ RealOnce(input_queue')
          /\ Real(input_queue') = Real(input_queue) \cup ({Break} \ {Break})
      BY <1>1, <1>3, <1>4, PutReal DEF Once
    <2> QED
      BY <2>1 DEF Waiting
  <1>6. UNCHANGED <<Chosen, Todo, Held, Returned, Written, Exited, Good>>
    BY <1>2 DEF Chosen, Todo, Held, Returned, Written, Exited, Good
  <1>7. InFlight' = InFlight
    BY <1>5, <1>6 DEF InFlight
  <1>8. breaks \in Nat /\ breaks > 0
    BY <1>1, <1>3 DEF Shape, BreaksLast, Early
  <1>9. breaks' \in Nat /\ main' \in {"dispatch", "collect"}
        /\ (main' \in Early <=> breaks' > 0)
    BY <1>1, <1>8 DEF Early
  <1>10. Shape' /\ Hands'
    BY <1>2, <1>3, <1>4, <1>9 DEF Shape, Hands, Early
  <1>11. Once' /\ Apart'
    BY <1>2, <1>3, <1>5, <1>6, <1>7 DEF Once, Apart
  <1>12. Sums' /\ Tallies' /\ Ending'
    BY <1>1, <1>2, <1>3, <1>6, <1>7, <1>9 DEF Sums, Tallies, Ending
  <1>14. Truth'
    BY <1>1, <1>2, <1>3, TruthKept
  <1>13. BreaksLast'
    <2>1. Occurrences(Break, input_queue') = Occurrences(Break, input_queue) + 1
      BY <1>1, <1>4, OccurrencesAppend
    <2>2. Fifo(input_queue')
      BY <1>1, <1>3, <1>4, PutFifo DEF BreaksLast
    <2>3. breaks' + Occurrences(Break, input_queue') + Cardinality(Exited')
             = Cardinality(Workers)
      BY <1>1, <1>3, <1>6, <1>8, <2>1, Finite DEF BreaksLast
    <2> QED
      BY <1>1, <1>2, <1>3, <1>5, <1>6, <1>9, <2>2, <2>3 DEF BreaksLast
  <1> QED
    BY <1>10, <1>11, <1>12, <1>13, <1>14 DEF IInv

\* A thread that gets a real job holds it, one that gets a special job returns.
LEMMA GetIInv ==
    ASSUME IInv, NEW w \in Workers, Get(w)
    PROVE  IInv'
  <1> DEFINE j == Head(input_queue)
  <1> DEFINE at == IF j = Break THEN "exited" ELSE "got"
  <1>1. /\ worker[w].at = "get" /\ input_queue /= << >>
        /\ input_queue' = Tail(input_queue)
        /\ worker' = [worker EXCEPT ![w] = [at |-> at, job |-> j]]
    BY DEF Get
  <1>2. /\ options' = options /\ main' = main /\ todo' = todo /\ breaks' = breaks
        /\ jobs' = jobs /\ tally' = tally /\ total_tests' = total_tests
        /\ results' = results /\ output_queue' = output_queue
        /\ thread_exit' = thread_exit /\ files' = files /\ ran' = ran
    BY DEF Get, mainVars
  <1>3. Shape /\ Hands /\ Once /\ Apart /\ Sums /\ Truth /\ Tallies /\ BreaksLast /\ Ending
    BY DEF IInv
  <1>4. input_queue \in Seq(Jobs \cup {Break})
    BY <1>3 DEF Shape
  <1>5. j \in Jobs \cup {Break} /\ input_queue' \in Seq(Jobs \cup {Break})
    BY <1>1, <1>4, TailFacts
  <1>6. /\ RealOnce(input_queue') /\ Waiting' = Waiting \ {j}
        /\ j \in ToSet(input_queue)
    BY <1>1, <1>3, <1>4, GetReal DEF Once, Waiting
  <1>7. /\ Fifo(input_queue') /\ (j = Break => Waiting' = {})
        /\ (Break \in ToSet(input_queue') => Break \in ToSet(input_queue))
    BY <1>1, <1>3, <1>4, GetFifo DEF BreaksLast, Waiting
  <1>8. Occurrences(Break, input_queue') =
           Occurrences(Break, input_queue) - (IF j = Break THEN 1 ELSE 0)
    BY <1>1, <1>4, OccurrencesTail
  <1> HIDE DEF j
  <1>9. /\ worker \in [Workers -> [at : {"get", "got", "running", "exited"},
                                   job : Jobs \cup {Break, NoJob}]]
        /\ worker[w].job = NoJob
    BY <1>1, <1>3 DEF Hands
  <1>10. /\ worker'[w] = [at |-> at, job |-> j]
         /\ \A v \in Workers : v /= w => worker'[v] = worker[v]
         /\ DOMAIN worker' = Workers
    BY <1>1, <1>9
  <1>11. UNCHANGED <<Chosen, Todo, Returned, Written, Good>>
    BY <1>2 DEF Chosen, Todo, Returned, Written, Good
  <1>12. Shape'
    BY <1>2, <1>3, <1>5 DEF Shape
  <1>13. Hands'
    <2>1. [at |-> at, job |-> j] \in [at : {"get", "got", "running", "exited"},
                                      job : Jobs \cup {Break, NoJob}]
      BY <1>5
    <2>2. worker' \in [Workers -> [at : {"get", "got", "running", "exited"},
                                   job : Jobs \cup {Break, NoJob}]]
      BY <1>1, <1>9, <2>1
    <2> QED
      BY <1>2, <1>3, <1>5, <1>10, <2>2 DEF Hands
  <1>16. Truth'
    BY <1>2, <1>3, TruthKept
  <1>14. CASE j = Break
    <2>1. Held' = Held
      BY <1>9, <1>10, <1>14, JobsAssumption DEF Held
    <2>2. Exited' = Exited \cup {w} /\ w \notin Exited
      BY <1>1, <1>10, <1>14 DEF Exited
    <2>3. Waiting' = Waiting
      BY <1>6, <1>14 DEF Waiting, Real
    <2>4. InFlight' = InFlight
      BY <1>11, <2>1, <2>3 DEF InFlight
    <2>5. Once'
      <3>1. \A u, v \in Workers :
               worker'[u].job = worker'[v].job /\ worker'[u].job \in Jobs => u = v
        BY <1>3, <1>10, <1>14, JobsAssumption DEF Once
      <3> QED
        BY <1>2, <1>3, <1>6, <3>1 DEF Once
    <2>6. Apart' /\ Sums' /\ Tallies' /\ Ending'
      BY <1>2, <1>3, <1>11, <2>1, <2>3, <2>4 DEF Apart, Sums, Tallies, Ending
    <2>7. todo = << >>
      BY <1>3, <1>6, <1>14 DEF BreaksLast
    <2>8. Cardinality(Exited') = Cardinality(Exited) + 1
      BY <2>2, Finite, FS_AddElement
    <2>9. breaks' + Occurrences(Break, input_queue') + Cardinality(Exited')
             = Cardinality(Workers)
      <3>1. Occurrences(Break, input_queue') = Occurrences(Break, input_queue) - 1
        BY <1>8, <1>14
      <3>2. breaks \in Nat /\ breaks' = breaks
        BY <1>2, <1>3 DEF Shape
      <3>3. breaks + Occurrences(Break, input_queue) + Cardinality(Exited)
               = Cardinality(Workers)
        BY <1>3 DEF BreaksLast
      <3> QED
        BY <2>8, <3>1, <3>2, <3>3, Finite
    <2>10. BreaksLast'
      BY <1>2, <1>3, <1>7, <1>14, <2>7, <2>9 DEF BreaksLast
    <2> QED
      BY <1>12, <1>13, <1>16, <2>5, <2>6, <2>10 DEF IInv
  <1>15. CASE j /= Break
    <2>1. j \in Jobs /\ j \in Waiting
      BY <1>5, <1>6, <1>15 DEF Waiting, Real
    <2>2. Held' = Held \cup {j} /\ j \notin Held
      BY <1>3, <1>9, <1>10, <2>1, JobsAssumption DEF Held, Apart
    <2>3. Exited' = Exited
      BY <1>1, <1>10, <1>15 DEF Exited
    <2>4. InFlight' = InFlight
      BY <1>6, <1>11, <2>1, <2>2 DEF InFlight
    <2>5. Once'
      <3>1. \A v \in Workers : worker[v].job /= j
        BY <2>1, <2>2 DEF Held
      <3>2. \A u, v \in Workers :
               worker'[u].job = worker'[v].job /\ worker'[u].job \in Jobs => u = v
        BY <1>3, <1>10, <3>1 DEF Once
      <3> QED
        BY <1>2, <1>3, <1>6, <3>2 DEF Once
    <2>6. Apart'
      BY <1>3, <1>6, <1>11, <2>1, <2>2, <2>4 DEF Apart
    <2>7. Sums' /\ Tallies' /\ Ending'
      BY <1>2, <1>3, <1>11, <2>4 DEF Sums, Tallies, Ending
    <2>8. Occurrences(Break, input_queue') = Occurrences(Break, input_queue)
      BY <1>8, <1>15, Finite
    <2>9. BreaksLast'
      BY <1>2, <1>3, <1>6, <1>7, <2>3, <2>8 DEF BreaksLast
    <2> QED
      BY <1>12, <1>13, <1>16, <2>5, <2>6, <2>7, <2>9 DEF IInv
  <1> QED
    BY <1>14, <1>15

(***************************************************************************)
(* A thread puts a result into output_queue and holds nothing any more:     *)
(* what this does to the places, whatever the result.                       *)
(***************************************************************************)
LEMMA ReportMoves ==
    ASSUME IInv, NEW w \in Workers, NEW result \in Codes \cup {"skip", "is_break"},
           worker[w].at \in {"got", "running"}, Report(w, result),
           UNCHANGED <<mainVars, input_queue, thread_exit>>
    PROVE  /\ worker[w].job \in Held /\ worker[w].job \in Jobs
           /\ worker[w].job \notin Returned /\ worker[w].job \notin Written
           /\ output_queue' \in Seq(Entries)
           /\ DOMAIN output_queue = 1 .. Len(output_queue) /\ Len(output_queue) \in Nat
           /\ DOMAIN output_queue' = 1 .. Len(output_queue) + 1
           /\ \A i \in 1 .. Len(output_queue) : output_queue'[i] = output_queue[i]
           /\ output_queue'[Len(output_queue) + 1] = [job |-> worker[w].job, result |-> result]
           /\ Hands' /\ Once' /\ Apart' /\ BreaksLast' /\ Ending'
           /\ InFlight' = InFlight
           /\ UNCHANGED <<Chosen, Todo, Written>>
  <1> DEFINE j == worker[w].job
  <1> DEFINE r == [job |-> j, result |-> result]
  <1>1. /\ output_queue' = Append(output_queue, r)
        /\ worker' = [worker EXCEPT ![w] = [at |-> "get", job |-> NoJob]]
    BY DEF Report
  <1>2. /\ options' = options /\ main' = main /\ todo' = todo /\ breaks' = breaks
        /\ jobs' = jobs /\ tally' = tally /\ total_tests' = total_tests
        /\ results' = results /\ input_queue' = input_queue /\ thread_exit' = thread_exit
    BY DEF mainVars
  <1>3. Shape /\ Hands /\ Once /\ Apart /\ Sums /\ Truth /\ Tallies /\ BreaksLast /\ Ending
    BY DEF IInv
  <1>4. j \in Jobs /\ j \in Held
    BY <1>3 DEF Hands, Held
  <1>5. j \notin Returned /\ j \notin Written /\ j \notin Waiting
    BY <1>3, <1>4 DEF Apart, InFlight
  <1>6. r \in Entries /\ r.job = j /\ output_queue \in Seq(Entries)
    BY <1>3, <1>4 DEF Entries, Shape
  <1>7. worker \in [Workers -> [at : {"get", "got", "running", "exited"},
                                job : Jobs \cup {Break, NoJob}]]
    BY <1>3 DEF Hands
  <1> HIDE DEF j, r
  <1>8. /\ Len(output_queue) \in Nat /\ DOMAIN output_queue = 1 .. Len(output_queue)
        /\ output_queue' \in Seq(Entries)
        /\ DOMAIN output_queue' = 1 .. Len(output_queue) + 1
        /\ \A i \in 1 .. Len(output_queue) : output_queue'[i] = output_queue[i]
        /\ output_queue'[Len(output_queue) + 1] = r
    BY <1>1, <1>6, AppendFacts
  <1>9. JobOnce(output_queue') /\ Returned' = Returned \cup {j}
    BY <1>1, <1>3, <1>5, <1>6, PutResult DEF Once, Returned
  <1>10. /\ worker'[w] = [at |-> "get", job |-> NoJob]
         /\ \A v \in Workers : v /= w => worker'[v] = worker[v]
    BY <1>1, <1>7
  <1>11. \A v \in Workers : v /= w => worker[v].job /= j
    BY <1>3, <1>4 DEF Once, j
  <1>12. Held' = Held \ {j}
    <2>1. \A k \in Jobs : (\E v \in Workers : worker'[v].job = k)
                             <=> (k /= j /\ \E v \in Workers : worker[v].job = k)
      BY <1>10, <1>11, JobsAssumption DEF j
    <2> QED
      BY <2>1 DEF Held
  <1>13. UNCHANGED <<Chosen, Todo, Waiting, Written>>
    BY <1>2 DEF Chosen, Todo, Waiting, Written
  <1>14. InFlight' = InFlight
    BY <1>4, <1>9, <1>12, <1>13 DEF InFlight
  <1>15. Hands'
    <2>1. worker' \in [Workers -> [at : {"get", "got", "running", "exited"},
                                   job : Jobs \cup {Break, NoJob}]]
      BY <1>1, <1>7
    <2> QED
      BY <1>2, <1>3, <1>10, <2>1 DEF Hands
  <1>16. Once'
    <2>1. \A u, v \in Workers :
             worker'[u].job = worker'[v].job /\ worker'[u].job \in Jobs => u = v
      BY <1>3, <1>10, JobsAssumption DEF Once
    <2> QED
      BY <1>2, <1>3, <1>9, <2>1 DEF Once
  <1>17. Apart'
    BY <1>3, <1>4, <1>5, <1>9, <1>12, <1>13, <1>14 DEF Apart
  <1>18. Exited' = Exited
    BY <1>10 DEF Exited
  <1>19. BreaksLast' /\ Ending'
    BY <1>2, <1>3, <1>13, <1>18 DEF BreaksLast, Ending
  <1> QED
    BY <1>4, <1>5, <1>8, <1>13, <1>14, <1>15, <1>16, <1>17, <1>19 DEF j, r

\* A job given back after an interrupt.
LEMMA GiveBackIInv ==
    ASSUME IInv, NEW w \in Workers, GiveBack(w)
    PROVE  IInv'
  <1>1. /\ worker[w].at = "got" /\ thread_exit /\ Report(w, "is_break")
        /\ UNCHANGED <<mainVars, input_queue, thread_exit>>
        /\ files' = files /\ ran' = ran
    BY DEF GiveBack
  <1>2. /\ options' = options /\ main' = main /\ todo' = todo /\ breaks' = breaks
        /\ jobs' = jobs /\ tally' = tally /\ total_tests' = total_tests
        /\ results' = results /\ input_queue' = input_queue /\ thread_exit' = thread_exit
    BY <1>1 DEF mainVars
  <1>3. Shape /\ Sums /\ Truth /\ Tallies
    BY DEF IInv
  <1>4. /\ output_queue' \in Seq(Entries)
        /\ DOMAIN output_queue = 1 .. Len(output_queue) /\ Len(output_queue) \in Nat
        /\ DOMAIN output_queue' = 1 .. Len(output_queue) + 1
        /\ \A i \in 1 .. Len(output_queue) : output_queue'[i] = output_queue[i]
        /\ output_queue'[Len(output_queue) + 1]
              = [job |-> worker[w].job, result |-> "is_break"]
        /\ Hands' /\ Once' /\ Apart' /\ BreaksLast' /\ Ending'
        /\ InFlight' = InFlight
        /\ UNCHANGED <<Chosen, Todo, Written>>
    BY <1>1, ReportMoves
  <1>5. Shape'
    BY <1>1, <1>2, <1>3, <1>4 DEF Shape
  <1>6. Sums'
    <2>1. thread_exit'
      BY <1>1, <1>2
    <2> QED
      BY <1>2, <1>3, <1>4, <2>1 DEF Sums
  <1>7. Good' = Good
    BY <1>1, <1>2, <1>4 DEF Good
  <1>8. Tallies'
    BY <1>2, <1>3, <1>7 DEF Tallies
  <1>9. \A i \in 1 .. Len(output_queue) + 1 :
           \/ i \in DOMAIN output_queue /\ output_queue'[i] = output_queue[i]
           \/ output_queue'[i].result = "is_break"
    BY <1>4
  <1>10. \A i \in DOMAIN output_queue : i \in DOMAIN output_queue' /\ output_queue'[i] = output_queue[i]
    BY <1>4
  <1>11. Truth'
    <2>1. \A i \in DOMAIN output_queue' : ResultTells(output_queue[i])'
      BY <1>1, <1>2, <1>3, <1>4, <1>9 DEF Truth, ResultTells, Codes
    <2>2. \A i \in DOMAIN results' : EntryTells(results[i])'
      BY <1>1, <1>2, <1>3 DEF Truth, EntryTells, Masked
    <2>3. \A k \in Jobs : FileTells(k)' /\ (ran'[k] /= "no" => ~IsSkip(options', k))
      BY <1>1, <1>2, <1>3 DEF Truth, FileTells
    <2> QED
      BY <1>1, <1>2, <1>3, <1>4, <1>10, <2>1, <2>2, <2>3 DEF Truth
  <1> QED
    BY <1>4, <1>5, <1>6, <1>8, <1>11 DEF IInv

\* A job that is not to be run under valgrind.
LEMMA SkipJobIInv ==
    ASSUME IInv, NEW w \in Workers, SkipJob(w)
    PROVE  IInv'
  <1>1. /\ worker[w].at = "got" /\ IsSkip(options, worker[w].job) /\ Report(w, "skip")
        /\ UNCHANGED <<mainVars, input_queue, thread_exit>>
        /\ files' = files /\ ran' = ran
    BY DEF SkipJob
  <1>2. /\ options' = options /\ main' = main /\ todo' = todo /\ breaks' = breaks
        /\ jobs' = jobs /\ tally' = tally /\ total_tests' = total_tests
        /\ results' = results /\ input_queue' = input_queue /\ thread_exit' = thread_exit
    BY <1>1 DEF mainVars
  <1>3. Shape /\ Sums /\ Truth /\ Tallies
    BY DEF IInv
  <1>4. /\ output_queue' \in Seq(Entries)
        /\ DOMAIN output_queue = 1 .. Len(output_queue) /\ Len(output_queue) \in Nat
        /\ DOMAIN output_queue' = 1 .. Len(output_queue) + 1
        /\ \A i \in 1 .. Len(output_queue) : output_queue'[i] = output_queue[i]
        /\ output_queue'[Len(output_queue) + 1]
              = [job |-> worker[w].job, result |-> "skip"]
        /\ Hands' /\ Once' /\ Apart' /\ BreaksLast' /\ Ending'
        /\ InFlight' = InFlight
        /\ UNCHANGED <<Chosen, Todo, Written>>
    BY <1>1, ReportMoves
  <1>5. Shape'
    BY <1>1, <1>2, <1>3, <1>4 DEF Shape
  <1>6. \A i \in 1 .. Len(output_queue) + 1 :
           \/ i \in DOMAIN output_queue /\ output_queue'[i] = output_queue[i]
           \/ output_queue'[i] = [job |-> worker[w].job, result |-> "skip"]
    BY <1>4
  <1>7. \A i \in DOMAIN output_queue : i \in DOMAIN output_queue' /\ output_queue'[i] = output_queue[i]
    BY <1>4
  <1>8. Sums'
    BY <1>2, <1>3, <1>4, <1>6 DEF Sums
  <1>9. Good' = Good
    BY <1>1, <1>2, <1>4 DEF Good
  <1>10. Tallies'
    BY <1>2, <1>3, <1>9 DEF Tallies
  <1>11. Truth'
    <2>1. \A i \in DOMAIN output_queue' : ResultTells(output_queue[i])'
      BY <1>1, <1>2, <1>3, <1>4, <1>6 DEF Truth, ResultTells, Codes
    <2>2. \A i \in DOMAIN results' : EntryTells(results[i])'
      BY <1>1, <1>2, <1>3 DEF Truth, EntryTells, Masked
    <2>3. \A k \in Jobs : FileTells(k)' /\ (ran'[k] /= "no" => ~IsSkip(options', k))
      BY <1>1, <1>2, <1>3 DEF Truth, FileTells
    <2> QED
      BY <1>1, <1>2, <1>3, <1>4, <1>7, <2>1, <2>2, <2>3 DEF Truth
  <1> QED
    BY <1>4, <1>5, <1>8, <1>10, <1>11 DEF IInv

\* The process is started: the thread keeps its job.
LEMMA LaunchIInv ==
    ASSUME IInv, NEW w \in Workers, Launch(w)
    PROVE  IInv'
  <1>1. /\ worker[w].at = "got" /\ worker' = [worker EXCEPT ![w].at = "running"]
        /\ ~IsSkip(options, worker[w].job)
        /\ UNCHANGED <<mainVars, input_queue, output_queue, thread_exit, files, ran>>
    BY DEF Launch
  <1>2. /\ options' = options /\ main' = main /\ todo' = todo /\ breaks' = breaks
        /\ jobs' = jobs /\ tally' = tally /\ total_tests' = total_tests
        /\ results' = results /\ input_queue' = input_queue /\ thread_exit' = thread_exit
        /\ output_queue' = output_queue /\ files' = files /\ ran' = ran
    BY <1>1 DEF mainVars
  <1>3. Shape /\ Hands /\ Once /\ Apart /\ Sums /\ Truth /\ Tallies /\ BreaksLast /\ Ending
    BY DEF IInv
  <1>4. worker \in [Workers -> [at : {"get", "got", "running", "exited"},
                                job : Jobs \cup {Break, NoJob}]]
    BY <1>3 DEF Hands
  <1>5. /\ worker' \in [Workers -> [at : {"get", "got", "running", "exited"},
                                    job : Jobs \cup {Break, NoJob}]]
        /\ worker'[w].at = "running"
        /\ \A v \in Workers : worker'[v].job = worker[v].job
        /\ \A v \in Workers : v /= w => worker'[v].at = worker[v].at
    BY <1>1, <1>4
  <1>6. Shape'
    BY <1>2, <1>3 DEF Shape
  <1>7. Hands'
    BY <1>1, <1>2, <1>3, <1>5 DEF Hands
  <1>8. Once'
    BY <1>2, <1>3, <1>5 DEF Once
  <1>9. Held' = Held /\ Exited' = Exited
    BY <1>1, <1>5 DEF Held, Exited
  <1>10. UNCHANGED <<Chosen, Todo, Waiting, Returned, Written, Good>>
    BY <1>2 DEF Chosen, Todo, Waiting, Returned, Written, Good
  <1>11. InFlight' = InFlight
    BY <1>9, <1>10 DEF InFlight
  <1>12. Apart' /\ Sums' /\ Tallies' /\ BreaksLast' /\ Ending'
    BY <1>2, <1>3, <1>9, <1>10, <1>11 DEF Apart, Sums, Tallies, BreaksLast, Ending
  <1>13. Truth'
    BY <1>2, <1>3, TruthKept
  <1> QED
    BY <1>6, <1>7, <1>8, <1>12, <1>13 DEF IInv

\* The process ends: its result is reported and what became of the job is known.
LEMMA FinishIInv ==
    ASSUME IInv, NEW w \in Workers, NEW code \in Codes, NEW garbled \in BOOLEAN,
           Finish(w, code, garbled)
    PROVE  IInv'
  <1> DEFINE j == worker[w].job
  <1> DEFINE result == IF garbled THEN "1" ELSE code
  <1> DEFINE fate == IF garbled THEN "garbled" ELSE code
  <1>1. /\ worker[w].at = "running" /\ Report(w, result)
        /\ UNCHANGED <<mainVars, input_queue, thread_exit>>
        /\ \E v \in Verdicts(j, code) : files' = [files EXCEPT ![j] = v]
        /\ ran' = [ran EXCEPT ![j] = fate]
    BY DEF Finish
  <1>0. PICK verdict \in Verdicts(j, code) : files' = [files EXCEPT ![j] = verdict]
    BY <1>1
  <1>2. /\ options' = options /\ main' = main /\ todo' = todo /\ breaks' = breaks
        /\ jobs' = jobs /\ tally' = tally /\ total_tests' = total_tests
        /\ results' = results /\ input_queue' = input_queue /\ thread_exit' = thread_exit
    BY <1>1 DEF mainVars
  <1>3. Shape /\ Sums /\ Truth /\ Tallies
    BY DEF IInv
  <1>4. /\ result \in Codes \cup {"skip", "is_break"} /\ result \notin {"skip", "is_break"}
        /\ (result = "0" <=> fate = "0") /\ fate /= "no"
        /\ fate \in {"no", "garbled"} \cup Codes
    BY DEF Codes
  <1>16. ~IsSkip(options, j)
    BY <1>1 DEF IInv, Hands
  <1>17. /\ verdict \in {"PASS", "FAIL", "none"}
         /\ (verdict /= "none" => j \in Suites)
         /\ (fate = "0" /\ j \in Suites => verdict = "PASS")
         /\ (verdict = "PASS" => fate \in {"0", "2", "garbled"})
    BY <1>0 DEF Verdicts, Codes
  <1> HIDE DEF result, fate
  <1>5. /\ j \in Jobs /\ j \notin Returned /\ j \notin Written
        /\ output_queue' \in Seq(Entries)
        /\ DOMAIN output_queue = 1 .. Len(output_queue) /\ Len(output_queue) \in Nat
        /\ DOMAIN output_queue' = 1 .. Len(output_queue) + 1
        /\ \A i \in 1 .. Len(output_queue) : output_queue'[i] = output_queue[i]
        /\ output_queue'[Len(output_queue) + 1] = [job |-> j, result |-> result]
        /\ Hands' /\ Once' /\ Apart' /\ BreaksLast' /\ Ending'
        /\ InFlight' = InFlight
        /\ UNCHANGED <<Chosen, Todo, Written>>
    BY <1>1, <1>4, ReportMoves
  <1> HIDE DEF j
  <1>6. /\ ran' \in [Jobs -> {"no", "garbled"} \cup Codes] /\ ran'[j] = fate
        /\ \A k \in Jobs : k /= j => ran'[k] = ran[k]
    BY <1>1, <1>3, <1>4, <1>5 DEF Shape
  <1>7. /\ files' \in [Jobs -> {"PASS", "FAIL", "none"}] /\ files'[j] = verdict
        /\ \A k \in Jobs : k /= j => files'[k] = files[k]
    BY <1>0, <1>3, <1>5, <1>17 DEF Shape
  <1>8. Shape'
    BY <1>2, <1>3, <1>5, <1>6, <1>7 DEF Shape
  <1>9. \A i \in 1 .. Len(output_queue) + 1 :
           \/ i \in DOMAIN output_queue /\ output_queue'[i] = output_queue[i]
           \/ output_queue'[i] = [job |-> j, result |-> result]
    BY <1>5
  <1>10. \A i \in DOMAIN output_queue : i \in DOMAIN output_queue' /\ output_queue'[i] = output_queue[i]
    BY <1>5
  <1>11. Sums'
    BY <1>2, <1>3, <1>4, <1>5, <1>9 DEF Sums
  <1>12. Written \subseteq Jobs
    BY Finite DEF IInv, Apart
  <1>13. Good' = Good
    BY <1>2, <1>5, <1>6, <1>12 DEF Good
  <1>14. Tallies'
    BY <1>2, <1>3, <1>13 DEF Tallies
  <1>15. Truth'
    <2>1. \A i \in DOMAIN output_queue : output_queue[i].job \in Jobs /\ output_queue[i].job /= j
      <3>1. \A i \in DOMAIN output_queue : output_queue[i] \in Entries
        BY <1>3, <1>5, ElementOfSeq DEF Shape
      <3> QED
        BY <1>5, <3>1 DEF Entries, Returned, JobsOf
    <2>2. ASSUME NEW i \in DOMAIN output_queue' PROVE ResultTells(output_queue[i])'
      <3>1. CASE i \in DOMAIN output_queue /\ output_queue'[i] = output_queue[i]
        BY <1>2, <1>3, <1>6, <2>1, <3>1 DEF Truth, ResultTells
      <3>2. CASE output_queue'[i] = [job |-> j, result |-> result]
        BY <1>2, <1>4, <1>6, <1>16, <3>2 DEF ResultTells
      <3> QED
        BY <1>5, <1>9, <3>1, <3>2
    <2>4. ASSUME NEW i \in DOMAIN results' PROVE EntryTells(results[i])'
      <3>1. results'[i].job \in Written /\ results' = results
        BY <1>2 DEF Written, JobsOf
      <3>2. results[i].job \in Jobs /\ results[i].job /= j
        BY <1>5, <1>12, <3>1
      <3> QED
        BY <1>2, <1>3, <1>6, <2>4, <3>2 DEF Truth, EntryTells, Masked
    <2>5. ASSUME NEW k \in Jobs PROVE FileTells(k)'
      <3>1. CASE k = j
        BY <1>6, <1>7, <1>17, <3>1 DEF FileTells
      <3>2. CASE k /= j
        BY <1>3, <1>6, <1>7, <3>2 DEF Truth, FileTells
      <3> QED
        BY <3>1, <3>2
    <2>6. \A k \in Jobs : ran'[k] /= "no" => ~IsSkip(options', k)
      BY <1>2, <1>3, <1>6, <1>16 DEF Truth
    <2>3. ASSUME main' /= "raised", NEW k \in Jobs, ran'[k] /= "no"
          PROVE  k \in Written' \/ \E i \in DOMAIN output_queue' :
                    output_queue'[i].job = k /\ output_queue'[i].result /= "is_break"
      <3>1. CASE k = j
        <4>1. Len(output_queue) + 1 \in DOMAIN output_queue'
          BY <1>5
        <4> QED
          BY <1>4, <1>5, <3>1, <4>1
      <3>2. CASE k /= j
        BY <1>2, <1>3, <1>5, <1>6, <1>10, <2>3, <3>2 DEF Truth
      <3> QED
        BY <3>1, <3>2
    <2> QED
      BY <2>2, <2>3, <2>4, <2>5, <2>6 DEF Truth
  <1> QED
    BY <1>5, <1>8, <1>11, <1>14, <1>15 DEF IInv

(***************************************************************************)
(* The main thread takes a result out of output_queue: what this does to    *)
(* the places, whether the job is written to the XML file or not.           *)
(***************************************************************************)
LEMMA CollectMoves ==
    ASSUME IInv, output_queue /= << >>, output_queue' = Tail(output_queue),
           UNCHANGED <<options, todo, total_tests, input_queue, worker, thread_exit, files, ran>>
    PROVE  /\ Head(output_queue) \in Entries /\ Head(output_queue) = output_queue[1]
           /\ Head(output_queue).job \in Jobs /\ Head(output_queue).job \notin Written
           /\ 1 \in DOMAIN output_queue
           /\ output_queue' \in Seq(Entries) /\ JobOnce(output_queue')
           /\ UNCHANGED <<Chosen, Todo, Waiting, Held, Exited>>
           /\ Returned' = Returned \ {Head(output_queue).job}
           /\ InFlight' = InFlight \ {Head(output_queue).job}
           /\ Head(output_queue).job \in InFlight
           /\ Cardinality(InFlight') = Cardinality(InFlight) - 1
           /\ \A i \in DOMAIN output_queue' :
                 \E k \in DOMAIN output_queue : output_queue'[i] = output_queue[k]
           /\ \A k \in DOMAIN output_queue : k /= 1 =>
                 \E i \in DOMAIN output_queue' : output_queue'[i] = output_queue[k]
  <1> DEFINE r == Head(output_queue)
  <1>1. Shape /\ Once /\ Apart
    BY DEF IInv
  <1>2. /\ Len(output_queue) \in Nat /\ Len(output_queue) >= 1
        /\ DOMAIN output_queue = 1 .. Len(output_queue)
        /\ r = output_queue[1] /\ r \in Entries
        /\ output_queue' \in Seq(Entries)
        /\ DOMAIN output_queue' = 1 .. Len(output_queue) - 1
        /\ \A i \in 1 .. Len(output_queue) - 1 : output_queue'[i] = output_queue[i + 1]
    BY <1>1, TailFacts DEF Shape
  <1>3. JobOnce(output_queue') /\ Returned' = Returned \ {r.job} /\ r.job \in Returned
    BY <1>1, GetResult DEF Shape, Once, Returned
  <1>4. r.job \in Jobs
    BY <1>2 DEF Entries
  <1> HIDE DEF r
  <1>5. UNCHANGED <<Chosen, Todo, Waiting, Held, Exited>>
    BY DEF Chosen, Todo, Waiting, Held, Exited
  <1>6. r.job \in InFlight /\ r.job \notin Written
    BY <1>1, <1>3 DEF InFlight, Apart
  <1>7. InFlight' = InFlight \ {r.job}
    BY <1>1, <1>3, <1>5 DEF InFlight, Apart
  <1>8. Cardinality(InFlight') = Cardinality(InFlight) - 1
    BY <1>6, <1>7, Finite, FS_RemoveElement
  <1>9. ASSUME NEW i \in DOMAIN output_queue'
        PROVE  \E k \in DOMAIN output_queue : output_queue'[i] = output_queue[k]
    <2>1. i + 1 \in DOMAIN output_queue /\ output_queue'[i] = output_queue[i + 1]
      BY <1>2
    <2> QED
      BY <2>1
  <1>10. ASSUME NEW k \in DOMAIN output_queue, k /= 1
         PROVE  \E i \in DOMAIN output_queue' : output_queue'[i] = output_queue[k]
    <2>1. k - 1 \in DOMAIN output_queue' /\ (k - 1) + 1 = k
      BY <1>2, <1>10
    <2>2. output_queue'[k - 1] = output_queue[k]
      BY <1>2, <2>1
    <2> QED
      BY <2>1, <2>2
  <1>11. 1 \in DOMAIN output_queue
    BY <1>2
  <1> QED
    BY <1>2, <1>3, <1>4, <1>5, <1>6, <1>7, <1>8, <1>9, <1>10, <1>11 DEF r

\* A job that was given back is dropped.
LEMMA CollectBreakIInv ==
    ASSUME IInv, CollectBreak
    PROVE  IInv'
  <1>1. /\ main = "collect" /\ jobs > 0 /\ output_queue /= << >>
        /\ Head(output_queue).result = "is_break"
        /\ output_queue' = Tail(output_queue) /\ jobs' = jobs - 1
    BY DEF CollectBreak
  <1>2. /\ options' = options /\ main' = main /\ todo' = todo /\ breaks' = breaks
        /\ tally' = tally /\ total_tests' = total_tests /\ results' = results
        /\ input_queue' = input_queue /\ worker' = worker
        /\ thread_exit' = thread_exit /\ files' = files /\ ran' = ran
    BY DEF CollectBreak
  <1>3. Shape /\ Hands /\ Once /\ Apart /\ Sums /\ Truth /\ Tallies /\ BreaksLast /\ Ending
    BY DEF IInv
  <1>4. /\ Head(output_queue) = output_queue[1] /\ 1 \in DOMAIN output_queue
        /\ output_queue' \in Seq(Entries) /\ JobOnce(output_queue')
        /\ UNCHANGED <<Chosen, Todo, Waiting, Held, Exited>>
        /\ Returned' = Returned \ {Head(output_queue).job}
        /\ InFlight' = InFlight \ {Head(output_queue).job}
        /\ Cardinality(InFlight') = Cardinality(InFlight) - 1
        /\ \A i \in DOMAIN output_queue' :
              \E k \in DOMAIN output_queue : output_queue'[i] = output_queue[k]
        /\ \A k \in DOMAIN output_queue : k /= 1 =>
              \E i \in DOMAIN output_queue' : output_queue'[i] = output_queue[k]
    BY <1>1, <1>2, CollectMoves
  <1>5. UNCHANGED <<Written, Good>>
    BY <1>2 DEF Written, Good
  <1>6. jobs \in Nat /\ jobs' \in Nat
    BY <1>1, <1>3 DEF Shape
  <1>7. Shape' /\ Hands'
    BY <1>2, <1>3, <1>4, <1>6 DEF Shape, Hands
  <1>8. Once' /\ Apart'
    BY <1>2, <1>3, <1>4, <1>5 DEF Once, Apart
  <1>9. thread_exit
    BY <1>1, <1>3, <1>4 DEF Sums
  <1>10. Sums'
    <2>1. jobs' = Cardinality(InFlight')
      BY <1>1, <1>3, <1>4 DEF Sums
    <2>2. Len(results') + jobs' <= total_tests'
      <3>1. Len(results) \in Nat /\ total_tests \in Nat
        BY <1>3, LenProperties DEF Shape
      <3>2. Len(results) + jobs <= total_tests
        BY <1>3 DEF Sums
      <3> QED
        BY <1>1, <1>2, <1>6, <3>1, <3>2
    <2> QED
      BY <1>2, <1>3, <1>4, <1>9, <2>1, <2>2 DEF Sums
  <1>11. Truth'
    <2>1. \A i \in DOMAIN output_queue' : ResultTells(output_queue[i])'
      BY <1>2, <1>3, <1>4 DEF Truth, ResultTells
    <2>2. ASSUME NEW k \in Jobs, ran'[k] /= "no", k \notin Written'
          PROVE  \E i \in DOMAIN output_queue' :
                    output_queue'[i].job = k /\ output_queue'[i].result /= "is_break"
      <3>1. PICK i \in DOMAIN output_queue :
               output_queue[i].job = k /\ output_queue[i].result /= "is_break"
        BY <1>1, <1>2, <1>3, <1>5, <2>2 DEF Truth
      <3>2. i /= 1
        BY <1>1, <1>4, <3>1
      <3> QED
        BY <1>4, <3>1, <3>2
    <2>3. \A i \in DOMAIN results' : EntryTells(results[i])'
      BY <1>2, <1>3 DEF Truth, EntryTells, Masked
    <2>4. \A k \in Jobs : FileTells(k)' /\ (ran'[k] /= "no" => ~IsSkip(options', k))
      BY <1>2, <1>3 DEF Truth, FileTells
    <2> QED
      BY <2>1, <2>2, <2>3, <2>4 DEF Truth
  <1>12. Tallies' /\ Ending' /\ BreaksLast'
    BY <1>1, <1>2, <1>3, <1>4, <1>5 DEF Tallies, Ending, BreaksLast
  <1> QED
    BY <1>7, <1>8, <1>10, <1>11, <1>12 DEF IInv

\* A result is written to the XML file and counted.
LEMMA CollectIInv ==
    ASSUME IInv, Collect
    PROVE  IInv'
  <1> DEFINE r == Head(output_queue)
  <1> DEFINE st == StatusOf(r.result)
  <1> DEFINE res == IF NeedsFile(r) THEN files[r.job] ELSE st
  <1> DEFINE e == [job |-> r.job, result |-> res]
  <1>1. /\ main = "collect" /\ jobs > 0 /\ output_queue /= << >>
        /\ r.result /= "is_break"
        /\ output_queue' = Tail(output_queue) /\ jobs' = jobs - 1
        /\ tally' = [tally EXCEPT ![st] = @ + 1]
        /\ NeedsFile(r) => files[r.job] /= "none"
        /\ results' = Append(results, e)
    BY DEF Collect, XmlEntry
  <1>2. /\ options' = options /\ main' = main /\ todo' = todo /\ breaks' = breaks
        /\ total_tests' = total_tests
        /\ input_queue' = input_queue /\ worker' = worker
        /\ thread_exit' = thread_exit /\ files' = files /\ ran' = ran
    BY DEF Collect
  <1>3. Shape /\ Hands /\ Once /\ Apart /\ Sums /\ Truth /\ Tallies /\ BreaksLast /\ Ending
    BY DEF IInv
  <1>4. /\ r \in Entries /\ r = output_queue[1] /\ 1 \in DOMAIN output_queue
        /\ r.job \in Jobs /\ r.job \notin Written /\ r.job \in InFlight
        /\ output_queue' \in Seq(Entries) /\ JobOnce(output_queue')
        /\ UNCHANGED <<Chosen, Todo, Waiting, Held, Exited>>
        /\ Returned' = Returned \ {r.job}
        /\ InFlight' = InFlight \ {r.job}
        /\ Cardinality(InFlight') = Cardinality(InFlight) - 1
        /\ \A i \in DOMAIN output_queue' :
              \E k \in DOMAIN output_queue : output_queue'[i] = output_queue[k]
        /\ \A k \in DOMAIN output_queue : k /= 1 =>
              \E i \in DOMAIN output_queue' : output_queue'[i] = output_queue[k]
    BY <1>1, <1>2, CollectMoves
  <1>5. /\ st \in Status /\ (st = "PASS" <=> r.result = "0") /\ (st = "SKIP" <=> r.result = "skip")
        /\ r.result \in Codes \cup {"skip"}
    BY <1>1, <1>4 DEF StatusOf, Status, Entries
  <1>17. ResultTells(r) /\ FileTells(r.job)
         /\ files[r.job] \in {"PASS", "FAIL", "none"}
    BY <1>3, <1>4 DEF Truth, Shape
  <1>18. /\ res \in Status
         /\ (ran[r.job] = "0" => res = "PASS")
         /\ (IsSkip(options, r.job) => res = "SKIP")
         /\ (res = "PASS" => ran[r.job] = "0" \/ r.job \in Masked)
         /\ (res = "SKIP" => IsSkip(options, r.job))
    <2>1. CASE NeedsFile(r)
      BY <1>1, <1>3, <1>4, <1>5, <1>17, <2>1
         DEF NeedsFile, ResultTells, FileTells, Masked, Status, Codes, Truth
    <2>2. CASE ~NeedsFile(r)
      BY <1>3, <1>4, <1>5, <1>17, <2>2 DEF ResultTells, Status, Codes, Truth
    <2> QED
      BY <2>1, <2>2
  <1>19. e \in XmlEntries /\ e.job = r.job /\ e.result = res
    BY <1>4, <1>18 DEF XmlEntries
  <1> HIDE DEF r, st, res, e
  <1>6. /\ results' \in Seq(XmlEntries) /\ Len(results') = Len(results) + 1 /\ Len(results) \in Nat
        /\ DOMAIN results = 1 .. Len(results) /\ DOMAIN results' = 1 .. Len(results) + 1
        /\ \A i \in 1 .. Len(results) : results'[i] = results[i]
        /\ results'[Len(results) + 1] = e
    BY <1>1, <1>3, <1>19, AppendFacts DEF Shape
  <1>7. Written' = Written \cup {r.job} /\ JobOnce(results')
    BY <1>1, <1>3, <1>4, <1>19, PutResult DEF Shape, Once, Written
  <1>8. jobs \in Nat /\ jobs' \in Nat /\ total_tests \in Nat
    BY <1>1, <1>2, <1>3 DEF Shape
  <1>9. /\ tally \in [Status -> Nat] /\ tally' \in [Status -> Nat]
        /\ tally'[st] = tally[st] + 1
        /\ \A s \in Status : s /= st => tally'[s] = tally[s]
    BY <1>1, <1>3, <1>5 DEF Shape
  <1>10. Shape' /\ Hands'
    BY <1>2, <1>3, <1>4, <1>6, <1>8, <1>9 DEF Shape, Hands
  <1>11. Once'
    BY <1>2, <1>3, <1>4, <1>7 DEF Once
  <1>12. Apart'
    BY <1>3, <1>4, <1>7 DEF Apart
  <1>13. Sums'
    <2>1. jobs' = Cardinality(InFlight')
      BY <1>1, <1>3, <1>4 DEF Sums
    <2>2. Len(results') + jobs' <= total_tests'
      BY <1>1, <1>2, <1>3, <1>6, <1>8 DEF Sums
    <2>3. ~thread_exit => Chosen' \subseteq Todo' \cup InFlight' \cup Written'
      BY <1>1, <1>3, <1>4, <1>7 DEF Sums
    <2> QED
      BY <1>2, <1>3, <1>4, <2>1, <2>2, <2>3 DEF Sums
  <1>14. Truth'
    <2>1. \A i \in DOMAIN output_queue' : ResultTells(output_queue[i])'
      BY <1>2, <1>3, <1>4 DEF Truth, ResultTells
    <2>2. ASSUME NEW k \in Jobs, ran'[k] /= "no"
          PROVE  k \in Written' \/ \E i \in DOMAIN output_queue' :
                    output_queue'[i].job = k /\ output_queue'[i].result /= "is_break"
      <3>1. CASE k \in Written'
        BY <3>1
      <3>2. CASE k \notin Written'
        <4>1. k /= r.job /\ k \notin Written
          BY <1>7, <3>2
        <4>2. PICK i \in DOMAIN output_queue :
                 output_queue[i].job = k /\ output_queue[i].result /= "is_break"
          BY <1>1, <1>2, <1>3, <2>2, <4>1 DEF Truth
        <4>3. i /= 1
          BY <1>4, <4>1, <4>2
        <4> QED
          BY <1>4, <4>2, <4>3
      <3> QED
        BY <3>1, <3>2
    <2>3. ASSUME NEW i \in DOMAIN results' PROVE EntryTells(results[i])'
      <3>1. CASE i \in DOMAIN results /\ results'[i] = results[i]
        BY <1>2, <1>3, <3>1 DEF Truth, EntryTells, Masked
      <3>2. CASE results'[i] = e
        BY <1>2, <1>18, <1>19, <3>2 DEF EntryTells, Masked
      <3> QED
        BY <1>6, <3>1, <3>2
    <2>4. \A k \in Jobs : FileTells(k)' /\ (ran'[k] /= "no" => ~IsSkip(options', k))
      BY <1>2, <1>3 DEF Truth, FileTells
    <2> QED
      BY <2>1, <2>2, <2>3, <2>4 DEF Truth
  <1>15. Tallies'
    <2>1. \A s \in Status : tally[s] <= Len(results) /\ tally[s] \in Nat
      BY <1>3, <1>9 DEF Tallies
    <2>2. \A s \in Status : tally'[s] <= Len(results')
      BY <1>5, <1>6, <1>9, <2>1
    <2>3. "PASS" \in Status /\ "SKIP" \in Status
      BY DEF Status
    <2>4. Good \subseteq Good' /\ Good' \subseteq Good \cup {r.job} /\ r.job \notin Good
      BY <1>2, <1>4, <1>7 DEF Good
    <2>5. IsFiniteSet(Good) /\ Cardinality(Good) \in Nat
      BY Finite
    <2>6. tally["PASS"] + tally["SKIP"] = Cardinality(Good)
      BY <1>3 DEF Tallies
    <2>7. CASE st \in {"PASS", "SKIP"}
      <3>1. r.job \in Good'
        <4>1. ran[r.job] = "0" \/ IsSkip(options, r.job)
          BY <1>5, <1>17, <2>7 DEF ResultTells
        <4> QED
          BY <1>2, <1>7, <4>1 DEF Good
      <3>2. Good' = Good \cup {r.job}
        BY <2>4, <3>1
      <3>3. Cardinality(Good') = Cardinality(Good) + 1
        BY <2>4, <2>5, <3>2, FS_AddElement
      <3>4. tally'["PASS"] + tally'["SKIP"] = tally["PASS"] + tally["SKIP"] + 1
        BY <1>9, <2>1, <2>3, <2>7
      <3> QED
        BY <2>2, <2>6, <3>3, <3>4 DEF Tallies
    <2>8. CASE st \notin {"PASS", "SKIP"}
      <3>1. tally'["PASS"] = tally["PASS"] /\ tally'["SKIP"] = tally["SKIP"]
        BY <1>9, <2>3, <2>8
      <3>2. ran[r.job] /= "0" /\ ~IsSkip(options, r.job)
        BY <1>5, <1>17, <2>8 DEF ResultTells
      <3>3. r.job \notin Good'
        BY <1>2, <3>2 DEF Good
      <3>4. Good' = Good
        BY <2>4, <3>3
      <3> QED
        BY <2>2, <2>6, <3>1, <3>4 DEF Tallies
    <2> QED
      BY <2>7, <2>8
  <1>16. BreaksLast' /\ Ending'
    BY <1>1, <1>2, <1>3, <1>4 DEF BreaksLast, Ending
  <1> QED
    BY <1>10, <1>11, <1>12, <1>13, <1>14, <1>15, <1>16 DEF IInv

\* The script ends with an exception; its threads go on.
LEMMA CollectRaisesIInv ==
    ASSUME IInv, CollectRaises
    PROVE  IInv'
  <1>1. /\ main = "collect" /\ output_queue /= << >>
        /\ output_queue' = Tail(output_queue) /\ main' = "raised"
    BY DEF CollectRaises
  <1>2. /\ options' = options /\ todo' = todo /\ breaks' = breaks /\ jobs' = jobs
        /\ tally' = tally /\ total_tests' = total_tests /\ results' = results
        /\ input_queue' = input_queue /\ worker' = worker
        /\ thread_exit' = thread_exit /\ files' = files /\ ran' = ran
    BY DEF CollectRaises
  <1>3. Shape /\ Hands /\ Once /\ Apart /\ Sums /\ Truth /\ Tallies /\ BreaksLast /\ Ending
    BY DEF IInv
  <1>4. /\ output_queue' \in Seq(Entries) /\ JobOnce(output_queue')
        /\ UNCHANGED <<Chosen, Todo, Waiting, Held, Exited>>
        /\ Returned' = Returned \ {Head(output_queue).job}
        /\ InFlight' = InFlight \ {Head(output_queue).job}
        /\ \A i \in DOMAIN output_queue' :
              \E k \in DOMAIN output_queue : output_queue'[i] = output_queue[k]
    BY <1>1, <1>2, CollectMoves
  <1>5. UNCHANGED <<Written, Good>>
    BY <1>2 DEF Written, Good
  <1>6. Shape' /\ Hands'
    BY <1>1, <1>2, <1>3, <1>4 DEF Shape, Hands
  <1>7. Once' /\ Apart'
    BY <1>2, <1>3, <1>4, <1>5 DEF Once, Apart
  <1>8. Sums' /\ Truth'
    BY <1>1, <1>2, <1>3, <1>4 DEF Sums, Truth, ResultTells, EntryTells, FileTells, Masked
  <1>9. Tallies' /\ Ending' /\ BreaksLast'
    BY <1>1, <1>2, <1>3, <1>4, <1>5 DEF Tallies, Ending, BreaksLast, Early
  <1> QED
    BY <1>6, <1>7, <1>8, <1>9 DEF IInv

\* The exit status is derived from the counters.
LEMMA JoinIInv ==
    ASSUME IInv, Join
    PROVE  IInv'
  <1>1. /\ main = "collect" /\ jobs = 0
        /\ main' = IF tally["PASS"] + tally["SKIP"] = total_tests
                   THEN "return_0" ELSE "return_1"
    BY DEF Join
  <1>2. /\ options' = options /\ todo' = todo /\ breaks' = breaks /\ jobs' = jobs
        /\ tally' = tally /\ total_tests' = total_tests /\ results' = results
        /\ input_queue' = input_queue /\ output_queue' = output_queue /\ worker' = worker
        /\ thread_exit' = thread_exit /\ files' = files /\ ran' = ran
    BY DEF Join
  <1>3. Shape /\ Hands /\ Once /\ Apart /\ Sums /\ Truth /\ Tallies /\ BreaksLast /\ Ending
    BY DEF IInv
  <1>4. UNCHANGED <<Chosen, Todo, Waiting, Held, Returned, Written, InFlight, Exited, Good>>
    BY <1>2 DEF Chosen, Todo, Waiting, Held, Returned, Written, InFlight, Exited, Good
  <1>5. main' \in {"return_0", "return_1"}
    BY <1>1
  <1>6. Shape' /\ Hands' /\ Once'
    BY <1>2, <1>3, <1>5 DEF Shape, Hands, Once
  <1>7. Apart' /\ Sums' /\ Tallies' /\ BreaksLast'
    BY <1>1, <1>2, <1>3, <1>4, <1>5 DEF Apart, Sums, Tallies, BreaksLast, Early
  <1>9. Truth'
    BY <1>1, <1>2, <1>3, TruthKept
  <1>8. Ending'
    BY <1>1, <1>2 DEF Ending
  <1> QED
    BY <1>6, <1>7, <1>8, <1>9 DEF IInv

\* Every step of the main thread, of a worker and of the user keeps the invariant.
LEMMA NextIInv == IInv /\ [Next]_vars => IInv'
  <1> SUFFICES ASSUME IInv, [Next]_vars PROVE IInv'
    OBVIOUS
  <1>1. CASE sigint_hook
    BY <1>1, SigintIInv
  <1>2. CASE MainStep
    BY <1>2, StartIInv, DispatchIInv, DispatchBreakIInv, CollectBreakIInv, CollectIInv,
       CollectRaisesIInv, JoinIInv DEF MainStep
  <1>3. ASSUME NEW w \in Workers, WorkerStep(w) PROVE IInv'
    <2>1. CASE Get(w) \/ GiveBack(w) \/ SkipJob(w) \/ Launch(w)
      BY <2>1, GetIInv, GiveBackIInv, SkipJobIInv, LaunchIInv
    <2>2. ASSUME NEW code \in Codes, NEW garbled \in {FALSE, MayGarble},
                 Finish(w, code, garbled)
          PROVE  IInv'
      <3>1. garbled \in BOOLEAN
        BY RunnerAssumption
      <3> QED
        BY <2>2, <3>1, FinishIInv
    <2> QED
      BY <1>3, <2>1, <2>2 DEF WorkerStep
  <1>4. CASE UNCHANGED vars
    BY <1>4, StutterIInv
  <1> QED
    BY <1>1, <1>2, <1>3, <1>4 DEF Next, Done

-----------------------------------------------------------------------------
\* The strengthened invariant, from which the properties follow.
THEOREM Invariance == Spec => []IInv
  <1> QED
    BY InitIInv, NextIInv, PTL DEF Spec

(***************************************************************************)
(* Every variable of the script stays in its type: in particular no counter *)
(* of results exceeds the number of jobs dispatched, and that number never  *)
(* exceeds the number of jobs there are.                                    *)
(***************************************************************************)
THEOREM TypeCorrect == Spec => []TypeOK
  <1>1. IInv => TypeOK
    <2> SUFFICES ASSUME IInv PROVE TypeOK
      OBVIOUS
    <2>1. Shape /\ Hands /\ Sums /\ Tallies /\ BreaksLast
      BY DEF IInv
    <2>2. breaks \in 0 .. Cardinality(Workers)
      <3>1. breaks + Occurrences(Break, input_queue) + Cardinality(Exited)
               = Cardinality(Workers)
        BY <2>1 DEF BreaksLast
      <3>2. breaks \in Nat
        BY <2>1 DEF Shape
      <3> QED
        BY <3>1, <3>2, Finite
    <2>3. Len(results) \in Nat /\ jobs \in Nat /\ total_tests \in Nat
      BY <2>1, LenProperties DEF Shape
    <2>4. jobs \in 0 .. total_tests /\ Len(results) <= total_tests
      BY <2>1, <2>3 DEF Sums
    <2>5. total_tests <= Cardinality(Jobs) /\ Cardinality(Jobs) \in Nat
      <3>1. Chosen \ Todo \subseteq Jobs
        BY Finite
      <3> QED
        BY <2>1, <3>1, JobsAssumption, FS_Subset, FS_CardinalityType DEF Sums
    <2>6. ASSUME NEW s \in Status PROVE tally[s] \in 0 .. total_tests
      <3>1. tally[s] \in Nat /\ tally[s] <= Len(results)
        BY <2>1 DEF Shape, Tallies
      <3> QED
        BY <2>3, <2>4, <3>1
    <2>7. tally \in [Status -> 0 .. total_tests]
      BY <2>1, <2>6 DEF Shape
    <2>8. total_tests \in 0 .. Cardinality(Jobs)
      BY <2>3, <2>5
    <2> QED
      BY <2>1, <2>2, <2>4, <2>7, <2>8 DEF Shape, Hands, TypeOK, Entries, XmlEntries, Early
  <1> QED
    BY <1>1, Invariance, PTL

(***************************************************************************)
(* A worker returns only when no job is waiting, and there is exactly one   *)
(* special job for each thread that has not returned: for any number of     *)
(* threads and jobs, and whenever an interrupt arrives.                     *)
(***************************************************************************)
THEOREM ThreadsReturn == Spec => []EveryThreadReturns
  <1>1. IInv => EveryThreadReturns
    <2> SUFFICES ASSUME IInv PROVE EveryThreadReturns
      OBVIOUS
    <2>1. /\ breaks + Occurrences(Break, input_queue) + Cardinality(Exited)
                = Cardinality(Workers)
          /\ (todo /= << >> => Exited = {})
          /\ (Exited /= {} => Waiting = {})
      BY DEF IInv, BreaksLast
    <2>2. Exited /= {} => todo = << >> /\ ToSet(input_queue) \subseteq {Break}
      BY <2>1 DEF Waiting, Real
    <2> QED
      BY <2>1, <2>2 DEF EveryThreadReturns, Exited
  <1> QED
    BY <1>1, Invariance, PTL

(***************************************************************************)
(* The results still to be collected are exactly the jobs waiting, held by  *)
(* a worker or reported, each of them in one place.                         *)
(***************************************************************************)
THEOREM JobsKept == Spec => []NoJobLost
  <1>1. IInv => NoJobLost
    <2> SUFFICES ASSUME IInv PROVE NoJobLost
      OBVIOUS
    <2>1. Shape /\ Hands /\ Once /\ Apart /\ Sums
      BY DEF IInv
    <2>2. ASSUME NEW j \in Jobs
          PROVE  /\ Occurrences(j, input_queue) = IF j \in Waiting THEN 1 ELSE 0
                 /\ Cardinality(Holding(j)) = IF j \in Held THEN 1 ELSE 0
                 /\ Cardinality(Reported(j)) = IF j \in Returned THEN 1 ELSE 0
      <3>1. j /= Break
        BY JobsAssumption
      <3>2. Occurrences(j, input_queue) = IF j \in ToSet(input_queue) THEN 1 ELSE 0
        <4>1. \A i, k \in DOMAIN input_queue :
                 input_queue[i] = j /\ input_queue[k] = j => i = k
          BY <2>1, <3>1 DEF Once, RealOnce
        <4>2. input_queue \in Seq(Jobs \cup {Break})
          BY <2>1 DEF Shape
        <4> QED
          BY <4>1, <4>2, OccurrencesOnce
      <3>3. Cardinality(Holding(j)) = IF j \in Held THEN 1 ELSE 0
        <4>1. CASE j \in Held
          <5>1. PICK w \in Workers : worker[w].job = j
            BY <4>1 DEF Held
          <5>2. Holding(j) = {w}
            BY <2>1, <5>1 DEF Holding, Once
          <5> QED
            BY <4>1, <5>2, FS_Singleton
        <4>2. CASE j \notin Held
          <5>1. Holding(j) = {}
            BY <4>2 DEF Holding, Held
          <5> QED
            BY <4>2, <5>1, FS_EmptySet
        <4> QED
          BY <4>1, <4>2
      <3>4. Cardinality(Reported(j)) = IF j \in Returned THEN 1 ELSE 0
        <4>1. CASE j \in Returned
          <5>1. PICK i \in DOMAIN output_queue : output_queue[i].job = j
            BY <4>1 DEF Returned, JobsOf
          <5>2. Reported(j) = {i}
            BY <2>1, <5>1 DEF Reported, Once, JobOnce
          <5> QED
            BY <4>1, <5>2, FS_Singleton
        <4>2. CASE j \notin Returned
          <5>1. Reported(j) = {}
            BY <4>2 DEF Reported, Returned, JobsOf
          <5> QED
            BY <4>2, <5>1, FS_EmptySet
        <4> QED
          BY <4>1, <4>2
      <3>5. j \in Waiting <=> j \in ToSet(input_queue)
        BY <3>1 DEF Waiting, Real
      <3> QED
        BY <3>2, <3>3, <3>4, <3>5
    <2> DEFINE At(j) == Occurrences(j, input_queue) + Cardinality(Holding(j))
                           + Cardinality(Reported(j))
    <2>3. ASSUME NEW j \in Jobs PROVE At(j) = IF j \in InFlight THEN 1 ELSE 0
      <3>1. /\ ~(j \in Waiting /\ j \in Held) /\ ~(j \in Waiting /\ j \in Returned)
            /\ ~(j \in Held /\ j \in Returned)
        BY <2>1 DEF Apart
      <3>2. CASE j \in Waiting
        BY <2>2, <3>1, <3>2 DEF InFlight
      <3>3. CASE j \in Held
        BY <2>2, <3>1, <3>3 DEF InFlight
      <3>4. CASE j \in Returned
        BY <2>2, <3>1, <3>4 DEF InFlight
      <3>5. CASE j \notin Waiting /\ j \notin Held /\ j \notin Returned
        BY <2>2, <3>5 DEF InFlight
      <3> QED
        BY <3>2, <3>3, <3>4, <3>5
    <2> HIDE DEF At
    <2>4. \A j \in Jobs : At(j) <= 1
      BY <2>3
    <2>5. {j \in Jobs : At(j) = 1} = InFlight
      <3>1. InFlight \subseteq Jobs
        BY <2>1, Finite DEF Apart
      <3> QED
        BY <2>3, <3>1
    <2>6. main /= "raised" => jobs = Cardinality({j \in Jobs : At(j) = 1})
      BY <2>1, <2>5 DEF Sums
    <2> QED
      BY <2>4, <2>6 DEF NoJobLost, At
  <1> QED
    BY <1>1, Invariance, PTL

(***************************************************************************)
(* At the end every job was dispatched, none is in flight, and the counters *)
(* of passed and skipped jobs are those of the jobs that ended well or were *)
(* to be skipped.                                                           *)
(***************************************************************************)
LEMMA AtTheEnd ==
    ASSUME IInv, main \in {"return_0", "return_1"}
    PROVE  /\ Todo = {} /\ InFlight = {} /\ DOMAIN output_queue = {}
           /\ Good \subseteq Chosen /\ Written \subseteq Chosen
           /\ IsFiniteSet(Chosen)
           /\ main = "return_0" <=> Cardinality(Good) = Cardinality(Chosen)
           /\ main = "return_0" => Good = Chosen
  <1>1. Shape /\ Apart /\ Sums /\ Tallies /\ BreaksLast /\ Ending
    BY DEF IInv
  <1>2. todo = << >> /\ jobs = 0 /\ main /= "raised"
    BY <1>1 DEF BreaksLast, Ending, Early
  <1>3. Todo = {}
    BY <1>2, EmptyToSet DEF Todo
  <1>4. InFlight = {}
    BY <1>1, <1>2, Finite, FS_EmptySet DEF Sums
  <1>5. DOMAIN output_queue = {}
    BY <1>4 DEF InFlight, Returned, JobsOf
  <1>6. Good \subseteq Chosen /\ Written \subseteq Chosen
    BY <1>1 DEF Good, Apart
  <1>7. total_tests = Cardinality(Chosen)
    <2>1. Chosen \ Todo = Chosen
      BY <1>3
    <2> QED
      BY <1>1, <2>1 DEF Sums
  <1>8. main = "return_0" <=> Cardinality(Good) = Cardinality(Chosen)
    BY <1>1, <1>7 DEF Ending, Tallies
  <1>9. IsFiniteSet(Chosen) /\ (Cardinality(Chosen) = Cardinality(Good) => Chosen = Good)
    BY <1>6, Finite, FS_Subset
  <1> QED
    BY <1>3, <1>4, <1>5, <1>6, <1>8, <1>9

(***************************************************************************)
(* The exit status is 0 only when every job that the options come down to   *)
(* was run and ended with 0, or was to be skipped: as many jobs as were     *)
(* chosen are counted as passed or skipped, no job is counted twice, and a  *)
(* count is only due to a job that ended well or was to be skipped.         *)
(***************************************************************************)
THEOREM ZeroIsTrue == Spec => []ZeroMeansAllWell
  <1>1. IInv => ZeroMeansAllWell
    <2> SUFFICES ASSUME IInv, main = "return_0"
                 PROVE  \A j \in Chosen : ran[j] = "0" \/ IsSkip(options, j)
      BY DEF ZeroMeansAllWell, Chosen
    <2>1. Good = Chosen
      BY AtTheEnd
    <2> QED
      BY <2>1 DEF Good
  <1> QED
    BY <1>1, Invariance, PTL

(***************************************************************************)
(* The XML file and the exit status agree: no job has two entries, every    *)
(* process that ended has one, and every chosen job without an interrupt.   *)
(* Status 0 goes with entries PASS and SKIP only; status 1 without an       *)
(* interrupt with another one, or with a suite whose result file does not   *)
(* show what valgrind found or that its output could not be decoded.        *)
(***************************************************************************)
THEOREM FileAndStatusAgree == Spec => []ResultsAgree
  <1>1. IInv => ResultsAgree
    <2> DEFINE good == {i \in DOMAIN results : results[i].result \in {"PASS", "SKIP"}}
    <2> SUFFICES ASSUME IInv, main \in {"return_0", "return_1"}
                 PROVE  /\ \A j \in Jobs : \A i, k \in EntriesOf(j) : i = k
                        /\ \A j \in Jobs : ran[j] /= "no" => EntriesOf(j) /= {}
                        /\ ~thread_exit => \A j \in Chosen : EntriesOf(j) /= {}
                        /\ main = "return_0" => good = DOMAIN results
                        /\ main = "return_1" /\ ~thread_exit =>
                              good /= DOMAIN results \/ Masked /= {}
      BY DEF ResultsAgree, Chosen
    <2>1. Once /\ Sums /\ Truth
      BY DEF IInv
    <2>2. /\ Todo = {} /\ InFlight = {} /\ DOMAIN output_queue = {}
          /\ Good \subseteq Chosen /\ Written \subseteq Chosen /\ IsFiniteSet(Chosen)
          /\ (main = "return_0" <=> Cardinality(Good) = Cardinality(Chosen))
          /\ (main = "return_0" => Good = Chosen)
      BY AtTheEnd
    <2>3. \A j \in Written : EntriesOf(j) /= {}
      BY DEF Written, JobsOf, EntriesOf
    <2>4. \A j \in Jobs : \A i, k \in EntriesOf(j) : i = k
      BY <2>1 DEF Once, JobOnce, EntriesOf
    <2>5. \A j \in Jobs : ran[j] /= "no" => EntriesOf(j) /= {}
      BY <2>1, <2>2, <2>3 DEF Truth
    <2>6. ~thread_exit => Chosen \subseteq Written
      BY <2>1, <2>2 DEF Sums
    <2>7. \A i \in DOMAIN results : results[i].job \in Written
      BY DEF Written, JobsOf
    <2>8. ASSUME main = "return_0" PROVE good = DOMAIN results
      <3>1. \A i \in DOMAIN results : ran[results[i].job] = "0" \/ IsSkip(options, results[i].job)
        BY <2>2, <2>7, <2>8 DEF Good
      <3> QED
        BY <2>1, <3>1 DEF Truth, EntryTells
    <2>9. ASSUME main = "return_1", ~thread_exit, good = DOMAIN results, Masked = {}
          PROVE  FALSE
      <3>1. ASSUME NEW j \in Written PROVE j \in Good
        <4>1. PICK i \in DOMAIN results : results[i].job = j
          BY <3>1 DEF Written, JobsOf
        <4>2. results[i].result \in {"PASS", "SKIP"} /\ EntryTells(results[i])
          BY <2>1, <2>9, <4>1 DEF Truth
        <4> QED
          BY <2>9, <3>1, <4>1, <4>2 DEF EntryTells, Good
      <3>2. Good = Chosen
        BY <2>2, <2>6, <2>9, <3>1
      <3> QED
        BY <2>2, <2>9, <3>2
    <2> QED
      BY <2>3, <2>4, <2>5, <2>6, <2>8, <2>9
  <1> QED
    BY <1>1, Invariance, PTL
=============================================================================
