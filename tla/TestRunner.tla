----------------------------- MODULE TestRunner -----------------------------
(***************************************************************************)
(* test.py, the script that runs the test suites and examples: the main     *)
(* thread chooses and dispatches the jobs, worker threads run them as       *)
(* processes, the main thread collects the results into an XML file and     *)
(* derives its exit status.  The threads share two FIFO queues and the      *)
(* flag thread_exit, which the handler of SIGINT sets.                      *)
(*                                                                         *)
(* A job is known by its name.  Each get and put of a queue, each look at   *)
(* the flag and each run of a process is a step of its own.                 *)
(***************************************************************************)
EXTENDS Integers, Sequences, FiniteSets, SequencesExt

CONSTANTS
    Suites,        \* names printed by the test-runner
    Performance,   \* those of type performance
    Examples,      \* C++ examples that are built
    PyExamples,    \* Python examples that are found
    DoRun,         \* examples of both kinds whose condition for a full run holds
    Unlisted,      \* lines the test-runner prints for a type it does not know
    ValgrindSkips, \* suites and examples not to be run under valgrind
    PythonBindings,\* whether the build has them
    Constraints,   \* values of --constrain to be considered
    CommandLines,  \* the options a run is started with, some of Options
    Workers,       \* worker threads, one per processor
    MayGarble      \* whether a process may print undecodable characters

ASSUME RunnerAssumption ==
    /\ IsFiniteSet(Workers) /\ Workers /= {}
    /\ Performance \subseteq Suites /\ DoRun \subseteq Examples \cup PyExamples
    /\ MayGarble \in BOOLEAN /\ PythonBindings \in BOOLEAN

Jobs == Suites \cup Examples \cup PyExamples \cup Unlisted
Break == "break"               \* the job that makes a worker thread return
NoJob == "none"

\* Every job is an object of its own and is in one of the lists only.
ASSUME JobsAssumption ==
    /\ IsFiniteSet(Jobs) /\ {Break, NoJob} \cap Jobs = {}
    /\ (Suites \cup Unlisted) \cap (Examples \cup PyExamples) = {}
    /\ Examples \cap PyExamples = {}

Status == {"PASS", "FAIL", "VALGR", "CRASH", "SKIP"}

VARIABLES
    options,       \* command line
    main,          \* where the main thread is
    todo,          \* jobs still to be dispatched
    breaks,        \* special jobs still to be dispatched
    jobs,          \* results still to be collected
    input_queue, output_queue,
    worker,        \* state of each worker thread and the job it holds
    thread_exit,
    files,         \* what the temporary result file of each suite says
    tally,         \* passed_tests, failed_tests, ...
    total_tests,
    results,       \* entries of the XML file, in order
    ran            \* what really became of each job (history variable)

mainVars == <<options, main, todo, breaks, jobs, tally, total_tests, results>>
vars == <<mainVars, input_queue, output_queue, worker, thread_exit, files, ran>>

-----------------------------------------------------------------------------
(***************************************************************************)
(* Which jobs are dispatched.  The options given, the names that --suite    *)
(* and --example match (patterns: any number of them) and the one that      *)
(* --pyexample names, if it is found.                                       *)
(***************************************************************************)
Named == {"suite", "example", "pyexample"}

Options ==
    {o \in [given : SUBSET Named, suite : SUBSET Suites, example : SUBSET Examples,
            pyexample : SUBSET PyExamples, constrain : Constraints,
            valgrind : BOOLEAN] :
        /\ \A k \in Named \ o.given : o[k] = {}
        /\ \A p, q \in o.pyexample : p = q}

ASSUME CommandLinesAssumption == CommandLines \subseteq Options

Unspecified(o) == o.given = {}

\* A suite that the test-runner does not list ends the script.
UnknownSuite(o) == "suite" \in o.given /\ o.suite = {}

PrintTestNameList(type) ==
    CASE type = ""            -> Suites
      [] type = "unit"        -> Suites \ Performance
      [] type = "performance" -> Performance
      [] type = "example"     -> {}
      [] OTHER                -> Unlisted

\* Performance suites are run only on request: by the constraint, or by a name
\* that matches one suite.
SuiteList(o) ==
    LET single_suite == \E s \in Suites : o.suite = {s}
        found == IF Unspecified(o) THEN PrintTestNameList(o.constrain) ELSE o.suite
    IN IF single_suite \/ o.constrain = "performance" THEN found ELSE found \ Performance

\* An example that is named is run irrespective of any condition.  A name that
\* matches no example gives a message and no job.
ExampleList(o) ==
    IF Unspecified(o)
    THEN {j \in Examples \cap DoRun : o.constrain \in {"", "example"}}
    ELSE o.example

PyExampleList(o) ==
    IF Unspecified(o)
    THEN {j \in PyExamples \cap DoRun : o.constrain \in {"", "pyexample"}}
    ELSE o.pyexample

JobList(o) ==
    SetToSeq(SuiteList(o)) \o SetToSeq(ExampleList(o)) \o SetToSeq(PyExampleList(o))

\* Suites are skipped under valgrind, named or not; examples under valgrind and
\* Python examples without bindings only if they are not named.
IsSkip(o, j) ==
    \/ o.valgrind /\ j \in ValgrindSkips /\ (j \in Suites \/ Unspecified(o))
    \/ j \in PyExamples /\ Unspecified(o) /\ (o.valgrind \/ ~PythonBindings)

-----------------------------------------------------------------------------
Init ==
    /\ options \in CommandLines
    /\ main = "start"
    /\ todo = JobList(options)
    /\ breaks = Cardinality(Workers)
    /\ jobs = 0
    /\ input_queue = << >> /\ output_queue = << >>
    /\ worker = [w \in Workers |-> [at |-> "get", job |-> NoJob]]
    /\ thread_exit = FALSE
    /\ files = [j \in Jobs |-> "none"]
    /\ tally = [s \in Status |-> 0]
    /\ total_tests = 0
    /\ results = << >>
    /\ ran = [j \in Jobs |-> "no"]

\* run_tests, before any thread is started: sys.exit(2) for an unknown suite.
Start ==
    /\ main = "start"
    /\ main' = IF UnknownSuite(options) THEN "exit_2" ELSE "dispatch"
    /\ UNCHANGED <<options, todo, breaks, jobs, tally, total_tests, results, input_queue,
                   output_queue, worker, thread_exit, files, ran>>

sigint_hook ==
    /\ ~thread_exit
    /\ thread_exit' = TRUE
    /\ UNCHANGED <<mainVars, input_queue, output_queue, worker, files, ran>>

Dispatch ==
    /\ main = "dispatch" /\ todo /= << >>
    /\ input_queue' = Append(input_queue, Head(todo))
    /\ todo' = Tail(todo)
    /\ jobs' = jobs + 1
    /\ total_tests' = total_tests + 1
    /\ UNCHANGED <<options, main, breaks, tally, results, output_queue, worker,
                   thread_exit, files, ran>>

\* Mutant: one special job for all threads.
DispatchBreakOnce ==
    /\ main = "dispatch" /\ todo = << >>
    /\ input_queue' = Append(input_queue, Break)
    /\ breaks' = 0
    /\ main' = "collect"
    /\ UNCHANGED <<options, todo, jobs, tally, total_tests, results, output_queue,
                   worker, thread_exit, files, ran>>

DispatchBreak ==
    /\ main = "dispatch" /\ todo = << >>
    /\ input_queue' = Append(input_queue, Break)
    /\ breaks' = breaks - 1
    /\ main' = IF breaks = 1 THEN "collect" ELSE main
    /\ UNCHANGED <<options, todo, jobs, tally, total_tests, results, output_queue,
                   worker, thread_exit, files, ran>>

-----------------------------------------------------------------------------
\* Mutant: the job stays in the queue.
GetWithoutRemoval(w) ==
    /\ worker[w].at = "get" /\ input_queue /= << >>
    /\ input_queue' = IF Head(input_queue) = Break THEN Tail(input_queue) ELSE input_queue
    /\ worker' = [worker EXCEPT ![w] =
                     [at |-> IF Head(input_queue) = Break THEN "exited" ELSE "got",
                      job |-> Head(input_queue)]]
    /\ UNCHANGED <<mainVars, output_queue, thread_exit, files, ran>>

(***************************************************************************)
(* The worker threads.                                                      *)
(***************************************************************************)
Get(w) ==
    /\ worker[w].at = "get" /\ input_queue /= << >>
    /\ input_queue' = Tail(input_queue)
    /\ worker' = [worker EXCEPT ![w] =
                     [at |-> IF Head(input_queue) = Break THEN "exited" ELSE "got",
                      job |-> Head(input_queue)]]
    /\ UNCHANGED <<mainVars, output_queue, thread_exit, files, ran>>

Report(w, result) ==
    /\ output_queue' = Append(output_queue, [job |-> worker[w].job, result |-> result])
    /\ worker' = [worker EXCEPT ![w] = [at |-> "get", job |-> NoJob]]

\* After an interrupt the job goes back with is_break set.
GiveBack(w) ==
    /\ worker[w].at = "got" /\ thread_exit
    /\ Report(w, "is_break")
    /\ UNCHANGED <<mainVars, input_queue, thread_exit, files, ran>>

SkipJob(w) ==
    /\ worker[w].at = "got" /\ ~thread_exit /\ IsSkip(options, worker[w].job)
    /\ Report(w, "skip")
    /\ UNCHANGED <<mainVars, input_queue, thread_exit, files, ran>>

Launch(w) ==
    /\ worker[w].at = "got" /\ ~thread_exit /\ ~IsSkip(options, worker[w].job)
    /\ worker' = [worker EXCEPT ![w].at = "running"]
    /\ UNCHANGED <<mainVars, input_queue, output_queue, thread_exit, files, ran>>

(***************************************************************************)
(* run_job_synchronously: the process ends by itself with 0, 1 or 2 (an     *)
(* error of valgrind), or is killed.  A suite that ends by itself has       *)
(* written its result file, which knows nothing of valgrind.  A line of the *)
(* test-runner's complaint makes no proper command: the test-runner prints  *)
(* its help and ends with 0, or the shell refuses the parentheses and ends  *)
(* with 2.  Output that cannot be decoded makes the return code 1.          *)
(***************************************************************************)
Codes == {"0", "1", "2", "139"}
Returncodes(j) == IF j \in Unlisted THEN {"0", "2"} ELSE Codes

Verdicts(j, code) ==
    CASE j \notin Suites -> {"none"}
      [] j \in Suites /\ code = "0" -> {"PASS"}
      [] j \in Suites /\ code = "1" -> {"FAIL"}
      [] j \in Suites /\ code = "2" -> {"PASS", "FAIL"}
      [] OTHER -> {"none"}

Finish(w, code, garbled) ==
    LET j == worker[w].job IN
    /\ worker[w].at = "running"
    /\ code \in Returncodes(j)
    /\ Report(w, IF garbled THEN "1" ELSE code)
    /\ \E verdict \in Verdicts(j, code) : files' = [files EXCEPT ![j] = verdict]
    /\ ran' = [ran EXCEPT ![j] = IF garbled THEN "garbled" ELSE code]
    /\ UNCHANGED <<mainVars, input_queue, thread_exit>>

-----------------------------------------------------------------------------
(***************************************************************************)
(* The main thread collects one result per job.                             *)
(***************************************************************************)
StatusOf(result) ==
    CASE result = "skip" -> "SKIP"
      [] result = "0" -> "PASS"
      [] result = "1" -> "FAIL"
      [] result = "2" -> "VALGR"
      [] OTHER -> "CRASH"

\* The result file of a suite that ended with 0, 1 or 2 is copied.  The other
\* entries are made up.
NeedsFile(r) == r.job \in Suites \cup Unlisted /\ r.result \in {"0", "1", "2"}
XmlEntry(r) ==
    [job |-> r.job, result |-> IF NeedsFile(r) THEN files[r.job] ELSE StatusOf(r.result)]

CollectBreak ==
    /\ main = "collect" /\ jobs > 0 /\ output_queue /= << >>
    /\ Head(output_queue).result = "is_break"
    /\ output_queue' = Tail(output_queue)
    /\ jobs' = jobs - 1
    /\ UNCHANGED <<options, main, todo, breaks, tally, total_tests, results,
                   input_queue, worker, thread_exit, files, ran>>

\* Mutant: errors under valgrind are not counted.
CollectWithoutValgr ==
    LET r == Head(output_queue) IN
    /\ main = "collect" /\ jobs > 0 /\ output_queue /= << >>
    /\ r.result /= "is_break"
    /\ NeedsFile(r) => files[r.job] /= "none"
    /\ output_queue' = Tail(output_queue)
    /\ jobs' = jobs - 1
    /\ tally' = [tally EXCEPT ![IF r.result = "2" THEN "PASS" ELSE StatusOf(r.result)] = @ + 1]
    /\ results' = Append(results, XmlEntry(r))
    /\ UNCHANGED <<options, main, todo, breaks, total_tests, input_queue, worker,
                   thread_exit, files, ran>>

\* Mutant: no entry is made up for a suite that was killed.
CollectWithoutCrash ==
    LET r == Head(output_queue) IN
    /\ main = "collect" /\ jobs > 0 /\ output_queue /= << >>
    /\ r.result /= "is_break"
    /\ NeedsFile(r) => files[r.job] /= "none"
    /\ output_queue' = Tail(output_queue)
    /\ jobs' = jobs - 1
    /\ tally' = [tally EXCEPT ![StatusOf(r.result)] = @ + 1]
    /\ results' = IF r.result = "139" /\ r.job \in Suites THEN results
                  ELSE Append(results, XmlEntry(r))
    /\ UNCHANGED <<options, main, todo, breaks, total_tests, input_queue, worker,
                   thread_exit, files, ran>>

Collect ==
    LET r == Head(output_queue) IN
    /\ main = "collect" /\ jobs > 0 /\ output_queue /= << >>
    /\ r.result /= "is_break"
    /\ NeedsFile(r) => files[r.job] /= "none"
    /\ output_queue' = Tail(output_queue)
    /\ jobs' = jobs - 1
    /\ tally' = [tally EXCEPT ![StatusOf(r.result)] = @ + 1]
    /\ results' = Append(results, XmlEntry(r))
    /\ UNCHANGED <<options, main, todo, breaks, total_tests, input_queue, worker,
                   thread_exit, files, ran>>

\* open raises FileNotFoundError, which nothing catches.
CollectRaises ==
    LET r == Head(output_queue) IN
    /\ main = "collect" /\ jobs > 0 /\ output_queue /= << >>
    /\ NeedsFile(r) /\ files[r.job] = "none"
    /\ output_queue' = Tail(output_queue)
    /\ main' = "raised"
    /\ UNCHANGED <<options, todo, breaks, jobs, tally, total_tests, results,
                   input_queue, worker, thread_exit, files, ran>>

\* All threads are joined, the file is closed and the exit status returned.
Join ==
    /\ main = "collect" /\ jobs = 0
    /\ \A w \in Workers : worker[w].at = "exited"
    /\ main' = IF tally["PASS"] + tally["SKIP"] = total_tests
               THEN "return_0" ELSE "return_1"
    /\ UNCHANGED <<options, todo, breaks, jobs, tally, total_tests, results,
                   input_queue, output_queue, worker, thread_exit, files, ran>>

Ended == main \in {"return_0", "return_1", "raised", "exit_2"}

\* The script has ended, and with it its threads, if it had any.
Done ==
    /\ Ended /\ (main = "exit_2" \/ \A w \in Workers : worker[w].at = "exited")
    /\ UNCHANGED vars

WorkerStep(w) ==
    \/ Get(w) \/ GiveBack(w) \/ SkipJob(w) \/ Launch(w)
    \/ \E code \in Codes, garbled \in {FALSE, MayGarble} :
           Finish(w, code, garbled)

MainStep ==
    Start \/ Dispatch \/ DispatchBreak \/ CollectBreak \/ Collect \/ CollectRaises \/ Join

Next ==
    \/ sigint_hook
    \/ MainStep
    \/ \E w \in Workers : WorkerStep(w)
    \/ Done

(***************************************************************************)
(* Threads are scheduled and processes end, otherwise nothing is promised   *)
(* (test.py has no time limit).                                             *)
(***************************************************************************)
Fairness == WF_vars(MainStep) /\ \A w \in Workers : WF_vars(WorkerStep(w))

Spec == Init /\ [][Next]_vars /\ Fairness

-----------------------------------------------------------------------------
\* Type invariant.
TypeOK ==
    /\ options \in CommandLines
    /\ main \in {"start", "dispatch", "collect", "return_0", "return_1", "raised", "exit_2"}
    /\ todo \in Seq(Jobs)
    /\ breaks \in 0 .. Cardinality(Workers)
    /\ jobs \in 0 .. total_tests /\ total_tests \in 0 .. Cardinality(Jobs)
    /\ input_queue \in Seq(Jobs \cup {Break})
    /\ output_queue \in Seq([job : Jobs, result : Codes \cup {"skip", "is_break"}])
    /\ worker \in [Workers -> [at : {"get", "got", "running", "exited"},
                              job : Jobs \cup {Break, NoJob}]]
    /\ thread_exit \in BOOLEAN
    /\ files \in [Jobs -> {"PASS", "FAIL", "none"}]
    /\ tally \in [Status -> 0 .. total_tests]
    /\ results \in Seq([job : Jobs, result : Status])
    /\ ran \in [Jobs -> {"no", "garbled"} \cup Codes]

Occurrences(j, s) == Cardinality({i \in DOMAIN s : s[i] = j})
Reported(j) == {i \in DOMAIN output_queue : output_queue[i].job = j}
Holding(j) == {w \in Workers : worker[w].job = j}

(***************************************************************************)
(* A worker returns only when no job is waiting any more, and exactly one   *)
(* special job is left for each thread that has not returned: the FIFO      *)
(* order of input_queue keeps the special jobs behind the real ones, also   *)
(* while an interrupt sends jobs back.                                      *)
(***************************************************************************)
EveryThreadReturns ==
    LET exited == {w \in Workers : worker[w].at = "exited"} IN
    /\ exited /= {} => todo = << >> /\ ToSet(input_queue) \subseteq {Break}
    /\ breaks + Occurrences(Break, input_queue) + Cardinality(exited)
          = Cardinality(Workers)

(***************************************************************************)
(* No job is lost or handled twice between the threads: the results that    *)
(* are still to be collected are exactly the jobs waiting, held by a worker *)
(* or reported, each of them in one place.                                  *)
(***************************************************************************)
NoJobLost ==
    LET At(j) == Occurrences(j, input_queue) + Cardinality(Holding(j))
                     + Cardinality(Reported(j)) IN
    /\ \A j \in Jobs : At(j) <= 1
    /\ main /= "raised" => jobs = Cardinality({j \in Jobs : At(j) = 1})

(***************************************************************************)
(* What the exit status 0 that scripts rely on means, whenever an interrupt *)
(* arrives: every job that the options come down to was run and ended well, *)
(* or was to be skipped.  The jobs may be none: a name that matches no      *)
(* example leaves nothing to run, see ZeroMeansItRan.                       *)
(***************************************************************************)
ZeroMeansAllWell ==
    main = "return_0" =>
        \A j \in ToSet(JobList(options)) : ran[j] = "0" \/ IsSkip(options, j)

EntriesOf(j) == {i \in DOMAIN results : results[i].job = j}

\* Suites whose result file says something else than the return code.
Masked == {j \in Suites : ran[j] \in {"2", "garbled"}}

(***************************************************************************)
(* The XML file and the exit status, which are made from the results        *)
(* separately, agree.  No job has two entries and every process that ended  *)
(* has one; without an interrupt every chosen job has one.  With status 0   *)
(* all entries are PASS or SKIP.  With status 1, and no interrupt, some     *)
(* entry says why, unless the culprit is a suite whose own file was copied  *)
(* although valgrind found an error or its output could not be decoded.     *)
(***************************************************************************)
ResultsAgree ==
    LET good == {i \in DOMAIN results : results[i].result \in {"PASS", "SKIP"}} IN
    main \in {"return_0", "return_1"} =>
        /\ \A j \in Jobs : \A i, k \in EntriesOf(j) : i = k
        /\ \A j \in Jobs : ran[j] /= "no" => EntriesOf(j) /= {}
        /\ ~thread_exit => \A j \in ToSet(JobList(options)) : EntriesOf(j) /= {}
        /\ main = "return_0" => good = DOMAIN results
        /\ main = "return_1" /\ ~thread_exit => good /= DOMAIN results \/ Masked /= {}

(***************************************************************************)
(* As long as every process ends, so does the script: the main thread gets  *)
(* as many results as it dispatched jobs, and can join every thread.        *)
(***************************************************************************)
RunEnds == <>Ended

(***************************************************************************)
(* The comment in run_tests: "If the return code is 0, 1, or 2, we have a   *)
(* valid xml file."                                                         *)
(***************************************************************************)
ResultFileExists == main /= "raised"

(***************************************************************************)
(* The comment in run_tests: --constrain=pyexample runs all of the Python   *)
(* examples.  A run that is not interrupted ends with their results.        *)
(***************************************************************************)
ConstrainedToPyExamples ==
    /\ options.constrain = "pyexample" /\ Unspecified(options)
    /\ Ended /\ ~thread_exit
    => {results[i].job : i \in DOMAIN results} = PyExamples \cap DoRun

(***************************************************************************)
(* The usage in run_tests: "--example=examples/udp/udp-echo: run single     *)
(* example", "--pyexample=...: run python example".  A script that ends     *)
(* with 0 has run what it was asked for.                                    *)
(***************************************************************************)
ZeroMeansItRan ==
    main = "return_0" => \A k \in options.given : options[k] /= {}

(***************************************************************************)
(* The comment in run_tests: "in the case of a working TestSuite that       *)
(* fails valgrind, we'll see the PASS entry for the working TestSuite       *)
(* followed by a VALGR failing test suite of the same name".                *)
(***************************************************************************)
ValgrIsReported ==
    main \in {"return_0", "return_1"} =>
        \A j \in Suites : ran[j] = "2" =>
            \E i \in EntriesOf(j) : results[i].result = "VALGR"
=============================================================================
