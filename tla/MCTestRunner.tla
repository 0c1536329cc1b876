---------------------------- MODULE MCTestRunner ----------------------------
(***************************************************************************)
(* Small instances of TestRunner.                                           *)
(***************************************************************************)
EXTENDS TestRunner

\* Everything with no name given, names of one kind, and a suite together with
\* an example.  A constraint with names matters for a pattern of suites only.
Representative ==
    {o \in Options :
        /\ Cardinality(o.given) > 1 =>
              o.given = {"suite", "example"} /\ Cardinality(o.suite) = 1
        /\ o.given /= {} /\ o.constrain /= "" =>
              o.constrain = "performance" /\ Cardinality(o.suite) > 1}
=============================================================================
