----------------------------- MODULE MCE2Control -----------------------------
(***************************************************************************)
(* Small instances of E2Control.                                            *)
(***************************************************************************)
EXTENDS E2Control

\* Two UEs in one message, one in the next, then the last report.
TwoParts == << <<1, 2>>, <<3>>, << >> >>
OnePart == << <<1>>, << >> >>
=============================================================================
