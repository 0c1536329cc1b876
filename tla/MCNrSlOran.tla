----------------------------- MODULE MCNrSlOran -----------------------------
(***************************************************************************)
(* NrSlOran and the schedule it implements, for TLC.                       *)
(***************************************************************************)
EXTENDS NrSlOran, TLC

\* Destinations are interchangeable: no action orders them.
Symmetry == Permutations(Dst)
=============================================================================
