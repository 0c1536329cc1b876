---------------------------- MODULE MCNrSlUeMac ----------------------------
(***************************************************************************)
(* NrSlUeMac for TLC.                                                      *)
(***************************************************************************)
EXTENDS NrSlUeMac, TLC

\* Destinations are interchangeable: no action orders them.
Symmetry == Permutations(Dst)
=============================================================================
