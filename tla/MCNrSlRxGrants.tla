--------------------------- MODULE MCNrSlRxGrants ---------------------------
(***************************************************************************)
(* NrSlRxGrants for TLC.                                                   *)
(***************************************************************************)
EXTENDS NrSlRxGrants, TLC

\* Senders are interchangeable: no action orders them.
Symmetry == Permutations(Sender)
=============================================================================
