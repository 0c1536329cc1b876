---------------------------- MODULE MCNrSlRlcUm ------------------------------
(***************************************************************************)
(* Small instances of NrSlRlcUm.                                            *)
(***************************************************************************)
EXTENDS NrSlRlcUm

=============================================================================
