---------------------------- MODULE MCVisualizer ----------------------------
(***************************************************************************)
(* Small instances of Visualizer.                                           *)
(***************************************************************************)
EXTENDS Visualizer

=============================================================================
