-------------------------- MODULE MCWindowResources -------------------------
(* Three windows and a limit of two managers. *)
EXTENDS WindowResources, TLC

WindowSymmetry == Permutations(Windows)
=============================================================================
