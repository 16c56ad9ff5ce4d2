----------------------- MODULE MCStateUpdateTracking ------------------------
(* Symmetric windows for StateUpdateTracking. *)
EXTENDS StateUpdateTracking, TLC

RendererSymmetry == Permutations(Renderers)
=============================================================================
