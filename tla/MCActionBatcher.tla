-------------------------- MODULE MCActionBatcher --------------------------
(* Two normal actions fill a batch; the third one and the one of high priority
   meet a full queue, a flush in progress or the hard limit. *)
EXTENDS ActionBatcher, TLC

CONSTANTS n1, n2, n3, h1, h2
=============================================================================
