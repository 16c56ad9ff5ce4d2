--------------------------- MODULE MCMainDispatch ---------------------------
(* Two dispatches, and two bridges one of which may be destroyed after the
   other, with one pending action at most. *)
EXTENDS MainDispatch
=============================================================================
