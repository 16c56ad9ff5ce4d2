-------------------------- MODULE MCPreloadDispatch --------------------------
EXTENDS PreloadDispatch

CONSTANTS t, u, p, a1, a2

(* A plain action, one that t sends by itself, and one that it puts in a batch. *)
MCThunkOf == (p :> NoThunk) @@ (a1 :> t) @@ (a2 :> t)
==============================================================================
