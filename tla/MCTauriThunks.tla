---------------------------- MODULE MCTauriThunks ----------------------------
EXTENDS TauriThunks, TLC

CONSTANTS r, c, d, x, b, e, f, p, w1, w2

(* c and d are nested in r; x runs in another window; p is of the application. *)
MCParent == (r :> None) @@ (c :> r) @@ (d :> r) @@ (x :> None)
MCLabelOf == (r :> w1) @@ (c :> w1) @@ (d :> w1) @@ (x :> w2)
MCThunkOf == (b :> r) @@ (e :> c) @@ (f :> d) @@ (p :> None)
==============================================================================
