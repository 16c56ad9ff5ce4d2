---------------------------- MODULE MCCoreQueue ------------------------------
(* Small instances of CoreQueue: thunks r and s without a parent, c nested in
   r, g in c and h in g; all but s in the window w. *)
EXTENDS CoreQueue

CONSTANTS r, s, c, g, h, p1, p2, a1, a2, b1, i1, w, v, k1

MCParent ==
    [t \in Thunks |->
        CASE t = c -> r [] t = g -> c [] t = h -> g [] OTHER -> None]

MCLabelOf == [t \in Thunks |-> IF t = s THEN v ELSE w]

MCThunkOf ==
    [a \in Actions |->
        IF a \in {a1, a2} THEN r ELSE IF a = b1 THEN c ELSE None]
=============================================================================
