------------------------- MODULE MCActionScheduling -------------------------
(* Small instances of ActionScheduling: thunks t1, t2 and t3, plain actions p1 and
   p2, actions a1 and a2 of t1 and b1 of t2. *)
EXTENDS ActionScheduling

CONSTANTS t1, t2, t3, p1, p2, a1, a2, b1

MCThunkOf ==
    [a \in Actions |->
        IF a \in {a1, a2} THEN t1 ELSE IF a = b1 THEN t2 ELSE None]
=============================================================================
