------------------------ MODULE MCThunkRegistration ------------------------
(* Small instances of ThunkRegistration: thunks m1, m2 of the main process and
   r1, r2, r3 of windows w1 and w2. *)
EXTENDS ThunkRegistration

CONSTANTS m1, m2, r1, r2, r3, w1, w2

(* m1 dispatches m2, and r1 dispatches r2. *)
NestedParent ==
    [t \in Thunks |-> IF t = m2 THEN m1 ELSE IF t = r2 THEN r1 ELSE None]

(* r3 is alone in w2. *)
TwoWindows == [t \in RendererThunks |-> IF t = r3 THEN w2 ELSE w1]
=============================================================================
