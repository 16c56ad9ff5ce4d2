----------------------------- MODULE ThunkGate -----------------------------
(***************************************************************************)
(* What the main process promises about thunk execution, whatever the      *)
(* queues, callbacks and messages by which it is done: a gate that thunks  *)
(* pass through.  A thunk that is not "immediate" enters only an empty     *)
(* gate.  The first thunk to find no root becomes the root, on which the   *)
(* action scheduler bases every decision to run or defer an action.        *)
(* ThunkRegistration implements this module; ActionScheduling runs inside  *)
(* it.                                                                     *)
(***************************************************************************)
CONSTANTS
    Thunks,     \* the thunk ids
    Immediate,  \* those dispatched with the immediate option
    None        \* "undefined", for the root

VARIABLES
    executing,  \* the thunks whose state is EXECUTING
    root        \* rootThunkId

vars == <<executing, root>>

TypeOK ==
    /\ executing \subseteq Thunks
    /\ root \in Thunks \cup {None}

Init ==
    /\ executing = {}
    /\ root = None

(* A thunk starts: alone, unless it is immediate. *)
Begin(t) ==
    /\ t \in Immediate \/ executing = {}
    /\ executing' = executing \cup {t}
    /\ root' = IF root = None THEN t ELSE root

(* A thunk completes, and gives up the root with the same step. *)
Complete(t) ==
    /\ executing' = executing \ {t}
    /\ root' = IF root = t THEN None ELSE root

(* A thunk fails, or its entry is deleted.  When it is the root the gate still
   names it ... *)
Fail(t) ==
    /\ executing' = executing \ {t}
    /\ UNCHANGED root

(* ... until the failure handling ends. *)
Release ==
    /\ root \notin executing
    /\ root' = None
    /\ UNCHANGED executing

Next ==
    \/ \E t \in Thunks : Begin(t) \/ Complete(t) \/ Fail(t)
    \/ Release

Spec == Init /\ [][Next]_vars

(* docs/developer.md, "Concurrency Control": one thunk at a time, the
   immediate ones excepted. *)
Exclusive == \A s, t \in executing \ Immediate : s = t

(* The root never passes from one thunk to another without being given up:
   every root's end is visible to the action scheduler. *)
RootHandOver == [][root' # root => None \in {root, root'}]_vars
=============================================================================
