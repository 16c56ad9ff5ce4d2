----------------------------- MODULE StateDelta -----------------------------
(***************************************************************************)
(* The pure functions that turn a change of the store into a delta and a   *)
(* delta into a change of a window's cache: getPartialState of             *)
(* SubscriptionManager, DeltaCalculator.calculate and DeltaMerger.merge.   *)
(* A state is a function from the keys it has to their values; a key whose *)
(* value is undefined is not in its domain.  The keys are the flat, top    *)
(* level ones: dot paths, with their promotion of removals to the root and *)
(* their parents-first merge, are not modelled.                            *)
(***************************************************************************)

(* getPartialState: the keys of a state that a subscription is for. *)
Pick(state, keys) == [k \in keys \cap DOMAIN state |-> state[k]]

Differ(prev, next, k) ==
    \/ k \in DOMAIN prev /\ k \notin DOMAIN next
    \/ k \in DOMAIN next /\ k \notin DOMAIN prev
    \/ k \in DOMAIN prev /\ k \in DOMAIN next /\ prev[k] # next[k]

(* DeltaCalculator.calculate, for a baseline prev that has been seeded. *)
Delta(prev, next, keys) ==
    [changed |-> Pick(next, {k \in keys : Differ(prev, next, k)}),
     removed |-> (keys \cap DOMAIN prev) \ DOMAIN next]

IsEmpty(delta) == DOMAIN delta.changed = {} /\ delta.removed = {}

(* DeltaMerger.merge, for a delta of type 'delta' with content. *)
Merge(state, delta) ==
    [k \in (DOMAIN state \cup DOMAIN delta.changed) \ delta.removed |->
        IF k \in DOMAIN delta.changed THEN delta.changed[k] ELSE state[k]]

(* DeltaMerger.merge, for a delta of type 'full': an empty state is ignored. *)
Replace(state, fullState) ==
    IF DOMAIN fullState = {} THEN state ELSE fullState
=============================================================================
