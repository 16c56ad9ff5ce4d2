---------------------------- MODULE NestedState ----------------------------
(***************************************************************************)
(* States with nested objects, the keys that name their parts, and what    *)
(* DeltaCalculator, DeltaMerger, getPartialState, sanitizeState and        *)
(* stateKeyExists do with them.                                            *)
(*                                                                         *)
(* A key 'user.name' is the path <<"user", "name">>.  A value is a         *)
(* function on the set of paths that lead to something in it, <<>> among   *)
(* them: Obj where an object is, a leaf elsewhere.  The empty function is  *)
(* undefined.  A state is a value that is an object; its roots are its top *)
(* level keys.                                                             *)
(***************************************************************************)
EXTENDS Naturals, Sequences, SequencesExt, FiniteSets

CONSTANTS
    Names,      \* of the properties of objects
    Leaves,     \* the values that are not objects
    Obj,        \* an object
    Function,   \* a leaf: a function, which cannot be serialized
    Cut         \* a leaf: '[Max Depth Exceeded: ...]'

ASSUME NestedStateAssumption ==
    /\ Obj \notin Leaves
    /\ Function \in Leaves /\ Cut \in Leaves /\ Function # Cut

Undefined == [r \in {} |-> Obj]
EmptyObject == [r \in {<<>>} |-> Obj]

Above(p) == {SubSeq(p, 1, i) : i \in 0..(Len(p) - 1)}
After(p, r) == SubSeq(r, Len(p) + 1, Len(r))
Root(p) == SubSeq(p, 1, 1)
RootsOf(v) == {r \in DOMAIN v : Len(r) = 1}
Related(p, r) == IsPrefix(p, r) \/ IsPrefix(r, p)

(* What is below something is below an object. *)
IsValue(v) ==
    /\ v \in [DOMAIN v -> Leaves \cup {Obj}]
    /\ DOMAIN v \subseteq Seq(Names)
    /\ \A r \in DOMAIN v : Above(r) \subseteq {q \in DOMAIN v : v[q] = Obj}
IsState(v) == IsValue(v) /\ <<>> \in DOMAIN v /\ v[<<>>] = Obj

(* deepGet *)
At(v, p) ==
    LET inside == {r \in DOMAIN v : IsPrefix(p, r)}
    IN  [q \in {After(p, r) : r \in inside} |-> v[p \o q]]

(* setDeep, of each key of changed: what is not an object on the way becomes
   one.  The new values are parts of one state, so that the order of the keys
   does not matter; the sharing of objects with the old copy does not show. *)
SetAll(v, changed) ==
    LET From(r) == {k \in DOMAIN changed : IsPrefix(k, r)}
        kept == {r \in DOMAIN v : From(r) = {}}
        way == UNION {Above(k) : k \in DOMAIN changed}
        set == UNION {{k \o q : q \in DOMAIN changed[k]} : k \in DOMAIN changed}
    IN  [r \in kept \cup way \cup set |->
            CASE From(r) # {} -> LET k == CHOOSE k \in From(r) : TRUE
                                 IN  changed[k][After(k, r)]
              [] From(r) = {} /\ r \in way -> Obj
              [] OTHER -> v[r]]
SetDeep(v, p, w) == SetAll(v, [k \in {p} |-> w])

(* deleteDeep, of each key, leaves the objects on the way, empty or not. *)
DeleteAll(v, keys) ==
    [r \in {r \in DOMAIN v : \A k \in keys : ~IsPrefix(k, r)} |-> v[r]]
DeleteDeep(v, p) == DeleteAll(v, {p})

(* getPartialState: the values of the keys, at their places. *)
Partial(v, keys) ==
    [r \in {<<>>} \cup {r \in DOMAIN v : \E k \in keys \cap DOMAIN v : Related(k, r)} |-> v[r]]

(* sanitizeState: no functions, and nothing deeper than maxDepth. *)
Sanitize(v, maxDepth) ==
    LET kept == {r \in DOMAIN v :
                   Len(r) <= maxDepth + 1 /\ (v[r] # Function \/ Len(r) > maxDepth)}
    IN  [r \in kept |-> IF Len(r) > maxDepth THEN Cut ELSE v[r]]

(* stateKeyExists *)
StateKeyExists(v, key) == key \in DOMAIN v

-----------------------------------------------------------------------------
(* Deltas.  changed maps keys to their new values. *)

(* stateToDeltaKeys *)
ToDeltaKeys(v, keys) == [k \in keys \cap DOMAIN v |-> At(v, k)]

Missing(prev, next, keys) == {k \in keys : k \in DOMAIN prev /\ k \notin DOMAIN next}

(* Mutation: a root counts as absent when the subscription has nothing of it. *)
PromoteByPartial(removed, next, fullNext) ==
    {IF Root(k) \in DOMAIN next THEN k ELSE Root(k) : k \in removed}

(* Mutation: nothing is promoted. *)
PromoteNone(removed, next, fullNext) == removed

(* A removed key whose root is gone from the whole state becomes the root. *)
Promote(removed, next, fullNext) ==
    {IF Root(k) \in DOMAIN fullNext THEN k ELSE Root(k) : k \in removed}

(* calculate, with a previous state *)
Calculate(prev, next, keys, fullNext) ==
    [changed |-> ToDeltaKeys(next, {k \in keys : At(prev, k) # At(next, k)}),
     removed |-> Promote(Missing(prev, next, keys), next, fullNext)]

(* calculateTopLevelDelta *)
CalculateTopLevel(prev, next) ==
    Calculate(prev, next, RootsOf(prev) \cup RootsOf(next), next)

(* merge of a delta *)
MergeDelta(state, d) == DeleteAll(SetAll(state, d.changed), d.removed)

(* merge of a full state: an empty one is no replacement. *)
MergeFull(state, full) == IF full = EmptyObject THEN state ELSE full
=============================================================================
