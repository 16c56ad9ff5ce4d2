----------------------------- MODULE CoreThunks ------------------------------
(***************************************************************************)
(* ThunkManager of the Rust core: the registry of thunks with the root and *)
(* its cascade, and the registry of running tasks.  Each operation is one  *)
(* call; the plugin makes it under a write lock, and ActionQueueManager    *)
(* with exclusive access.  The modules that use it say what else happens.  *)
(***************************************************************************)
EXTENDS FiniteSets, Functions

CONSTANTS
    Thunks,    \* the thunk ids, each registered once
    Parent,    \* parent_id of a thunk, or None
    LabelOf,   \* source_label of a thunk
    Actions,   \* the actions of the modules that use this one, each dispatched once at most
    ThunkOf,   \* thunk_parent_id of an action, or None
    None

(* Nesting has no cycles, and a nested thunk is dispatched in the webview of
   its parent. *)
ASSUME CoreThunksAssumption ==
    /\ None \notin Thunks
    /\ Parent \in [Thunks -> Thunks \cup {None}]
    /\ \A S \in SUBSET Thunks \ {{}} : \E t \in S : Parent[t] \notin S
    /\ \A t \in Thunks : Parent[t] # None => LabelOf[t] = LabelOf[Parent[t]]
    /\ ThunkOf \in [Actions -> Thunks \cup {None}]

Closed(S) == \A u \in S : Parent[u] # None => Parent[u] \in S

(* A thunk with all its ancestors, registered or not. *)
Lineage ==
    [t \in Thunks |->
        {u \in Thunks : \A S \in SUBSET Thunks : t \in S /\ Closed(S) => u \in S}]

VARIABLES
    records,   \* by_id: state and root_thunk_id of the registered thunks
    root,      \* root_thunk_id
    tasks      \* running_tasks

thunks == <<records, root, tasks>>

Registered == DOMAIN records
Without(gone) == Restrict(records, Registered \ gone)
TasksWithout(gone) == {k \in tasks : k.thunk \notin gone}

(* The topmost ancestor on the chain of registered parents, or None when the
   chain is broken. *)
Topmost[t \in Thunks] ==
    IF t \notin Registered THEN None
    ELSE IF Parent[t] = None THEN t ELSE Topmost[Parent[t]]

ThunksInit ==
    /\ records = [t \in {} |-> 0]
    /\ root = None
    /\ tasks = {}

(* An unknown parent is an error, and changes nothing. *)
MayRegister(t) ==
    t \notin Registered /\ (Parent[t] = None \/ Parent[t] \in Registered)

(* Mutation: the stamp is the root of the moment. *)
WithRecordOfRoot(t, state) ==
    [u \in Registered \cup {t} |->
        IF u = t
        THEN [state |-> state, root |-> IF Parent[t] = None THEN None ELSE root]
        ELSE records[u]]

WithRecord(t, state) ==
    [u \in Registered \cup {t} |->
        IF u = t
        THEN [state |-> state,
              root |-> IF Parent[t] = None THEN None ELSE Topmost[Parent[t]]]
        ELSE records[u]]

Register(t) ==
    /\ MayRegister(t)
    /\ records' = WithRecord(t, "pending")
    /\ UNCHANGED <<root, tasks>>

RootWith(t) == IF root = None /\ Parent[t] = None THEN t ELSE root

(* A pending thunk executes; without a parent it becomes the root if there is
   none. *)
Execute(t) ==
    /\ t \in Registered /\ records[t].state = "pending"
    /\ records' = [records EXCEPT ![t].state = "executing"]
    /\ root' = RootWith(t)
    /\ UNCHANGED tasks

(* Mutation: the descendants of the root stay. *)
CompleteAlone(t) ==
    /\ t \in Registered
    /\ records' = Without({t})
    /\ root' = IF root = t THEN None ELSE root
    /\ tasks' = TasksWithout({t})

(* Mutation: the end of the root clears the registry. *)
CompleteClears(t) ==
    /\ t \in Registered
    /\ LET gone == IF root = t THEN Registered ELSE {t}
       IN  /\ records' = Without(gone)
           /\ tasks' = TasksWithout(gone)
    /\ root' = IF root = t THEN None ELSE root

Descendants(t) == {u \in Registered : records[u].root = t}

(* Completion and failure remove the record; the root takes its descendants
   with it. *)
Complete(t) ==
    /\ t \in Registered
    /\ LET gone == {t} \cup (IF root = t THEN Descendants(t) ELSE {})
       IN  /\ records' = Without(gone)
           /\ tasks' = TasksWithout(gone)
    /\ root' = IF root = t THEN None ELSE root

StartTask(k, t, concurrent) ==
    /\ tasks' = tasks \cup {[id |-> k, thunk |-> t, concurrent |-> concurrent]}
    /\ UNCHANGED <<records, root>>

CompleteTask(k) ==
    /\ tasks' = {task \in tasks : task.id # k}
    /\ UNCHANGED <<records, root>>

(* Mutation: the root pointer stays. *)
DropLabelKeepsRoot(l) ==
    LET gone == {t \in Registered : LabelOf[t] = l}
    IN  /\ records' = Without(gone)
        /\ tasks' = TasksWithout(gone)
        /\ UNCHANGED root

DropLabel(l) ==
    LET gone == {t \in Registered : LabelOf[t] = l}
    IN  /\ records' = Without(gone)
        /\ tasks' = TasksWithout(gone)
        /\ root' = IF root \in Registered \ gone THEN root ELSE None

HasActiveRoot == root \in Registered /\ records[root].state = "executing"

(* non_concurrent_thunk_ids *)
Busy == {k.thunk : k \in {task \in tasks : ~task.concurrent}}

ThunksTypeOK ==
    /\ Registered \subseteq Thunks
    /\ \A t \in Registered : /\ records[t].state \in {"pending", "executing"}
                             /\ records[t].root \in Thunks \cup {None}
    /\ root \in Thunks \cup {None}
=============================================================================
