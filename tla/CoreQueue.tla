----------------------------- MODULE CoreQueue -------------------------------
(***************************************************************************)
(* ActionQueueManager of the Rust core: ActionScheduler, a bounded queue   *)
(* with priorities, over the ThunkManager.  Every call has the manager to  *)
(* itself and runs to its end.  thunk_manager_mut hands out the            *)
(* ThunkManager, and what a caller changes there the scheduler does not    *)
(* notice until the next call that drains the queue.                       *)
(***************************************************************************)
EXTENDS CoreThunks, Naturals, Sequences, SequencesExt

CONSTANTS
    ImmediateActions,   \* the actions with immediate
    TaskIds,
    MaxQueueSize

ASSUME CoreQueueAssumption ==
    /\ ImmediateActions \subseteq Actions
    /\ MaxQueueSize \in Nat \ {0}

VARIABLES
    queue,       \* the scheduler's queue: its order is made when it is drained
    executed,    \* the actions handed to the state manager, in order
    outcome,     \* of each action, and for one in the queue: queued
    begun,       \* ghost: thunks that were registered
    roots,       \* ghost: thunks that were the root
    unlinked,    \* ghost: thunks registered below a parent with an ancestor that had ended
    neglected    \* ghost: actions in the queue that nothing blocked for a time

scheduler == <<queue, executed, outcome>>
queueVars == <<thunks, scheduler, begun, roots, unlinked, neglected>>

Outcomes == {"new", "queued", "executed", "rejected", "dropped"}

-----------------------------------------------------------------------------
Threshold == 50
Priorities == {0, 50, 70, 100}

PriorityOf(a) ==
    IF a \in ImmediateActions THEN 100
    ELSE IF ThunkOf[a] = None THEN 0
    ELSE IF ThunkOf[a] = root THEN 70 ELSE 50

(* can_execute_immediately: while a root executes, only its own actions, and
   those only beside no non-concurrent task, or one of their own. *)
CanExecute(a) ==
    \/ a \in ImmediateActions
    \/ ~HasActiveRoot
    \/ ThunkOf[a] = root /\ (Busy = {} \/ root \in Busy)

Ready == {e \in queue : CanExecute(e.action)}

Before(e, f) == e.priority > f.priority \/ (e.priority = f.priority /\ e.at < f.at)

(* Mutation: the newest first. *)
InOrderNewestFirst(entries) ==
    LET Newer(e, f) == e.priority > f.priority \/ (e.priority = f.priority /\ e.at > f.at)
        Sooner(e) == {f \in entries : Newer(f, e)}
    IN  [i \in 1..Cardinality(entries) |->
            (CHOOSE e \in entries : Cardinality(Sooner(e)) = i - 1).action]

(* sort_queue: by priority, then by age. *)
InOrder(entries) ==
    LET Sooner(e) == {f \in entries : Before(f, e)}
    IN  [i \in 1..Cardinality(entries) |->
            (CHOOSE e \in entries : Cardinality(Sooner(e)) = i - 1).action]

(* Whoever leaves the queue is not neglected any more. *)
StillNeglected == neglected' = {a \in neglected : outcome'[a] = "queued"}

(* drain_queue executes what can be, after what ran before it. *)
Drain(before, ready) ==
    LET run == before \o InOrder(ready)
    IN  /\ executed' = executed \o run
        /\ queue' = queue \ ready
        /\ outcome' = [a \in Actions |-> IF a \in ToSet(run) THEN "executed" ELSE outcome[a]]
        /\ StillNeglected

-----------------------------------------------------------------------------
Arrivals == Cardinality({a \in Actions : outcome[a] # "new"})

Entry(a) == [action |-> a, priority |-> PriorityOf(a), at |-> Arrivals]

DispatchNow(a) ==
    /\ outcome[a] = "new" /\ CanExecute(a)
    /\ Drain(<<a>>, Ready)
    /\ UNCHANGED <<thunks, begun, roots, unlinked>>

DispatchLater(a) ==
    /\ outcome[a] = "new" /\ ~CanExecute(a)
    /\ Cardinality(queue) < MaxQueueSize
    /\ queue' = queue \cup {Entry(a)}
    /\ outcome' = [outcome EXCEPT ![a] = "queued"]
    /\ UNCHANGED <<thunks, executed, begun, roots, unlinked, neglected>>

Droppable == {e \in queue : e.priority < Threshold}

(* The least of the low-priority entries, the oldest of these; else, for an
   action of high priority, the oldest of all. *)
Victim(a) ==
    IF Droppable # {}
    THEN CHOOSE e \in Droppable : \A f \in Droppable \ {e} :
            e.priority < f.priority \/ (e.priority = f.priority /\ e.at < f.at)
    ELSE CHOOSE e \in queue : \A f \in queue \ {e} : e.at < f.at

(* handle_overflow.  The evicted action is reported to nobody. *)
DispatchOverflows(a) ==
    /\ outcome[a] = "new" /\ ~CanExecute(a)
    /\ Cardinality(queue) = MaxQueueSize
    /\ IF Droppable = {} /\ PriorityOf(a) <= Threshold
       THEN /\ outcome' = [outcome EXCEPT ![a] = "rejected"]
            /\ UNCHANGED queue
       ELSE /\ queue' = (queue \ {Victim(a)}) \cup {Entry(a)}
            /\ outcome' = [outcome EXCEPT ![Victim(a).action] = "dropped", ![a] = "queued"]
    /\ StillNeglected
    /\ UNCHANGED <<thunks, executed, begun, roots, unlinked>>

OnRegisterThunk(t) ==
    /\ t \notin begun
    /\ Register(t)
    /\ begun' = begun \cup {t}
    /\ unlinked' = IF Parent[t] # None /\ ~(Lineage[Parent[t]] \subseteq Registered)
                   THEN unlinked \cup {t} ELSE unlinked
    /\ UNCHANGED <<scheduler, roots, neglected>>

OnExecuteThunk(t) ==
    /\ Execute(t)
    /\ roots' = roots \cup ({root'} \ {None})
    /\ UNCHANGED <<scheduler, begun, unlinked, neglected>>

(* Mutation: only the end of the root drains the queue. *)
DrainAtRootOnly(t) ==
    /\ Complete(t)
    /\ LET MayNow(a) == CanExecute(a)'
       IN  IF root = t THEN Drain(<<>>, {e \in queue : MayNow(e.action)})
           ELSE UNCHANGED <<scheduler, neglected>>
    /\ UNCHANGED <<begun, roots, unlinked>>

(* on_thunk_complete: drained by the end of any thunk, under the context that
   leaves. *)
OnThunkComplete(t) ==
    /\ Complete(t)
    /\ LET MayNow(a) == CanExecute(a)'
       IN  Drain(<<>>, {e \in queue : MayNow(e.action)})
    /\ UNCHANGED <<begun, roots, unlinked>>

-----------------------------------------------------------------------------
(* What a caller does to the ThunkManager past the scheduler. *)

Neglect ==
    LET MayNow(a) == CanExecute(a)'
    IN  neglected' = neglected \cup {e.action : e \in {f \in queue : MayNow(f.action)}}

TaskStarts ==
    \E k \in TaskIds \ {task.id : task \in tasks}, t \in Registered, concurrent \in BOOLEAN :
        /\ StartTask(k, t, concurrent)
        /\ Neglect
        /\ UNCHANGED <<scheduler, begun, roots, unlinked>>

TaskEnds ==
    \E k \in {task.id : task \in tasks} :
        /\ CompleteTask(k)
        /\ Neglect
        /\ UNCHANGED <<scheduler, begun, roots, unlinked>>

WebviewClosed ==
    \E label \in {LabelOf[t] : t \in Registered} :
        /\ DropLabel(label)
        /\ Neglect
        /\ UNCHANGED <<scheduler, begun, roots, unlinked>>

-----------------------------------------------------------------------------
QueueInit ==
    /\ ThunksInit
    /\ queue = {} /\ executed = <<>>
    /\ outcome = [a \in Actions |-> "new"]
    /\ begun = {} /\ roots = {} /\ unlinked = {} /\ neglected = {}

QueueNext ==
    \/ \E a \in Actions : DispatchNow(a) \/ DispatchLater(a) \/ DispatchOverflows(a)
    \/ \E t \in Thunks : OnRegisterThunk(t) \/ OnExecuteThunk(t) \/ OnThunkComplete(t)
    \/ TaskStarts \/ TaskEnds \/ WebviewClosed

QueueSpec == QueueInit /\ [][QueueNext]_queueVars

-----------------------------------------------------------------------------
QueueTypeOK ==
    /\ ThunksTypeOK
    /\ outcome \in [Actions -> Outcomes]
    /\ executed \in Seq(Actions)
    /\ \A e \in queue : e.action \in Actions /\ e.priority \in Priorities /\ e.at \in Nat
    /\ Cardinality(queue) <= MaxQueueSize
    /\ {e.action : e \in queue} = {a \in Actions : outcome[a] = "queued"}
    /\ ToSet(executed) = {a \in Actions : outcome[a] = "executed"}

(* No action waits that nothing blocks, but one whose obstacle was taken away
   in the ThunkManager: there is no timer, so it would wait for the next call
   of a thunk or a dispatcher (on_thunk_complete drains unconditionally). *)
NothingEligibleWaits == {e.action : e \in Ready} \subseteq neglected

(* What the manager refers to is registered: a root that is gone would defer
   actions and keep any other thunk from being the root, and a task of a thunk
   that is gone would block the root's actions.  And nobody outlives a root
   among its ancestors, at any depth and whichever thunks between them have
   ended (complete, drop_label): it would never be removed.  The one exception
   is the broken chain of register, which the comment there takes to be
   impossible: a thunk registered below a parent whose own parent has ended
   gets no root, and the cascade does not find it.  The state keeps its types. *)
NothingDangling ==
    /\ QueueTypeOK
    /\ root # None => HasActiveRoot
    /\ \A k \in tasks : k.thunk \in Registered
    /\ \A t \in Registered \ unlinked : Lineage[t] \cap roots \subseteq Registered

RunsBefore(a, b) ==
    \E i, j \in DOMAIN executed : i < j /\ executed[i] = a /\ executed[j] = b

Overtakes(b, e) ==
    /\ b # e.action /\ ThunkOf[b] = ThunkOf[e.action] /\ b \notin ImmediateActions
    /\ \A f \in queue : f.action = b => f.at > e.at

(* Actions of one thunk, and those of none, reach the state manager in the
   order they were dispatched in, although entries keep the priority they
   were queued with while the root changes: one that runs while an earlier
   one waits runs in the same drain, after it. *)
NoOvertaking ==
    [][\A e \in queue, b \in Actions :
          /\ outcome[b] # "executed" /\ outcome'[b] = "executed"
          /\ Overtakes(b, e) /\ e.action \notin neglected
          => RunsBefore(e.action, b)']_queueVars
=============================================================================
