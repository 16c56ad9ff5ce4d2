---------------------------- MODULE MainDispatch ----------------------------
(***************************************************************************)
(* Dispatch in the main process, over the life of one bridge and the next. *)
(* The action scheduler, the main thunk processor and its promises belong  *)
(* to the process, not to a bridge: creating a bridge points them at its   *)
(* store, destroying one releases them, and actions dispatched under one   *)
(* bridge may be processed, completed or time out under another.           *)
(*                                                                         *)
(* Most dispatches here are of a program of a main thunk, which is         *)
(* registered while it runs; PlainDispatch is that of an action outside of *)
(* a thunk.  What ActionScheduling says of the queue is here a free choice *)
(* of which action runs next and which is dropped.  A store is the one of  *)
(* its bridge; its adapter runs a handler that applies the action, fails   *)
(* or goes on asynchronously.                                              *)
(***************************************************************************)
EXTENDS Naturals, FiniteSets

CONSTANTS
    Dispatches,
    Bridges,
    MaxPending,     \* maxQueueSize of the processor
    None

ASSUME DispatchAssumption ==
    /\ MaxPending \in Nat \ {0}
    /\ None \notin Bridges

VARIABLES
    bridge,         \* none, live, closing or closed
    manager,        \* stateManager of the main thunk processor
    executor,       \* the store that the action queue's executor has
    reachable,      \* mainThunkProcessorInstance is the processor dispatch uses
    place,          \* where the action of a dispatch is
    store,          \* the store that processes it
    outcome,        \* what its handler did, or that the queue dropped it
    pending,        \* pendingActionPromises
    timers,         \* armed timeouts
    promise,        \* what the caller has
    answer,         \* the store whose state a completion resolved with
    home,           \* ghost: the bridge whose dispatch was called
    created,        \* ghost: how many bridges were
    born,           \* ghost: which one a bridge was, 0 if it was not
    closings,       \* ghost: bridges alive when another one was released
    moved           \* ghost: dispatches during which a bridge came or went

bridges == <<bridge, manager, executor, reachable, created, born, closings>>
actions == <<place, store, outcome>>
promises == <<pending, timers, promise, answer>>
vars == <<bridges, actions, promises, home, moved>>

Waiting == {d \in Dispatches : promise[d] = "waiting"}

-----------------------------------------------------------------------------
(* Bridges *)

(* Mutation: the action queue keeps its first executor. *)
InitActionQueueOnce(b) == executor' = IF executor = None THEN b ELSE executor

(* initActionQueue: the scheduler's processor is that of a new manager. *)
InitActionQueue(b) == executor' = b

(* initialize of the processor *)
Initialize(b) == manager' = b

(* createDispatch *)
CreateDispatch(b) == Initialize(b)

(* createZustandBridge and createReduxBridge: the core bridge initialises the
   action queue, createDispatch the processor. *)
CreateBridge(b) ==
    /\ bridge[b] = "none"
    /\ bridge' = [bridge EXCEPT ![b] = "live"]
    /\ InitActionQueue(b)
    /\ CreateDispatch(b)
    /\ created' = created + 1
    /\ born' = [born EXCEPT ![b] = created + 1]
    /\ moved' = moved \cup Waiting
    /\ UNCHANGED <<reachable, closings, actions, promises, home>>

(* destroy, up to the import that it awaits. *)
BeginDestroy(b) ==
    /\ bridge[b] = "live"
    /\ bridge' = [bridge EXCEPT ![b] = "closing"]
    /\ UNCHANGED <<manager, executor, reachable, created, born, closings, actions,
                   promises, home, moved>>

(* destroy of the processor: every pending promise is resolved. *)
DestroyProcessor ==
    /\ manager' = None
    /\ promise' = [d \in Dispatches |->
                      IF d \in pending \cap Waiting THEN "forced" ELSE promise[d]]
    /\ pending' = {}

(* resetMainThunkProcessor destroys the instance of its module and forgets it.
   dispatch keeps the one it took when it was loaded, so that only the first
   call reaches it. *)
ResetMainThunkProcessor ==
    /\ reachable' = FALSE
    /\ IF reachable THEN DestroyProcessor ELSE UNCHANGED <<manager, promise, pending>>

(* The rest of destroy. *)
FinishDestroy(b) ==
    /\ bridge[b] = "closing"
    /\ bridge' = [bridge EXCEPT ![b] = "closed"]
    /\ ResetMainThunkProcessor
    /\ closings' = closings \cup {c \in Bridges : bridge[c] = "live"}
    /\ moved' = moved \cup Waiting
    /\ UNCHANGED <<executor, created, born, timers, answer, actions, home>>

-----------------------------------------------------------------------------
(* dispatchAction *)

Call(d, b) ==
    /\ promise[d] = "idle" /\ bridge[b] # "none"
    /\ home' = [home EXCEPT ![d] = b]

Refuse(d, b) ==
    /\ Call(d, b)
    /\ manager = None
    /\ promise' = [promise EXCEPT ![d] = "refused"]
    /\ UNCHANGED <<bridges, actions, pending, timers, answer, moved>>

Overflow(d, b) ==
    /\ Call(d, b)
    /\ manager # None /\ Cardinality(pending) >= MaxPending
    /\ promise' = [promise EXCEPT ![d] = "overflow"]
    /\ UNCHANGED <<bridges, actions, pending, timers, answer, moved>>

(* Mutation: no timeout. *)
EnqueueUntimed(d, b) ==
    /\ Call(d, b)
    /\ manager # None /\ Cardinality(pending) < MaxPending
    /\ promise' = [promise EXCEPT ![d] = "waiting"]
    /\ pending' = pending \cup {d}
    /\ place' = [place EXCEPT ![d] = "queued"]
    /\ UNCHANGED <<bridges, store, outcome, timers, answer, moved>>

Enqueue(d, b) ==
    /\ Call(d, b)
    /\ manager # None /\ Cardinality(pending) < MaxPending
    /\ promise' = [promise EXCEPT ![d] = "waiting"]
    /\ pending' = pending \cup {d}
    /\ timers' = timers \cup {d}
    /\ place' = [place EXCEPT ![d] = "queued"]
    /\ UNCHANGED <<bridges, store, outcome, answer, moved>>

(* Mutation: the completion of an asynchronous handler is not awaited. *)
ProcessActionAtOnce(d, s, ended, awaited) ==
    /\ store' = [store EXCEPT ![d] = s]
    /\ place' = [place EXCEPT ![d] = ended]
    /\ \/ \E result \in {"applied", "failed"} : outcome' = [outcome EXCEPT ![d] = result]
       \/ UNCHANGED outcome

(* The handler, the reducer or the method ran, or it threw. *)
HandlerReturns(d) ==
    \E result \in {"applied", "failed"} : outcome' = [outcome EXCEPT ![d] = result]

(* resolveHandler: an action's type names no handler, in any case or path. *)
NoHandler(d) == outcome' = [outcome EXCEPT ![d] = "ignored"]

(* processAction of an adapter: the handler, reducer or method ends, or
   returns a promise, or there is none. *)
ProcessAction(d, s, ended, awaited) ==
    /\ store' = [store EXCEPT ![d] = s]
    /\ \/ place' = [place EXCEPT ![d] = ended] /\ (HandlerReturns(d) \/ NoHandler(d))
       \/ place' = [place EXCEPT ![d] = awaited] /\ UNCHANGED outcome

(* processAction of the processor: the action goes to the store at once.  Its
   result is ignored, and what its handler goes on doing is not awaited. *)
ProcessStandalone(d) ==
    /\ manager # None
    /\ ProcessAction(d, manager, "done", "detached")

PlainDispatch(d, b) ==
    /\ Call(d, b)
    /\ ProcessStandalone(d)
    /\ promise' = [promise EXCEPT ![d] = "returned"]
    /\ UNCHANGED <<bridges, pending, timers, answer, moved>>

(* The queue drops an action, before any handler has seen it: it overflows,
   or its thunk is unknown when its turn comes.  Its onComplete is called with
   the error, or nobody is told. *)
Drop(d) ==
    /\ place[d] = "queued"
    /\ outcome' = [outcome EXCEPT ![d] = "dropped"]
    /\ \E next \in {"ran", "dropped"} : place' = [place EXCEPT ![d] = next]
    /\ UNCHANGED <<bridges, store, promises, home, moved>>

(* The queue's processor takes the action to the executor's store, as a task
   of its thunk. *)
Execute(d) ==
    /\ place[d] = "queued"
    /\ ProcessAction(d, executor, "ran", "awaiting")
    /\ UNCHANGED <<bridges, promises, home, moved>>

(* The promise of a handler settles; a rejection becomes a value. *)
HandlerEnds(d) ==
    /\ place[d] \in {"awaiting", "detached"}
    /\ HandlerReturns(d)
    /\ place' = [place EXCEPT ![d] = IF @ = "awaiting" THEN "ran" ELSE "done"]
    /\ UNCHANGED <<bridges, store, promises, home, moved>>

(* onComplete, which does not look at the error it is called with, and
   completeAction. *)
Complete(d) ==
    /\ place[d] = "ran"
    /\ place' = [place EXCEPT ![d] = "done"]
    /\ timers' = timers \ {d}
    /\ IF d \in pending
       THEN /\ promise' = [promise EXCEPT ![d] = "completed"]
            /\ answer' = [answer EXCEPT ![d] = manager]
            /\ pending' = pending \ {d}
       ELSE UNCHANGED <<promise, answer, pending>>
    /\ UNCHANGED <<bridges, store, outcome, home, moved>>

(* The timeout of an action, which may be processed all the same. *)
Timeout(d) ==
    /\ d \in timers
    /\ timers' = timers \ {d}
    /\ pending' = pending \ {d}
    /\ promise' = [promise EXCEPT ![d] = IF @ = "waiting" THEN "timeout" ELSE @]
    /\ UNCHANGED <<bridges, actions, answer, home, moved>>

-----------------------------------------------------------------------------

Init ==
    /\ bridge = [b \in Bridges |-> "none"]
    /\ manager = None /\ executor = None /\ reachable = TRUE
    /\ place = [d \in Dispatches |-> "none"]
    /\ store = [d \in Dispatches |-> None]
    /\ outcome = [d \in Dispatches |-> "none"]
    /\ pending = {} /\ timers = {}
    /\ promise = [d \in Dispatches |-> "idle"]
    /\ answer = [d \in Dispatches |-> None]
    /\ home = [d \in Dispatches |-> None]
    /\ created = 0 /\ born = [b \in Bridges |-> 0] /\ closings = {} /\ moved = {}

Next ==
    \/ \E b \in Bridges : CreateBridge(b) \/ BeginDestroy(b) \/ FinishDestroy(b)
    \/ \E d \in Dispatches :
          \/ \E b \in Bridges :
                Refuse(d, b) \/ Overflow(d, b) \/ Enqueue(d, b) \/ PlainDispatch(d, b)
          \/ Drop(d) \/ Execute(d) \/ HandlerEnds(d) \/ Complete(d) \/ Timeout(d)

(* A timer that is armed fires, and a callback that is due is called. *)
Fairness ==
    \A d \in Dispatches : WF_vars(Timeout(d)) /\ WF_vars(Complete(d))

Spec == Init /\ [][Next]_vars /\ Fairness

-----------------------------------------------------------------------------

Places == {"none", "queued", "dropped", "awaiting", "detached", "ran", "done"}
Stores == Bridges \cup {None}

(* The tables are of their types; a pending promise waits, and so does its
   caller. *)
TypeOK ==
    /\ bridge \in [Bridges -> {"none", "live", "closing", "closed"}]
    /\ manager \in Stores /\ executor \in Stores /\ reachable \in BOOLEAN
    /\ created \in Nat /\ born \in [Bridges -> Nat] /\ closings \subseteq Bridges
    /\ place \in [Dispatches -> Places] /\ store \in [Dispatches -> Stores]
    /\ outcome \in [Dispatches -> {"none", "applied", "failed", "ignored", "dropped"}]
    /\ pending \subseteq Waiting /\ timers \subseteq Dispatches
    /\ promise \in [Dispatches -> {"idle", "refused", "overflow", "waiting", "returned",
                                   "forced", "completed", "timeout"}]
    /\ answer \in [Dispatches -> Stores] /\ home \in [Dispatches -> Stores]
    /\ moved \subseteq Dispatches

(* A dispatch in a thunk is answered by a completion only when the action's
   handler has ended or there is none, and with a state of the store it
   changed, unless a bridge came or went meanwhile.  An action that the queue
   dropped is the exception: onComplete, which is to be called when the action
   "actually finishes", ignores its error and answers it as completed too; its
   caller has a completion for an action that no store has seen.
   (mainThunkProcessor.ts:56-77, 353-370, ActionExecutor.ts:38-59) *)
AnswerHasEffect ==
    \A d \in Dispatches : promise[d] = "completed" =>
        \/ /\ outcome[d] \in {"applied", "failed", "ignored"}
           /\ outcome[d] = "applied" => answer[d] = store[d] \/ d \in moved
        \/ outcome[d] = "dropped" /\ store[d] = None

(* An action is applied to the store of its bridge, or of a bridge created
   after it; and a live bridge refuses a dispatch only if the destruction of
   another ended while it was alive.
   (BridgeFactory.ts:25-26, 128-175, dispatch.ts:37-52, main.ts:64-123) *)
ActionsStayAtHome ==
    \A d \in Dispatches :
        /\ store[d] \notin {None, home[d]} => born[store[d]] > born[home[d]]
        /\ promise[d] = "refused" =>
              bridge[home[d]] # "live" \/ home[d] \in closings

(* Every dispatch in a thunk is answered: by its completion, by its timeout or
   by the destruction of the bridge, whatever the queue dropped.
   (mainThunkProcessor.ts:318-370, 385-407) *)
EveryDispatchSettles ==
    \A d \in Dispatches : promise[d] = "waiting" ~> promise[d] # "waiting"
=============================================================================
