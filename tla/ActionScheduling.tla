-------------------------- MODULE ActionScheduling --------------------------
(***************************************************************************)
(* The scheduling of actions in the Electron main process: ActionScheduler *)
(* decides which actions run now and which wait, ActionQueueManager routes *)
(* those that run, ThunkScheduler serialises the ones that belong to       *)
(* thunks, and ActionExecutor hands them to the state manager.             *)
(*                                                                         *)
(* Thunks start and end in the environment, by the steps of ThunkGate: the *)
(* ROOT_THUNK_COMPLETED event reaches the scheduler before it reaches the  *)
(* registration queues, since the scheduler subscribes first.  As in       *)
(* ThunkRegistration, calls is the stack of pending synchronous calls.     *)
(***************************************************************************)
EXTENDS Naturals, FiniteSets, SequencesExt, Selection

CONSTANTS
    Thunks,             \* the thunk ids
    Immediate,          \* the thunks dispatched with the immediate option
    None,
    Actions,            \* the action ids, each dispatched at most once
    ThunkOf,            \* __thunkParentId of an action, or None
    ImmediateActions,   \* those with __immediate
    MaxQueueSize        \* maxQueueSize of the scheduler

ASSUME ActionAssumption ==
    /\ Immediate \subseteq Thunks
    /\ None \notin Thunks
    /\ ThunkOf \in [Actions -> Thunks \cup {None}]
    /\ ImmediateActions \subseteq Actions
    /\ MaxQueueSize \in Nat \ {0}

VARIABLES
    executing,      \* the gate: thunks in state EXECUTING
    root,           \* the gate: rootThunkId
    known,          \* the thunks in the lifecycle manager's map
    begun,          \* ghost: the thunks that have started, each one once
    queue,          \* ActionScheduler.queue, in order of receivedTime
    running,        \* ActionScheduler.runningActions
    tasks,          \* ThunkScheduler.queue: the actions of its tasks
    runningTasks,   \* ThunkScheduler.runningTasks
    executor,       \* the actions the state manager is processing
    settled,        \* actions whose processing is over but not yet reported
    reports,        \* how often each action's onComplete was called
    dispatched,     \* ghost: the actions handed to enqueueAction, in order
    calls           \* the pending synchronous calls, innermost first

gate == <<executing, root, known, begun>>
scheduler == <<queue, running>>
taskScheduler == <<tasks, runningTasks>>
vars == <<gate, scheduler, taskScheduler, executor, settled, reports,
          dispatched, calls>>

Gate == INSTANCE ThunkGate

(* Actions that are not a thunk's and have no privilege. *)
Plain == {a \in Actions : ThunkOf[a] = None} \ ImmediateActions

(* Actions that run as tasks of the thunk scheduler. *)
Tasks == {a \in Actions : ThunkOf[a] # None} \ ImmediateActions

(* PRIORITY_LEVELS, of the actions that can be queued. *)
RootThunkAction == 70
NormalThunkAction == 50
NormalAction == 0
Priorities == {RootThunkAction, NormalThunkAction, NormalAction}

QueuedAction == [action : Actions, priority : Priorities]

ProcessQueue == [op |-> "processQueue"]
ProcessTasks == [op |-> "processTasks"]
Execute(a) == [op |-> "executeAction", action |-> a]

Frames == {ProcessQueue, ProcessTasks} \cup {Execute(a) : a \in Actions}

TypeOK ==
    /\ Gate!TypeOK
    /\ known \subseteq begun
    /\ begun \subseteq Thunks
    /\ queue \in Seq(QueuedAction)
    /\ running \subseteq Actions
    /\ tasks \in Seq(Tasks)
    /\ runningTasks \subseteq Tasks
    /\ executor \subseteq Actions
    /\ settled \subseteq Actions
    /\ reports \in [Actions -> Nat]
    /\ dispatched \in Seq(Actions)
    /\ calls \in Seq(Frames)

Init ==
    /\ Gate!Init
    /\ known = {}
    /\ begun = {}
    /\ queue = <<>>
    /\ running = {}
    /\ tasks = <<>>
    /\ runningTasks = {}
    /\ executor = {}
    /\ settled = {}
    /\ reports = [a \in Actions |-> 0]
    /\ dispatched = <<>>
    /\ calls = <<>>
-----------------------------------------------------------------------------
(* canExecuteImmediately *)
HasActiveThunk == root \in executing

CanExecute(a) ==
    \/ a \in ImmediateActions
    \/ ~HasActiveThunk
    \/ /\ ThunkOf[a] = root
       /\ \/ runningTasks = {}
          \/ \E b \in runningTasks : ThunkOf[b] = ThunkOf[a]

(* getPriorityForAction *)
PriorityOf(a) ==
    CASE ThunkOf[a] = None -> NormalAction
      [] ThunkOf[a] # None /\ ThunkOf[a] = root -> RootThunkAction
      [] OTHER -> NormalThunkAction

(* Mutation: by priority, the newest first. *)
SortedNewestFirst(q) ==
    LET Level(p) == Reverse(Selected(q, {i \in DOMAIN q : q[i].priority = p}))
    IN  Level(RootThunkAction) \o Level(NormalThunkAction) \o Level(NormalAction)

(* sortQueue: by priority, then by age. *)
Sorted(q) ==
    LET Level(p) == Selected(q, {i \in DOMAIN q : q[i].priority = p})
    IN  Level(RootThunkAction) \o Level(NormalThunkAction) \o Level(NormalAction)

Queued == {queue[i].action : i \in DOMAIN queue}
Dispatched == {dispatched[i] : i \in DOMAIN dispatched}

Report(as) == reports' = [a \in Actions |-> IF a \in as THEN reports[a] + 1 ELSE reports[a]]

Add(a) == Append(queue, [action |-> a, priority |-> PriorityOf(a)])

(* handleQueueOverflow: the entry that makes room, or 0: the oldest of the
   low-priority ones, else the oldest if the new action is worth it. *)
Droppable == {i \in DOMAIN queue : queue[i].priority < NormalThunkAction}
Oldest(is) == CHOOSE i \in is : \A j \in is : i <= j
Victim(a) ==
    IF Droppable # {} THEN Oldest(Droppable)
    ELSE IF PriorityOf(a) < NormalThunkAction THEN 0 ELSE 1
-----------------------------------------------------------------------------
Calling(frame) == calls # <<>> /\ Head(calls) = frame

(* The event loop is free: no call is pending, and no failThunk is under way. *)
Idle == calls = <<>> /\ root \in executing \cup {None}

(* An action arrives, alone or in a batch.  Its thunk may be unknown:
   handleDispatch waits until the thunk is registered, handleBatchDispatch does
   not, and a thunk may be forgotten meanwhile. *)
Arrives(a) ==
    /\ Idle
    /\ a \notin Dispatched
    /\ dispatched' = Append(dispatched, a)

(* enqueueAction: executed at once ... *)
EnqueueAndExecute(a) ==
    /\ Arrives(a)
    /\ CanExecute(a)
    /\ calls' = <<Execute(a)>>
    /\ UNCHANGED <<gate, scheduler, taskScheduler, executor, settled, reports>>

(* ... or queued ... *)
EnqueueAndWait(a) ==
    /\ Arrives(a)
    /\ ~CanExecute(a)
    /\ Len(queue) < MaxQueueSize
    /\ queue' = Add(a)
    /\ UNCHANGED <<gate, running, taskScheduler, executor, settled,
                   reports, calls>>

(* Mutation: nobody is told of a dropped action. *)
EnqueueAndOverflowSilently(a) ==
    /\ Arrives(a)
    /\ ~CanExecute(a)
    /\ Len(queue) >= MaxQueueSize
    /\ queue' = IF Victim(a) = 0 THEN queue ELSE RemoveAt(Add(a), Victim(a))
    /\ UNCHANGED <<gate, running, taskScheduler, executor, settled, reports, calls>>

(* Mutation: the dropped action stays in the queue. *)
EnqueueAndOverflowKeeps(a) ==
    /\ Arrives(a)
    /\ ~CanExecute(a)
    /\ Len(queue) >= MaxQueueSize
    /\ IF Victim(a) = 0
          THEN Report({a}) /\ UNCHANGED queue
          ELSE /\ queue' = Add(a)
               /\ Report(IF Droppable # {} THEN {queue[Victim(a)].action} ELSE {})
    /\ UNCHANGED <<gate, running, taskScheduler, executor, settled, calls>>

(* ... or, in a full queue, rejected, or accepted in the place of another.
   Only a low-priority action that is dropped has its onComplete called. *)
EnqueueAndOverflow(a) ==
    /\ Arrives(a)
    /\ ~CanExecute(a)
    /\ Len(queue) >= MaxQueueSize
    /\ IF Victim(a) = 0
          THEN Report({a}) /\ UNCHANGED queue
          ELSE /\ queue' = RemoveAt(Add(a), Victim(a))
               /\ Report(IF Droppable # {} THEN {queue[Victim(a)].action} ELSE {})
    /\ UNCHANGED <<gate, running, taskScheduler, executor, settled, calls>>

(* Mutation: the actions chosen stay in the queue. *)
DecideQueueKeeps ==
    /\ Calling(ProcessQueue)
    /\ LET sorted == Sorted(queue)
           chosen == Selected(sorted, {i \in DOMAIN sorted : CanExecute(sorted[i].action)})
       IN  calls' = [i \in DOMAIN chosen |-> Execute(chosen[i].action)]
                        \o Tail(calls)
    /\ UNCHANGED <<gate, scheduler, taskScheduler, executor, settled, reports, dispatched>>

(* Mutation: the queue is emptied with the actions chosen from it. *)
DecideQueueClears ==
    /\ Calling(ProcessQueue)
    /\ LET sorted == Sorted(queue)
           chosen == Selected(sorted, {i \in DOMAIN sorted : CanExecute(sorted[i].action)})
       IN  /\ queue' = <<>>
           /\ calls' = [i \in DOMAIN chosen |-> Execute(chosen[i].action)]
                           \o Tail(calls)
    /\ UNCHANGED <<gate, running, taskScheduler, executor, settled, reports, dispatched>>

(* processQueue: decides on every queued action first, then executes those it
   chose, in order.  Nothing it calls calls it again, so the processing flag
   that guards against that is left out. *)
DecideQueue ==
    /\ Calling(ProcessQueue)
    /\ LET sorted == Sorted(queue)
           chosen == Selected(sorted, {i \in DOMAIN sorted : CanExecute(sorted[i].action)})
       IN  /\ queue' = Selected(queue, {i \in DOMAIN queue : ~CanExecute(queue[i].action)})
           /\ calls' = [i \in DOMAIN chosen |-> Execute(chosen[i].action)]
                           \o Tail(calls)
    /\ UNCHANGED <<gate, running, taskScheduler, executor, settled, reports, dispatched>>

(* executeAction and processAction: the executor takes the actions that are no
   task ... *)
ExecuteDirectly(a) ==
    /\ Calling(Execute(a))
    /\ a \notin Tasks
    /\ running' = running \cup {a}
    /\ executor' = executor \cup {a}
    /\ calls' = Tail(calls)
    /\ UNCHANGED <<gate, queue, taskScheduler, settled, reports, dispatched>>

(* ... and scheduleThunkAction makes a task of the others, or rejects them when
   their thunk is gone. *)
ExecuteAsTask(a) ==
    /\ Calling(Execute(a))
    /\ a \in Tasks
    /\ running' = running \cup {a}
    /\ IF ThunkOf[a] \in known
          THEN /\ tasks' = Append(tasks, a)
               /\ calls' = <<ProcessTasks>> \o Tail(calls)
               /\ UNCHANGED settled
          ELSE /\ settled' = settled \cup {a}
               /\ calls' = Tail(calls)
               /\ UNCHANGED tasks
    /\ UNCHANGED <<gate, queue, runningTasks, executor, reports, dispatched>>

(* Mutation: no conflict between the tasks of different thunks. *)
StartTaskConcurrently ==
    /\ Calling(ProcessTasks)
    /\ tasks # <<>>
    /\ tasks' = Tail(tasks)
    /\ runningTasks' = runningTasks \cup {Head(tasks)}
    /\ executor' = executor \cup {Head(tasks)}
    /\ calls' = Tail(calls)
    /\ UNCHANGED <<gate, scheduler, settled, reports, dispatched>>

(* A task conflicts with every other that cannot run concurrently, and none
   here can. *)
HasConflicts == runningTasks # {}

(* ThunkScheduler.processQueue starts a task that has no conflicts: the first,
   or none. *)
StartTask ==
    /\ Calling(ProcessTasks)
    /\ ~HasConflicts /\ tasks # <<>>
    /\ tasks' = Tail(tasks)
    /\ runningTasks' = runningTasks \cup {Head(tasks)}
    /\ executor' = executor \cup {Head(tasks)}
    /\ calls' = Tail(calls)
    /\ UNCHANGED <<gate, scheduler, settled, reports, dispatched>>

NoTaskToStart ==
    /\ Calling(ProcessTasks)
    /\ HasConflicts \/ tasks = <<>>
    /\ calls' = Tail(calls)
    /\ UNCHANGED <<gate, scheduler, taskScheduler, executor, settled, reports, dispatched>>

(* The state manager is done with an action, or it threw.  A task leaves the
   running ones, the next task starts, and the action scheduler is called
   back: executeTask. *)
ActionProcessed(a) ==
    /\ Idle
    /\ a \in executor
    /\ executor' = executor \ {a}
    /\ settled' = settled \cup {a}
    /\ runningTasks' = runningTasks \ {a}
    /\ calls' = IF a \in Tasks THEN <<ProcessTasks, ProcessQueue>> ELSE <<>>
    /\ UNCHANGED <<gate, scheduler, tasks, reports, dispatched>>

(* executeAction resumes: onComplete, then the queue again. *)
ActionReported(a) ==
    /\ Idle
    /\ a \in settled
    /\ settled' = settled \ {a}
    /\ running' = running \ {a}
    /\ Report({a})
    /\ calls' = <<ProcessQueue>>
    /\ UNCHANGED <<gate, queue, taskScheduler, executor, dispatched>>
-----------------------------------------------------------------------------
(* The environment: thunks. *)
actionState == <<scheduler, taskScheduler, executor, settled, reports, dispatched>>

(* A thunk starts: also while failThunk calls its listeners. *)
ThunkBegins(t) ==
    /\ calls = <<>>
    /\ t \notin begun
    /\ Gate!Begin(t)
    /\ known' = known \cup {t}
    /\ begun' = begun \cup {t}
    /\ UNCHANGED <<actionState, calls>>

(* Mutation: the scheduler does not listen to the end of the root. *)
ThunkCompletesUnheard(t) ==
    /\ Idle
    /\ t \in executing
    /\ Gate!Complete(t)
    /\ calls' = <<ProcessTasks>>
    /\ UNCHANGED <<known, begun, actionState>>

(* The end of the root calls the scheduler; completion then calls the thunk
   scheduler. *)
ThunkCompletes(t) ==
    /\ Idle
    /\ t \in executing
    /\ Gate!Complete(t)
    /\ calls' = (IF root = t THEN <<ProcessQueue>> ELSE <<>>) \o <<ProcessTasks>>
    /\ UNCHANGED <<known, begun, actionState>>

(* Mutation: the failure of the root is no end of it. *)
ThunkFailsUnheard(t) ==
    /\ Idle
    /\ t \in executing
    /\ Gate!Fail(t)
    /\ UNCHANGED <<known, begun, actionState, calls>>

ThunkFails(t) ==
    /\ Idle
    /\ t \in executing
    /\ Gate!Fail(t)
    /\ calls' = IF root = t THEN <<ProcessQueue>> ELSE <<>>
    /\ UNCHANGED <<known, begun, actionState>>

RootReleased ==
    /\ calls = <<>>
    /\ root # None
    /\ Gate!Release
    /\ UNCHANGED <<known, begun, actionState, calls>>

(* The lifecycle manager deletes a thunk that has ended. *)
ThunkForgotten(t) ==
    /\ Idle
    /\ t \in known \ executing
    /\ known' = known \ {t}
    /\ UNCHANGED <<executing, root, begun, actionState, calls>>

Code ==
    \/ DecideQueue \/ StartTask \/ NoTaskToStart
    \/ \E a \in Actions : ExecuteDirectly(a) \/ ExecuteAsTask(a)

Next ==
    \/ Code
    \/ \E a \in Actions :
          \/ EnqueueAndExecute(a) \/ EnqueueAndWait(a) \/ EnqueueAndOverflow(a)
          \/ ActionProcessed(a) \/ ActionReported(a)
    \/ \E t \in Thunks :
          ThunkBegins(t) \/ ThunkCompletes(t) \/ ThunkFails(t) \/ ThunkForgotten(t)
    \/ RootReleased

Spec == Init /\ [][Next]_vars

(* The event loop runs what is pending, the state manager settles the actions
   it is given, and thunks end. *)
Progress ==
    \/ Code
    \/ RootReleased
    \/ \E a \in Actions : ActionProcessed(a) \/ ActionReported(a)
    \/ \E t \in Thunks : ThunkCompletes(t)

Fairness == WF_vars(Progress)

FairSpec == Spec /\ Fairness
-----------------------------------------------------------------------------
(* Properties. *)

(* The action an action's start is about enters the executor. *)
Starts(a) == a \notin executor /\ a \in executor'

(* An action has been dispatched and has not reached the state manager. *)
Waits(a) ==
    \/ a \in Queued
    \/ \E i \in DOMAIN calls : calls[i] = Execute(a)
    \/ \E i \in DOMAIN tasks : tasks[i] = a

SameStream(a, b) ==
    \/ {a, b} \subseteq Plain
    \/ {a, b} \subseteq Tasks /\ ThunkOf[a] = ThunkOf[b]

(* Each action is in one place of the schedulers only, in one stage of its
   life, and onComplete is called once, after it has left them all: neither
   rejected and executed, nor dropped and executed, nor executed twice.  And
   the state manager processes one task at a time, whatever the thunks the
   tasks come from: the one the thunk scheduler takes for running.  The state
   keeps its types. *)
OnePlace ==
    LET Called(a) == \E i \in DOMAIN calls : calls[i] = Execute(a)
        Tasked(a) == \E i \in DOMAIN tasks : tasks[i] = a
        Places(a) == <<a \in Queued, Called(a), Tasked(a), a \in executor,
                       a \in settled, reports[a] > 0>>
    IN  /\ TypeOK
        /\ \A a \in Actions :
              /\ reports[a] <= 1
              /\ Cardinality({i \in 1..6 : Places(a)[i]}) <= 1
        /\ runningTasks = executor \cap Tasks
        /\ \A a, b \in runningTasks : a = b

(* When the event loop is free and no root executes, no action waits. *)
NoStrandedAction == Idle /\ ~HasActiveThunk => queue = <<>>

(* No action overtakes one of its stream: plain actions, and the tasks of one
   thunk, reach the state manager in the order in which they were dispatched,
   whether they were queued, with whatever priority, or executed at once. *)
NoOvertaking ==
    [][\A i, j \in DOMAIN dispatched :
          /\ i < j
          /\ SameStream(dispatched[i], dispatched[j])
          /\ Starts(dispatched[j])
          => ~Waits(dispatched[i])]_vars

(* No plain action is lost, whatever the overflow of the queue drops: in the
   end the callback of bridge/ipc/IpcHandler.ts is called, when the action is
   completed or with an error. *)
PlainReported ==
    \A a \in Plain : a \in Dispatched ~> reports[a] = 1
=============================================================================
