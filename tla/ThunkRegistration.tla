------------------------- MODULE ThunkRegistration -------------------------
(***************************************************************************)
(* The registration and lifecycle of thunks in the Electron main process:  *)
(* ThunkLifecycleManager, the two ThunkRegistrationQueues that share it    *)
(* (the one of MainThunkProcessor and the one of IpcHandler), and the two  *)
(* programs that use them, the main process's executeThunk and the         *)
(* renderer's executeThunk with its register/ack/complete messages.        *)
(*                                                                         *)
(* JavaScript runs a callback to completion, and an EventEmitter calls its *)
(* listeners synchronously.  The variable calls is the stack of those      *)
(* calls: every action of the environment needs it empty, every step of    *)
(* the code that is pending pops its head, and an emit pushes one frame    *)
(* per listener, before the statements that follow the emit.               *)
(***************************************************************************)
EXTENDS Naturals, Sequences

CONSTANTS
    Thunks,         \* the thunk ids
    MainThunks,     \* those dispatched in the main process
    Immediate,      \* those dispatched with the immediate option
    Parent,         \* the thunk that dispatches a nested thunk, or None
    MayAwait,       \* the nested thunks whose parent may await them
    Windows,        \* the renderer windows
    WindowOf,       \* the window of each thunk of a renderer
    None,
    MayThrow,       \* main thunks whose body may throw
    MayTimeOut,     \* renderer thunks whose REGISTER_THUNK_ACK may be late
    MayRedispatch,  \* thunks that may dispatch an action while unknown
    MayDie          \* windows that may be destroyed

RendererThunks == Thunks \ MainThunks

(* A QueuedThunk: first tells a registration by executeThunk from one by an
   action of a thunk that the main process does not know. *)
Registration == [thunk : Thunks, immediate : BOOLEAN, first : BOOLEAN]

ASSUME ThunkAssumption ==
    /\ MainThunks \subseteq Thunks
    /\ Immediate \subseteq Thunks
    /\ None \notin Thunks \cup Registration
    /\ Parent \in [Thunks -> Thunks \cup {None}]
    /\ \A t \in Thunks : Parent[t] # None =>
          /\ Parent[t] \in MainThunks <=> t \in MainThunks
          /\ t \in MainThunks => (Parent[t] \in Immediate <=> t \in Immediate)
    /\ MayAwait \subseteq {t \in Thunks : Parent[t] # None}
    /\ WindowOf \in [RendererThunks -> Windows]
    /\ MayThrow \subseteq MainThunks
    /\ MayTimeOut \subseteq RendererThunks
    /\ MayRedispatch \subseteq Thunks
    /\ MayDie \subseteq Windows

VARIABLES
    thunkState,     \* ThunkLifecycleManager.thunks: the state of each entry
    root,           \* rootThunkId
    queue,          \* thunkRegistrationQueue of each ThunkRegistrationQueue
    processing,     \* the registration processingThunkRegistration stands for
    calls,          \* the pending synchronous calls, innermost first
    cleanup,        \* thunks with a setImmediate of tryFinalCleanup pending
    body,           \* where the program that dispatched the thunk is
    acks,           \* REGISTER_THUNK_ACK messages on their way
    redispatched,   \* ghost: bounds MayRedispatch to one message a thunk
    awaited         \* the nested thunks whose parent awaits them, as it is written

registry == <<thunkState, root, cleanup>>
queues == <<queue, processing>>
programs == <<body, acks, redispatched, awaited>>
vars == <<registry, queues, calls, programs>>

(* The two queues that production code registers thunks with. *)
Queues == {"main", "ipc"}
QueueOf(t) == IF t \in MainThunks THEN "main" ELSE "ipc"

(* The registrations of main thunks bring the thunk's body as a callback. *)
HasCallback(r) == r.first /\ r.thunk \in MainThunks

ProcessNext(q) == [op |-> "processNext", queue |-> q]
HandleSettled(q) == [op |-> "handleSettled", queue |-> q]
TryFinalCleanup(t) == [op |-> "tryFinalCleanup", thunk |-> t]
ClearRoot == [op |-> "clearRoot"]

Frames ==
    [op : {"processNext", "handleSettled"}, queue : Queues]
        \cup [op : {"tryFinalCleanup"}, thunk : Thunks]
        \cup {ClearRoot}

(* Mutation: the queue of IpcHandler does not listen. *)
ListenersMainOnly == <<ProcessNext("main")>>

(* The listeners of ROOT_THUNK_COMPLETED and of THUNK_STARTED, in the order
   in which the queues are constructed. *)
Listeners == <<ProcessNext("main"), ProcessNext("ipc")>>

(* getActiveThunksSummary *)
Active == {t \in Thunks : thunkState[t] = "executing"}

MainBody == {"idle", "queued", "running", "thrown", "done"}
RendererBody == {"idle", "registering", "running", "done", "dead"}

TypeOK ==
    /\ thunkState \in [Thunks -> {"absent", "executing", "completed", "failed"}]
    /\ root \in Thunks \cup {None}
    /\ queue \in [Queues -> Seq(Registration)]
    /\ processing \in [Queues -> Registration \cup {None}]
    /\ calls \in Seq(Frames)
    /\ cleanup \subseteq Thunks
    /\ body \in [Thunks -> MainBody \cup RendererBody]
    /\ acks \subseteq RendererThunks
    /\ redispatched \subseteq MayRedispatch
    /\ awaited \subseteq MayAwait

Init ==
    /\ thunkState = [t \in Thunks |-> "absent"]
    /\ root = None
    /\ queue = [q \in Queues |-> <<>>]
    /\ processing = [q \in Queues |-> None]
    /\ calls = <<>>
    /\ cleanup = {}
    /\ body = [t \in Thunks |-> "idle"]
    /\ acks = {}
    /\ redispatched = {}
    /\ awaited \in SUBSET MayAwait
-----------------------------------------------------------------------------
(* The synchronous code: each action is the head of calls. *)

Calling(frame) == calls # <<>> /\ Head(calls) = frame

(* Mutation: the queue does not ask whether a thunk is active. *)
CanStartAlways(q) == processing[q] = None /\ queue[q] # <<>>

(* The head registration of a queue may start: alone, unless immediate. *)
CanStart(q) ==
    /\ processing[q] = None
    /\ queue[q] # <<>>
    /\ Head(queue[q]).immediate \/ Active = {}

(* registerThunk puts a fresh entry in the map; markThunkExecuting activates
   it, as the root if there is none. *)
RegisterThunk(t) ==
    /\ thunkState' = [thunkState EXCEPT ![t] = "executing"]
    /\ root' = IF root = None THEN t ELSE root

(* processNextThunkRegistration starts the head, which emits THUNK_STARTED.
   A registration with a callback stays in process until the body has run; any
   other is settled at once. *)
StartHead(q) ==
    LET r == Head(queue[q])
        t == r.thunk
    IN  /\ Calling(ProcessNext(q))
        /\ CanStart(q)
        /\ queue' = [queue EXCEPT ![q] = Tail(@)]
        /\ processing' = [processing EXCEPT ![q] = r]
        /\ RegisterThunk(t)
        /\ IF HasCallback(r)
              THEN /\ body' = [body EXCEPT ![t] = "running"]
                   /\ calls' = Listeners \o Tail(calls)
              ELSE /\ calls' = Listeners \o <<HandleSettled(q)>> \o Tail(calls)
                   /\ UNCHANGED body
        /\ UNCHANGED <<cleanup, acks, redispatched, awaited>>

(* processNextThunkRegistration returns: busy, empty, or blocked. *)
NothingToStart(q) ==
    /\ Calling(ProcessNext(q))
    /\ ~CanStart(q)
    /\ calls' = Tail(calls)
    /\ UNCHANGED <<registry, queues, programs>>


(* handleCompletion and handleError: the promise of the registration is
   settled, which for a renderer's thunk sends REGISTER_THUNK_ACK. *)
Settle(q) ==
    LET r == processing[q]
    IN  /\ Calling(HandleSettled(q))
        /\ processing' = [processing EXCEPT ![q] = None]
        /\ calls' = <<ProcessNext(q)>> \o Tail(calls)
        /\ acks' = IF q = "ipc" /\ r.first THEN acks \cup {r.thunk} ELSE acks
        /\ UNCHANGED <<registry, queue, body, redispatched, awaited>>

(* tryFinalCleanup: nothing is scheduled when the thunk was started again,
   or still has state updates to be acknowledged. *)
ScheduleCleanup(t) ==
    /\ Calling(TryFinalCleanup(t))
    /\ calls' = Tail(calls)
    /\ \/ thunkState[t] = "completed" /\ cleanup' = cleanup \cup {t}
       \/ UNCHANGED cleanup
    /\ UNCHANGED <<thunkState, root, queues, programs>>

(* The end of failThunk, after its ROOT_THUNK_COMPLETED. *)
ForgetRoot ==
    /\ Calling(ClearRoot)
    /\ root' = None
    /\ calls' = Tail(calls)
    /\ UNCHANGED <<thunkState, cleanup, queues, programs>>

(* Mutation: completion keeps the root. *)
CompleteThunkKeepsRoot(t, rest) ==
    IF thunkState[t] \in {"absent", "completed"}
       THEN calls' = rest /\ UNCHANGED <<thunkState, root>>
       ELSE /\ thunkState' = [thunkState EXCEPT ![t] = "completed"]
            /\ UNCHANGED root
            /\ calls' = (IF root = t THEN Listeners ELSE <<>>)
                            \o <<TryFinalCleanup(t)>> \o rest

(* Mutation: only the root can be completed. *)
CompleteThunkRootOnly(t, rest) ==
    IF root # t
       THEN calls' = rest /\ UNCHANGED <<thunkState, root>>
       ELSE /\ thunkState' = [thunkState EXCEPT ![t] = "completed"]
            /\ root' = None
            /\ calls' = Listeners \o <<TryFinalCleanup(t)>> \o rest

(* completeThunk, with the calls that follow it. *)
CompleteThunk(t, rest) ==
    IF thunkState[t] \in {"absent", "completed"}
       THEN calls' = rest /\ UNCHANGED <<thunkState, root>>
       ELSE /\ thunkState' = [thunkState EXCEPT ![t] = "completed"]
            /\ root' = IF root = t THEN None ELSE root
            /\ calls' = (IF root = t THEN Listeners ELSE <<>>)
                            \o <<TryFinalCleanup(t)>> \o rest

(* failThunk, with the calls that follow it. *)
FailThunk(t, rest) ==
    IF thunkState[t] = "absent"
       THEN calls' = rest /\ UNCHANGED <<thunkState, root>>
       ELSE /\ thunkState' = [thunkState EXCEPT ![t] = "failed"]
            /\ calls' = (IF root = t THEN Listeners \o <<ClearRoot>> ELSE <<>>)
                            \o rest
            /\ UNCHANGED root
-----------------------------------------------------------------------------
(* The event loop: each action starts a callback or handles a message. *)

(* Nothing is pending: the microtask that MainThrows leaves goes first. *)
Idle ==
    /\ calls = <<>>
    /\ \A t \in Thunks : body[t] # "thrown"

(* A program awaits the nested thunk it dispatched. *)
Blocked(p) ==
    \E c \in awaited : Parent[c] = p /\ body[c] \notin {"idle", "done"}

(* A thunk is dispatched by the application or by its running parent. *)
Dispatchable(t) ==
    /\ body[t] = "idle"
    /\ Parent[t] # None => body[Parent[t]] = "running" /\ ~Blocked(Parent[t])

Enqueue(q, r) == queue' = [queue EXCEPT ![q] = Append(@, r)]

(* MainThunkProcessor.executeThunk *)
MainExecute(t) ==
    /\ Idle
    /\ t \in MainThunks /\ Dispatchable(t)
    /\ body' = [body EXCEPT ![t] = "queued"]
    /\ Enqueue("main",
           [thunk |-> t, immediate |-> t \in Immediate, first |-> TRUE])
    /\ calls' = <<ProcessNext("main")>>
    /\ UNCHANGED <<registry, processing, acks, redispatched, awaited>>

(* mainThunkCallback resolves: completeThunk, then handleCompletion. *)
MainReturns(t) ==
    /\ Idle
    /\ t \in MainThunks /\ body[t] = "running" /\ ~Blocked(t)
    /\ body' = [body EXCEPT ![t] = "done"]
    /\ CompleteThunk(t, <<HandleSettled("main")>>)
    /\ UNCHANGED <<cleanup, queues, acks, redispatched, awaited>>

(* The body throws: executeThunk's catch marks the thunk failed ... *)
MainThrows(t) ==
    /\ Idle
    /\ t \in MayThrow /\ body[t] = "running" /\ ~Blocked(t)
    /\ body' = [body EXCEPT ![t] = "thrown"]
    /\ FailThunk(t, <<>>)
    /\ UNCHANGED <<cleanup, queues, acks, redispatched, awaited>>

(* ... and a microtask later the queue's catch does, before handleError. *)
MainRejected(t) ==
    /\ calls = <<>>
    /\ t \in MainThunks /\ body[t] = "thrown"
    /\ body' = [body EXCEPT ![t] = "done"]
    /\ FailThunk(t, <<HandleSettled("main")>>)
    /\ UNCHANGED <<cleanup, queues, acks, redispatched, awaited>>

(* Mutation: REGISTER_THUNK is acknowledged when it is queued. *)
RendererExecuteAckedAtOnce(t) ==
    /\ Idle
    /\ t \in RendererThunks /\ Dispatchable(t)
    /\ body' = [body EXCEPT ![t] = "registering"]
    /\ Enqueue("ipc",
           [thunk |-> t, immediate |-> t \in Immediate, first |-> TRUE])
    /\ calls' = <<ProcessNext("ipc")>>
    /\ acks' = acks \cup {t}
    /\ UNCHANGED <<registry, processing, redispatched, awaited>>

(* The renderer's executeThunk sends REGISTER_THUNK, handled by
   handleRegisterThunk. *)
RendererExecute(t) ==
    /\ Idle
    /\ t \in RendererThunks /\ Dispatchable(t)
    /\ body' = [body EXCEPT ![t] = "registering"]
    /\ Enqueue("ipc",
           [thunk |-> t, immediate |-> t \in Immediate, first |-> TRUE])
    /\ calls' = <<ProcessNext("ipc")>>
    /\ UNCHANGED <<registry, processing, acks, redispatched, awaited>>

(* REGISTER_THUNK_ACK arrives: the body starts, if it has not yet. *)
RendererAcked(t) ==
    /\ Idle
    /\ t \in acks
    /\ acks' = acks \ {t}
    /\ body' = [body EXCEPT ![t] = IF @ = "registering" THEN "running" ELSE @]
    /\ UNCHANGED <<registry, queues, calls, redispatched, awaited>>

(* The registration times out; executeThunk logs it and runs the body. *)
RendererGivesUpWaiting(t) ==
    /\ Idle
    /\ t \in MayTimeOut /\ body[t] = "registering"
    /\ body' = [body EXCEPT ![t] = "running"]
    /\ UNCHANGED <<registry, queues, calls, acks, redispatched, awaited>>

(* The body returns or throws: COMPLETE_THUNK, handled by
   handleCompleteThunk. *)
RendererReturns(t) ==
    /\ Idle
    /\ t \in RendererThunks /\ body[t] = "running" /\ ~Blocked(t)
    /\ body' = [body EXCEPT ![t] = "done"]
    /\ CompleteThunk(t, <<>>)
    /\ UNCHANGED <<cleanup, queues, acks, redispatched, awaited>>

(* An action of a thunk the main process does not know, from a body that
   runs unregistered or a dispatch that outlives its thunk, registers the
   thunk: dispatchAction in the main process, handleDispatch for a renderer. *)
DispatchUnknown(t) ==
    /\ Idle
    /\ t \in MayRedispatch \ redispatched
    /\ body[t] \in {"running", "done"}
    /\ thunkState[t] = "absent"
    /\ redispatched' = redispatched \cup {t}
    /\ Enqueue(QueueOf(t), [thunk |-> t, first |-> FALSE,
                            immediate |-> t \in MainThunks \cap Immediate])
    /\ calls' = <<ProcessNext(QueueOf(t))>>
    /\ UNCHANGED <<registry, processing, body, acks, awaited>>

(* The last acknowledgement of a completed thunk's updates retries the
   cleanup. *)
UpdatesAcknowledged(t) ==
    /\ Idle
    /\ thunkState[t] = "completed" /\ t \notin cleanup
    /\ cleanup' = cleanup \cup {t}
    /\ UNCHANGED <<thunkState, root, queues, calls, programs>>

(* The setImmediate of tryFinalCleanup: whatever the thunk's state is now,
   its entry is deleted, unless it has pending updates again. *)
CleanupThunk(t) ==
    /\ Idle
    /\ t \in cleanup
    /\ cleanup' = cleanup \ {t}
    /\ \/ thunkState' = [thunkState EXCEPT ![t] = "absent"]
       \/ UNCHANGED thunkState
    /\ UNCHANGED <<root, queues, calls, programs>>

(* A window is destroyed with the programs it runs. *)
WindowDestroyed(w) ==
    /\ Idle
    /\ w \in MayDie
    /\ \E t \in RendererThunks : WindowOf[t] = w /\ body[t] # "dead"
    /\ body' = [t \in Thunks |->
           IF t \in RendererThunks /\ WindowOf[t] = w THEN "dead" ELSE body[t]]
    /\ UNCHANGED <<registry, queues, calls, acks, redispatched, awaited>>

Code ==
    \/ \E q \in Queues : StartHead(q) \/ NothingToStart(q) \/ Settle(q)
    \/ \E t \in Thunks : ScheduleCleanup(t)
    \/ ForgetRoot

Program(t) ==
    MainReturns(t) \/ MainRejected(t) \/ RendererAcked(t) \/ RendererReturns(t)

Next ==
    \/ Code
    \/ \E t \in Thunks :
          \/ Program(t)
          \/ MainExecute(t) \/ MainThrows(t)
          \/ RendererExecute(t) \/ RendererGivesUpWaiting(t)
          \/ DispatchUnknown(t)
          \/ UpdatesAcknowledged(t) \/ CleanupThunk(t)
    \/ \E w \in Windows : WindowDestroyed(w)

Spec == Init /\ [][Next]_vars

(* The event loop runs what is pending, messages arrive and the bodies of
   thunks end, unless they await or their window is gone. *)
Fairness ==
    /\ WF_vars(Code)
    /\ \A t \in Thunks : WF_vars(Program(t))

FairSpec == Spec /\ Fairness
-----------------------------------------------------------------------------
(* Properties. *)

(* docs/developer.md, "Concurrency Control", with ThunkGate's promise: what
   the lifecycle manager and the two queues do together, however their events
   nest, lets thunks execute one at a time, the immediate ones excepted. *)
Gate == INSTANCE ThunkGate WITH executing <- Active

ImplementsGate == Gate!Spec

(* The root is an executing thunk: the action scheduler, which reads
   rootThunkId and then the state of that thunk, never ignores a thunk that
   runs nor waits for one that is gone.  Only while failThunk still has its
   listeners to call does the failed thunk stay the root, and only a thunk
   registered twice can be deleted while it is the root. *)
RootIsActive ==
    root \notin MayRedispatch \cup {None} =>
        root \in Active \/ \E i \in DOMAIN calls : calls[i] = ClearRoot

(* A program that was given up on, repeats its registration or lost its window. *)
Stray == MayTimeOut \cup MayRedispatch

(* Programs and entries keep step.  A body runs only while the main process
   counts its thunk as executing, so that nothing the queues decide forgets a
   running program: what the REGISTER_THUNK_ACK handshake and the completion
   messages are for; a renderer that does not wait for the handshake is on its
   own, and only it.  And a thunk executes only while there is a program that
   will end it: neither completion nor failure leaves an entry that blocks
   every later thunk, unless its window is gone. *)
ProgramsKeepStep ==
    \A t \in Thunks \ Stray :
        /\ body[t] = "running" => t \in Active
        /\ t \in Active => body[t] \in {"queued", "registering", "running", "dead"}

(* What may stop a queue for good has not happened: a failure, the end of an
   immediate thunk, whose start is not that of a root, and the deletion of an
   entry that was registered again, all of which wake no queue. *)
Ordinary ==
    /\ \A t \in Thunks : thunkState[t] # "failed"
    /\ \A t \in Immediate : body[t] = "idle"
    /\ redispatched = {}

(* No wakeup is lost: when the event loop is idle and no thunk executes, no
   registration waits in a queue for an event that nobody will emit. *)
NoLostWakeup ==
    Idle /\ Active = {} /\ Ordinary => \A q \in Queues : queue[q] = <<>>

(* A program awaits a nested thunk that waits for the end of that program:
   executeThunk awaits the registration, which the queue defers while the
   parent executes.  Neither ever moves again, nor does what waits behind. *)
CircularWait ==
    \E c \in awaited \ Immediate :
        body[c] \in {"queued", "registering"} /\ body[Parent[c]] = "running"

=============================================================================
