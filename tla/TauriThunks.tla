----------------------------- MODULE TauriThunks -----------------------------
(***************************************************************************)
(* Thunks of a Tauri application.  They run in the windows: the            *)
(* RendererThunkProcessor of each window's client registers a thunk with   *)
(* the plugin, runs its body, sends its actions by themselves or in a      *)
(* batch, and reports the end.  The plugin keeps them in the ThunkManager  *)
(* of the core.  All of it is done by invoked commands, which the plugin   *)
(* runs in any order, each registration and completion under the registry  *)
(* lock, and every one of which is answered.  The application dispatches   *)
(* actions of its own beside them.  A client may be destroyed, and a       *)
(* window closed, while bodies run and commands are on their way.          *)
(***************************************************************************)
EXTENDS CoreThunks, Naturals, FiniteSetsExt

CONSTANTS
    AppWindow,      \* the window in which the application dispatches
    OptedIn,        \* those dispatched with the batch option
    Awaited,        \* the actions and nested thunks that the body awaits
    Flushers,       \* thunks whose bodies may flush
    MayDestroy,     \* bound: windows whose client may be destroyed
    MayClose,       \* bound: windows that may be closed
    MaxPending,   \* of the thunk processor
    MaxBatchSize    \* of the batcher

Windows == {LabelOf[t] : t \in Thunks}
WindowOf(a) == IF ThunkOf[a] = None THEN AppWindow ELSE LabelOf[ThunkOf[a]]

ASSUME TauriThunksAssumption ==
    /\ AppWindow \in Windows
    /\ OptedIn \subseteq {a \in Actions : ThunkOf[a] # None}
    /\ Awaited \subseteq Actions \cup {t \in Thunks : Parent[t] # None}
    /\ Flushers \subseteq Thunks
    /\ MaxPending \in Nat \ {0} /\ MaxBatchSize \in Nat \ {0}

VARIABLES
    client,        \* of each window: up, down (destroyed), or gone with its page
    body,          \* of each thunk, where executeThunk is
    call,          \* of each action, where the promise of its dispatch is
    fulfilled,     \* actions whose actionPromise was settled before their sender
    callbacks,     \* actionCompletionCallbacks, each with its timeout
    dispatches,    \* pendingDispatches
    queued,        \* the batcher's queue of each client
    inFlight,      \* the batches whose command is not answered
    commands,      \* invoked and not yet run
    answers,       \* run and not yet answered
    deserted       \* ghost: thunks nobody is left to complete

processor == <<fulfilled, callbacks, dispatches>>
batchers == <<queued, inFlight>>
vars == <<thunks, client, body, call, processor, batchers, commands, answers, deserted>>

Command(kind, of) == [kind |-> kind, of |-> of]
Invoke(kind, of) == commands' = commands \cup {Command(kind, of)}
RegisterThunk(t) == Invoke("register", t)
CompleteThunk(t) == Invoke("complete", t)

Of(w, S) == {a \in S : WindowOf(a) = w}

(* The client has its commands, and the processor its functions. *)
Up(w) == client[w] = "up"

InBody == {"running", "flushing"}
Live == {"registering", "completing"} \cup InBody

(* A body awaits an action or a nested thunk. *)
Blocked(t) ==
    \/ \E a \in Awaited \cap Actions : ThunkOf[a] = t /\ call[a] \in {"sending", "waiting"}
    \/ \E c \in Awaited \cap Thunks : Parent[c] = t /\ body[c] \in Live

Dispatching(t) == body[t] = "running" /\ ~Blocked(t)

-----------------------------------------------------------------------------
(* executeThunk *)

(* A destroyed processor has neither registrar nor label: the body of a nested
   thunk then runs all the same. *)
ExecuteThunk(t) ==
    /\ body[t] = "new"
    /\ IF Parent[t] = None THEN Up(LabelOf[t]) ELSE Dispatching(Parent[t])
    /\ IF Up(LabelOf[t])
       THEN /\ RegisterThunk(t)
            /\ body' = [body EXCEPT ![t] = "registering"]
       ELSE /\ body' = [body EXCEPT ![t] = "running"]
            /\ UNCHANGED commands
    /\ UNCHANGED <<thunks, client, call, processor, batchers, answers, deserted>>

Answered(kind, of) ==
    /\ Command(kind, of) \in answers
    /\ answers' = answers \ {Command(kind, of)}

ThunkRegistered(t) ==
    /\ Answered("registered", t)
    /\ body' = [body EXCEPT ![t] = IF @ = "registering" THEN "running" ELSE @]
    /\ UNCHANGED <<thunks, client, call, processor, batchers, commands, deserted>>

(* A refused registration is thrown: the body does not run, and no completion
   is sent. *)
ThunkRefused(t) ==
    /\ Answered("refused", t)
    /\ body' = [body EXCEPT ![t] = IF @ = "registering" THEN "refused" ELSE @]
    /\ UNCHANGED <<thunks, client, call, processor, batchers, commands, deserted>>

(* The body returns or throws; the completion carries the error, and is
   awaited.  A destroyed processor has no completer. *)
BodyEnds(t) ==
    /\ Dispatching(t)
    /\ IF Up(LabelOf[t])
       THEN /\ CompleteThunk(t)
            /\ body' = [body EXCEPT ![t] = "completing"]
       ELSE /\ body' = [body EXCEPT ![t] = "ended"]
            /\ UNCHANGED commands
    /\ UNCHANGED <<thunks, client, call, processor, batchers, answers, deserted>>

ThunkCompleted(t) ==
    /\ Answered("completed", t)
    /\ body' = [body EXCEPT ![t] = IF @ = "completing" THEN "ended" ELSE @]
    /\ UNCHANGED <<thunks, client, call, processor, batchers, commands, deserted>>

-----------------------------------------------------------------------------
(* dispatch, of a body and of the application *)

HasCapacity(w) == Cardinality(Of(w, dispatches)) < MaxPending

SetupCompletion(a) ==
    /\ callbacks' = callbacks \cup {a}
    /\ dispatches' = dispatches \cup {a}

(* What opted in goes to the batcher; a flush that a full queue or a priority
   asks for is one of those that Flush may start next.  The hard limit of its
   queue is not modelled. *)
EnqueueBatched(a) == queued' = queued \cup {a}

SendAction(a) ==
    /\ call' = [call EXCEPT ![a] = "sending"]
    /\ IF a \in OptedIn
       THEN EnqueueBatched(a) /\ UNCHANGED commands
       ELSE Invoke("dispatch", a) /\ UNCHANGED queued
    /\ UNCHANGED inFlight

(* baseDispatch.  A full table, or a processor without its sender, rejects. *)
BodyDispatch(a) ==
    /\ call[a] = "new" /\ ThunkOf[a] # None /\ Dispatching(ThunkOf[a])
    /\ IF Up(WindowOf(a)) /\ HasCapacity(WindowOf(a))
       THEN SetupCompletion(a) /\ SendAction(a)
       ELSE /\ call' = [call EXCEPT ![a] = "settled"]
            /\ UNCHANGED <<callbacks, dispatches, batchers, commands>>
    /\ UNCHANGED <<thunks, client, body, fulfilled, answers, deserted>>

(* dispatch of the application: the client sends the action, and the processor
   knows nothing of it.  Without a client that is ready it throws. *)
AppDispatch(a) ==
    /\ call[a] = "new" /\ ThunkOf[a] = None
    /\ IF Up(AppWindow)
       THEN SendAction(a)
       ELSE /\ call' = [call EXCEPT ![a] = "settled"]
            /\ UNCHANGED <<batchers, commands>>
    /\ UNCHANGED <<thunks, client, body, processor, answers, deserted>>

(* completeAction of several actions: their callbacks settle actionPromise,
   which a caller that awaits the sender does not see yet. *)
CompleteActions(S) ==
    /\ fulfilled' = fulfilled \cup (S \cap callbacks)
    /\ callbacks' = callbacks \ S
    /\ dispatches' = dispatches \ S

(* Their senders resolve or reject: the action is completed, and the caller
   has actionPromise; the application awaits nothing else. *)
SendersSettle(S) ==
    /\ CompleteActions(S)
    /\ call' = [a \in Actions |->
          IF a \notin S \/ call[a] # "sending" THEN call[a]
          ELSE IF ThunkOf[a] = None \/ a \in callbacks \cup fulfilled THEN "settled"
          ELSE "waiting"]

SafetyTimeout(a) ==
    /\ a \in callbacks
    /\ CompleteActions({a})
    /\ UNCHANGED <<thunks, client, body, call, batchers, commands, answers, deserted>>

DispatchAnswered(a) ==
    /\ Answered("dispatch", a)
    /\ SendersSettle({a})
    /\ UNCHANGED <<thunks, client, body, batchers, commands, deserted>>

-----------------------------------------------------------------------------
(* The batcher of a client. *)

(* What is sent at once; which of the queued actions come first is left open. *)
Batches(w) ==
    LET waiting == Of(w, queued)
    IN  IF Cardinality(waiting) <= MaxBatchSize THEN {waiting}
        ELSE kSubset(MaxBatchSize, waiting)

StartFlush(w) ==
    \E S \in Batches(w) :
        /\ Invoke("batch", S)
        /\ inFlight' = inFlight \cup S
        /\ queued' = queued \ S

Idle(w) == Of(w, inFlight) = {}

(* The batcher sends one batch at a time: at the end of its window, on demand,
   or after the one before. *)
Flush(w) ==
    /\ Up(w) /\ Of(w, queued) # {} /\ Idle(w)
    /\ StartFlush(w)
    /\ UNCHANGED <<thunks, client, body, call, processor, answers, deserted>>

(* Who awaits the flush of the batcher goes on, with the result or without. *)
WaitersAnswered(w) ==
    [t \in Thunks |-> IF LabelOf[t] = w /\ body[t] = "flushing" THEN "running" ELSE body[t]]

(* Each action of the batch is resolved or rejected by its result; a destroyed
   batcher ignores the answer. *)
BatchAnswered(S) ==
    /\ Answered("batch", S)
    /\ SendersSettle(S \cap inFlight)
    /\ inFlight' = inFlight \ S
    /\ body' = IF S \cap inFlight = {} THEN body
               ELSE WaitersAnswered(CHOOSE w \in Windows : S = Of(w, S))
    /\ UNCHANGED <<thunks, client, queued, commands, deserted>>

(* flushWithResult: a waiter of the flush in progress, or of the one it starts. *)
FlushWithResult(w) ==
    IF Idle(w) THEN StartFlush(w) ELSE UNCHANGED <<batchers, commands>>

(* dispatch.flush() in a body.  With nothing queued or on its way, or without
   a batcher, it returns at once. *)
BodyFlush(t) ==
    /\ t \in Flushers /\ Dispatching(t)
    /\ LET w == LabelOf[t]
       IN  Up(w) /\ Of(w, queued \cup inFlight) # {} /\ FlushWithResult(w)
    /\ body' = [body EXCEPT ![t] = "flushing"]
    /\ UNCHANGED <<thunks, client, call, processor, answers, deserted>>

-----------------------------------------------------------------------------
(* The end of a client, and of a window. *)

ProgramsOf(w) == {t \in Thunks : LabelOf[t] = w /\ body[t] \in {"registering"} \cup InBody}

(* Mutation: the batcher rejects what is queued, and not what is on its way. *)
DestroyBatcherKeepsActive(w) ==
    /\ call' = [a \in Actions |-> IF a \in Of(w, queued) THEN "settled" ELSE call[a]]
    /\ queued' = queued \ Of(w, queued) /\ inFlight' = inFlight \ Of(w, inFlight)
    /\ body' = WaitersAnswered(w)

(* Whatever is queued or on its way is rejected, and who awaits a flush has an
   empty result. *)
DestroyBatcher(w) ==
    LET batched == Of(w, queued \cup inFlight)
    IN  /\ call' = [a \in Actions |-> IF a \in batched THEN "settled" ELSE call[a]]
        /\ queued' = queued \ batched /\ inFlight' = inFlight \ batched
        /\ body' = WaitersAnswered(w)

(* forceCleanupExpiredActions *)
ForceCleanup(w) ==
    /\ callbacks' = callbacks \ Of(w, callbacks)
    /\ dispatches' = dispatches \ Of(w, dispatches)

(* Every pending action is completed with an error, before the tables go. *)
DestroyProcessor(w) ==
    /\ fulfilled' = fulfilled \cup Of(w, dispatches \cap callbacks)
    /\ ForceCleanup(w)

(* destroy, once the listeners are gone.  Callers that await a command have
   the error when it is answered. *)
ClientDestroyed(w) ==
    /\ Up(w) /\ w \in MayDestroy
    /\ client' = [client EXCEPT ![w] = "down"]
    /\ DestroyBatcher(w)
    /\ DestroyProcessor(w)
    /\ deserted' = deserted \cup ProgramsOf(w)
    /\ UNCHANGED <<thunks, commands, answers>>

(* The window is closed: its page ends, and drop_label removes its thunks.
   What it has invoked may still have to run. *)
WindowClosed(w) ==
    /\ client[w] # "gone" /\ w \in MayClose
    /\ client' = [client EXCEPT ![w] = "gone"]
    /\ body' = [t \in Thunks |-> IF LabelOf[t] = w THEN "gone" ELSE body[t]]
    /\ call' = [a \in Actions |-> IF WindowOf(a) = w THEN "gone" ELSE call[a]]
    /\ ForceCleanup(w)
    /\ queued' = queued \ Of(w, queued) /\ inFlight' = inFlight \ Of(w, inFlight)
    /\ answers' = {m \in answers : m.of \in Thunks => LabelOf[m.of] # w}
    /\ DropLabel(w)
    /\ deserted' = deserted \cup
           {t \in Thunks : Command("register", t) \in commands /\ LabelOf[t] = w}
    /\ UNCHANGED <<fulfilled, commands>>

-----------------------------------------------------------------------------
(* The plugin runs a command. *)

Run(kind, of, answer) ==
    /\ Command(kind, of) \in commands
    /\ commands' = commands \ {Command(kind, of)}
    /\ answers' = answers \cup {Command(answer, of)}
    /\ UNCHANGED <<client, body, call, processor, batchers, deserted>>

(* register_thunk: the thunk is registered and executed at once. *)
RunRegister(t) ==
    /\ MayRegister(t)
    /\ Run("register", t, "registered")
    /\ records' = WithRecord(t, "executing")
    /\ root' = RootWith(t)
    /\ UNCHANGED tasks

RunRegisterFails(t) ==
    /\ ~MayRegister(t)
    /\ Run("register", t, "refused")
    /\ UNCHANGED thunks

(* complete_thunk, by the window that owns the thunk.  One that is gone is an
   error, which the client ignores. *)
RunComplete(t) ==
    /\ Run("complete", t, "completed")
    /\ IF t \in Registered THEN Complete(t) ELSE UNCHANGED thunks

RunDispatch(a) == Run("dispatch", a, "dispatch") /\ UNCHANGED thunks

RunBatch(S) == Run("batch", S, "batch") /\ UNCHANGED thunks

-----------------------------------------------------------------------------
ProcessorInit == fulfilled = {} /\ callbacks = {} /\ dispatches = {}
BatcherInit == queued = {} /\ inFlight = {}

Init ==
    /\ ThunksInit
    /\ client = [w \in Windows |-> "up"]
    /\ body = [t \in Thunks |-> "new"]
    /\ call = [a \in Actions |-> "new"]
    /\ ProcessorInit /\ BatcherInit
    /\ commands = {} /\ answers = {}
    /\ deserted = {}

Progress ==
    \/ \E t \in Thunks :
          \/ ThunkRegistered(t) \/ ThunkRefused(t) \/ BodyEnds(t) \/ ThunkCompleted(t)
          \/ RunRegister(t) \/ RunRegisterFails(t) \/ RunComplete(t)
    \/ \E a \in Actions : DispatchAnswered(a) \/ RunDispatch(a)
    \/ \E S \in SUBSET OptedIn : BatchAnswered(S) \/ RunBatch(S)
    \/ \E w \in Windows : Flush(w)

Next ==
    \/ Progress
    \/ \E t \in Thunks : ExecuteThunk(t) \/ BodyFlush(t)
    \/ \E a \in Actions : BodyDispatch(a) \/ AppDispatch(a) \/ SafetyTimeout(a)
    \/ \E w \in Windows : ClientDestroyed(w) \/ WindowClosed(w)

Spec == Init /\ [][Next]_vars

(* Commands are run and answered, the batcher's window ends, bodies that await
   nothing end. *)
FairSpec == Spec /\ WF_vars(Progress)

-----------------------------------------------------------------------------
TypeOK ==
    /\ ThunksTypeOK
    /\ client \in [Windows -> {"up", "down", "gone"}]
    /\ body \in [Thunks -> Live \cup {"new", "ended", "refused", "gone"}]
    /\ call \in [Actions -> {"new", "sending", "waiting", "settled", "gone"}]
    /\ dispatches = callbacks
    /\ \A w \in Windows : Cardinality(Of(w, dispatches)) <= MaxPending

(* Every ancestor awaits the one below, down to t. *)
InAwaitedChain[t \in Thunks] ==
    Parent[t] = None \/ (t \in Awaited /\ InAwaitedChain[Parent[t]])

(* A thunk that is awaited all the way down from its root is registered from
   the beginning of its body to the end, whatever else ends meanwhile: it is
   not refused, and the cascade of another thunk's end does not take it. *)
AwaitedIsRegistered ==
    \A t \in Thunks : InAwaitedChain[t] /\ t \notin deserted =>
        /\ body[t] # "refused"
        /\ body[t] \in InBody /\ Up(LabelOf[t]) => t \in Registered

(* A registered thunk has a program that will complete it, but for those that
   lost theirs; and the root is registered.  The state keeps its types. *)
NothingLeft ==
    /\ TypeOK
    /\ root # None => root \in Registered
    /\ \A t \in Registered \ deserted : body[t] \in Live

(* Every thunk ends and every dispatch is answered, each being started once,
   without the help of a timeout and also when the client is destroyed at the
   worst moment. *)
EverythingEnds ==
    <>[](/\ \A t \in Thunks : body[t] \notin Live
         /\ \A a \in Actions : call[a] \notin {"sending", "waiting"})
=============================================================================
