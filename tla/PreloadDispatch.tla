--------------------------- MODULE PreloadDispatch ---------------------------
(***************************************************************************)
(* How the preload script of a window dispatches: the programs of its      *)
(* thunks, the table of callbacks and the slots of RendererThunkProcessor  *)
(* with their safety timeouts, the choice between a message of its own and *)
(* a batch, pending registrations, and what visibility changes and page    *)
(* unloads do to all of these; and the handlers of IpcHandler at the other *)
(* end, which answer a message when its action has run, a batch when all   *)
(* of its actions have.                                                    *)
(*                                                                         *)
(* Of the main process there is what ThunkRegistration and                 *)
(* ActionScheduling promise: one thunk executes at a time, actions that    *)
(* are not its own wait until it ends.  Of the batcher there is what       *)
(* ActionBatcher promises: one batch at a time is on its way.              *)
(***************************************************************************)
EXTENDS Naturals, Sequences, SequencesExt

CONSTANTS
    Thunks,         \* thunks the application dispatches, none immediate or nested
    Actions,        \* the actions, each dispatched once at most
    ThunkOf,        \* the thunk whose body dispatches an action, or NoThunk
    OptedIn,        \* those dispatched with the batch option
    Flushers,       \* thunks whose bodies may flush the batcher
    MaxQueueSize,   \* of the thunk processor
    MaxDisturbed,   \* bound: hidden and unloaded pages, thunks that begin unregistered
    NoThunk

Plain == {a \in Actions : ThunkOf[a] = NoThunk}

ASSUME PreloadDispatchAssumption ==
    /\ NoThunk \notin Thunks
    /\ ThunkOf \in [Actions -> Thunks \cup {NoThunk}]
    /\ OptedIn \subseteq Actions \ Plain
    /\ Flushers \subseteq Thunks
    /\ MaxQueueSize \in Nat \ {0}
    /\ MaxDisturbed \in Nat

VARIABLES
    batching,      \* enableBatching: never changes
    awaited,       \* the dispatches that bodies await: never changes
    configured,    \* initialize was called: GET_WINDOW_ID was answered
    body,          \* of each thunk, where executeThunk is
    call,          \* of each action, where the promise of its dispatch is
    fulfilled,     \* actions whose actionPromise resolved before their sender
    callbacks,     \* actionCompletionCallbacks, each with its timeout
    dispatches,    \* pendingDispatches
    queued,        \* the batcher's queue
    inFlight,      \* the batch whose BATCH_ACK is awaited
    toMain,        \* messages on their way to the main process
    answers,       \* messages on their way back
    registering,   \* the registration queue of IpcHandler
    known,         \* the thunks in the lifecycle manager's map
    executing,     \* those of them that execute
    held,          \* actions in the scheduler
    batches,       \* batches that handleBatchDispatch works on
    page,          \* shown, hidden (which the model allows once) or gone
    forgotten,     \* ghost: unsettled dispatches that lost their callback
    unregistered   \* ghost: thunks that ran without their registration

(* What never changes: an option of the script and a choice of the programs. *)
options == <<batching, awaited>>
processor == <<call, fulfilled, callbacks, dispatches>>
batcher == <<queued, inFlight>>
main == <<registering, known, executing, held, batches>>
ghosts == <<page, forgotten, unregistered>>
preloadVars == <<options, configured, body, processor, batcher, toMain, answers, main, ghosts>>

Send(kind, of) == toMain' = Append(toMain, [kind |-> kind, of |-> of])

Blocked(t) ==
    \E a \in awaited : ThunkOf[a] = t /\ call[a] \in {"sending", "waiting"}

-----------------------------------------------------------------------------
(* The table of callbacks: BaseThunkProcessor, RendererThunkProcessor. *)

Track(a) ==
    /\ callbacks' = callbacks \cup {a}
    /\ dispatches' = dispatches \cup {a}

(* Where the callers of dispatch are once their actionPromise is settled: one
   that awaits the sender still does. *)
AfterPromise(a) ==
    /\ call' = IF a \in callbacks /\ call[a] = "waiting"
               THEN [call EXCEPT ![a] = "settled"] ELSE call
    /\ fulfilled' = IF a \in callbacks /\ call[a] = "sending"
                    THEN fulfilled \cup {a} ELSE fulfilled

(* completeAction: the callback settles actionPromise. *)
CompleteAction(a) ==
    /\ AfterPromise(a)
    /\ callbacks' = callbacks \ {a}
    /\ dispatches' = dispatches \ {a}

(* Mutation: the safety timeout without a callback of its own, which completes
   the action in the base class only. *)
SafetyTimeoutOfBase(a) ==
    /\ a \in callbacks
    /\ AfterPromise(a)
    /\ callbacks' = callbacks \ {a}
    /\ UNCHANGED <<dispatches, options, configured, body, batcher, toMain, answers,
                   main, ghosts>>

(* The safety timeout completes the action as if it had succeeded. *)
SafetyTimeout(a) ==
    /\ a \in callbacks
    /\ CompleteAction(a)
    /\ UNCHANGED <<options, configured, body, batcher, toMain, answers, main, ghosts>>

MayDisturb ==
    (IF page = "shown" THEN 0 ELSE 1) + Cardinality(unregistered) < MaxDisturbed

(* forceCleanupExpiredActions: every callback is dropped with its timeout,
   expired or not, and none is called. *)
ForgetCallbacks ==
    /\ callbacks' = {}
    /\ forgotten' = forgotten \cup {a \in callbacks : call[a] # "settled"}
ForceCleanup == ForgetCallbacks /\ dispatches' = {}

(* The page is hidden, or cached: performPartialCleanup. *)
Hide ==
    /\ MayDisturb /\ page = "shown" /\ page' = "hidden"
    /\ ForceCleanup
    /\ UNCHANGED <<options, configured, body, call, fulfilled, batcher, toMain, answers,
                   main, unregistered>>

(* destroy of the processor: the tables and the functions go, and completions
   are not sent any more. *)
DestroyRendererProcessor ==
    /\ ForceCleanup
    /\ body' = [t \in Thunks |-> "gone"]
    /\ call' = [a \in Actions |-> "gone"]
    /\ UNCHANGED fulfilled

(* The page is left: performCompleteCleanup.  What was sent still arrives. *)
Unload ==
    /\ MayDisturb /\ configured /\ page = "shown" /\ page' = "gone"
    /\ queued' = {} /\ inFlight' = {}
    /\ DestroyRendererProcessor
    /\ UNCHANGED <<options, configured, toMain, answers, main, unregistered>>

-----------------------------------------------------------------------------
(* executeThunk: registration, body, completion. *)

(* initialize: the processor gets its sender, its registrar and its completer. *)
InitializeProcessor == ~configured /\ configured' = TRUE

Configure ==
    /\ page # "gone" /\ InitializeProcessor
    /\ UNCHANGED <<options, body, processor, batcher, toMain, answers, main, ghosts>>

ExecuteThunk(t) ==
    /\ IF configured
       THEN /\ Send("register", t)
            /\ body' = [body EXCEPT ![t] = "registering"]
            /\ UNCHANGED unregistered
       ELSE /\ MayDisturb
            /\ body' = [body EXCEPT ![t] = "running"]
            /\ unregistered' = unregistered \cup {t}
            /\ UNCHANGED toMain
    /\ UNCHANGED <<options, configured, processor, batcher, answers, main, page,
                   forgotten>>

(* The application dispatches a thunk. *)
DispatchThunk(t) == body[t] = "new" /\ ExecuteThunk(t)

Receives(kind, of) ==
    /\ page # "gone"
    /\ answers # <<>> /\ Head(answers) = [kind |-> kind, of |-> of]
    /\ answers' = Tail(answers)

(* The answer to a registration that is still pending starts the body. *)
ThunkRegistered(t) ==
    /\ Receives("register", t)
    /\ body' = [body EXCEPT ![t] = IF @ = "registering" THEN "running" ELSE @]
    /\ UNCHANGED <<options, configured, processor, batcher, toMain, main, ghosts>>

(* A registration is rejected: executeThunk logs it and runs the body. *)
Unregistered(S) ==
    /\ MayDisturb
    /\ S # {} /\ \A t \in S : body[t] = "registering"
    /\ body' = [t \in Thunks |-> IF t \in S THEN "running" ELSE body[t]]
    /\ unregistered' = unregistered \cup S
    /\ UNCHANGED <<options, configured, processor, batcher, toMain, answers, main, page,
                   forgotten>>

RegistrationTimesOut(t) == Unregistered({t})

(* beforeunload, after which the page may stay all the same. *)
BeforeUnload == Unregistered({t \in Thunks : body[t] = "registering"})

(* The body ends, in either way, with COMPLETE_THUNK. *)
BodyEnds(t) ==
    /\ body[t] = "running" /\ ~Blocked(t)
    /\ body' = [body EXCEPT ![t] = "ended"]
    /\ IF configured THEN Send("complete", t) ELSE UNCHANGED toMain
    /\ UNCHANGED <<options, configured, processor, batcher, answers, main, ghosts>>

-----------------------------------------------------------------------------
(* dispatch in a body, and the dispatch of the application. *)

(* actionSender: thunk actions go by themselves unless they opted in. *)
UsesBatch(a) == batching /\ (a \in Plain \/ a \in OptedIn)

SendAction(a) ==
    IF UsesBatch(a)
    THEN /\ queued' = queued \cup {a}
         /\ call' = [call EXCEPT ![a] = "sending"]
         /\ UNCHANGED <<inFlight, toMain>>
    ELSE /\ Send("dispatch", a)
         /\ call' = [call EXCEPT ![a] = "waiting"]
         /\ UNCHANGED batcher

Dispatching(a) ==
    /\ call[a] = "new"
    /\ ThunkOf[a] # NoThunk
    /\ body[ThunkOf[a]] = "running" /\ ~Blocked(ThunkOf[a])

Full == Cardinality(dispatches) >= MaxQueueSize

(* baseDispatch.  The slot of an action that has no sender yet is freed by
   the safety timeout only. *)
BodyDispatch(a) ==
    /\ Dispatching(a) /\ ~Full
    /\ Track(a)
    /\ IF configured THEN SendAction(a)
       ELSE /\ call' = [call EXCEPT ![a] = "settled"]
            /\ UNCHANGED <<batcher, toMain>>
    /\ UNCHANGED <<options, configured, body, fulfilled, answers, main, ghosts>>

BodyDispatchRefused(a) ==
    /\ Dispatching(a) /\ Full
    /\ call' = [call EXCEPT ![a] = "settled"]
    /\ UNCHANGED <<options, configured, body, fulfilled, callbacks, dispatches, batcher,
                   toMain, answers, main, ghosts>>

(* validateActionInRenderer at its strict level: an action that is not of the
   schema's form is not sent, its caller is told at once, and a slot that was
   taken for it is free again. *)
ValidationThrows(a) ==
    /\ \/ Dispatching(a) /\ ~Full /\ configured
       \/ a \in Plain /\ call[a] = "new"
    /\ call' = [call EXCEPT ![a] = "settled"]
    /\ UNCHANGED <<options, configured, body, fulfilled, callbacks, dispatches, batcher,
                   toMain, answers, main, ghosts>>

AppDispatch(a) ==
    /\ a \in Plain /\ call[a] = "new"
    /\ SendAction(a)
    /\ UNCHANGED <<options, configured, body, fulfilled, callbacks, dispatches, answers,
                   main, ghosts>>

(* DISPATCH_ACK: to the thunk processor, and to the listener that a plain
   dispatch without batching has put there. *)
DispatchAnswered(a) ==
    /\ Receives("dispatch", a)
    /\ IF a \in Plain
       THEN /\ call' = [call EXCEPT ![a] = "settled"]
            /\ UNCHANGED <<fulfilled, callbacks, dispatches>>
       ELSE CompleteAction(a)
    /\ UNCHANGED <<options, configured, body, batcher, toMain, main, ghosts>>

(* The timeout of that listener. *)
DispatchTimesOut(a) ==
    /\ a \in Plain /\ call[a] = "waiting"
    /\ call' = [call EXCEPT ![a] = "settled"]
    /\ UNCHANGED <<options, configured, body, fulfilled, callbacks, dispatches, batcher,
                   toMain, answers, main, ghosts>>

-----------------------------------------------------------------------------
(* Batches. *)

StartFlush ==
    /\ queued # {} /\ inFlight = {}
    /\ inFlight' = queued /\ queued' = {}
    /\ Send("batch", queued)

Flush ==
    /\ StartFlush
    /\ UNCHANGED <<options, configured, body, processor, answers, main, ghosts>>

(* dispatch.flush() in a body: it awaits the batch that is on its way, or the
   one it sends; with neither it returns at once. *)
BodyFlush(t) ==
    /\ t \in Flushers /\ configured
    /\ body[t] = "running" /\ ~Blocked(t)
    /\ StartFlush \/ (inFlight # {} /\ UNCHANGED <<batcher, toMain>>)
    /\ body' = [body EXCEPT ![t] = "flushing"]
    /\ UNCHANGED <<options, configured, processor, answers, main, ghosts>>

(* Who awaits the end of the batch goes on. *)
AnswerWaiters ==
    body' = [t \in Thunks |-> IF body[t] = "flushing" THEN "running" ELSE body[t]]

(* The sender's promises settle: for a thunk's action the callback is called
   first, and the caller then has actionPromise, which nobody settles when
   its callback was dropped. *)
SettleBatch(bad) ==
    /\ call' = [a \in Actions |->
          IF a \notin inFlight THEN call[a]
          ELSE IF a \in bad \cup Plain \cup callbacks \cup fulfilled THEN "settled"
          ELSE "waiting"]
    /\ inFlight' = {}
    /\ callbacks' = callbacks \ inFlight
    /\ dispatches' = dispatches \ inFlight
    /\ UNCHANGED fulfilled

(* BATCH_ACK, which says of each action whether it succeeded.  A late one
   finds no pending batch. *)
BatchAnswered(S) ==
    /\ Receives("batch", S)
    /\ IF S = inFlight
       THEN AnswerWaiters /\ \E bad \in SUBSET S : SettleBatch(bad)
       ELSE UNCHANGED <<body, processor, inFlight>>
    /\ UNCHANGED <<options, configured, queued, toMain, main, ghosts>>

BatchTimesOut ==
    /\ inFlight # {}
    /\ SettleBatch(inFlight) /\ AnswerWaiters
    /\ UNCHANGED <<options, configured, queued, toMain, answers, main, ghosts>>

-----------------------------------------------------------------------------
(* The main process. *)

Entry(t, what) == [thunk |-> t, for |-> what]

(* registerThunk and completeThunk both let the first registration begin when
   nothing executes; that settles what awaits it. *)
Admit(entries, running, heldBack) ==
    IF running = {} /\ entries # <<>>
    THEN LET e == Head(entries)
         IN  /\ registering' = Tail(entries)
             /\ executing' = {e.thunk}
             /\ known' = known \cup {e.thunk}
             /\ held' = heldBack \cup ({e.for} \cap Actions)
             /\ answers' = IF e.for = "program"
                           THEN Append(answers, [kind |-> "register", of |-> e.thunk])
                           ELSE answers
    ELSE /\ registering' = entries /\ executing' = running /\ held' = heldBack
         /\ UNCHANGED <<known, answers>>

(* An action of a thunk that is unknown awaits its registration. *)
ReceiveDispatch(a) ==
    /\ IF a \in Plain \/ ThunkOf[a] \in known
       THEN Admit(registering, executing, held \cup {a})
       ELSE Admit(Append(registering, Entry(ThunkOf[a], a)), executing, held)
    /\ UNCHANGED batches

(* One registration for each of the actions, which none of them awaits. *)
Registrations(sent) ==
    LET order == SetToSeq(sent)
    IN  [i \in DOMAIN order |-> Entry(ThunkOf[order[i]], "batch")]

(* Mutation: a batch registers the thunks of its actions, known or not. *)
ReceiveBatchRegisters(S) ==
    /\ Admit(registering \o Registrations(S \ Plain), executing, held \cup S)
    /\ batches' = batches \cup {S}

(* handleBatchDispatch: each action of an unknown thunk registers it, until
   one of them has begun it. *)
ReceiveBatch(S) ==
    LET strangers == {a \in S \ Plain : ThunkOf[a] \notin known}
        Others(a) == {b \in strangers : ThunkOf[b] # ThunkOf[a]}
    IN  /\ IF executing = {} /\ strangers # {}
           THEN \E a \in strangers :
                   Admit(<<Entry(ThunkOf[a], "batch")>> \o Registrations(Others(a)),
                         {}, held \cup S)
           ELSE Admit(registering \o Registrations(strangers), executing, held \cup S)
        /\ batches' = batches \cup {S}

(* Mutation: the end of a thunk does not begin the next one. *)
ReceiveCompleteOnly(t) ==
    /\ executing' = executing \ {t}
    /\ UNCHANGED <<registering, known, held, answers, batches>>

(* handleCompleteThunk *)
ReceiveComplete(t) ==
    /\ Admit(registering, executing \ {t}, held)
    /\ UNCHANGED batches

(* validateSingleDispatch and validateBatchDispatch: what is not of the
   schema's form is answered at once, a batch as a whole, and no thunk is
   registered for it. *)
RefuseDispatch(a) ==
    /\ answers' = Append(answers, [kind |-> "dispatch", of |-> a])
    /\ UNCHANGED main

RefuseBatch(S) ==
    /\ answers' = Append(answers, [kind |-> "batch", of |-> S])
    /\ UNCHANGED main

MainReceives ==
    /\ toMain # <<>>
    /\ LET m == Head(toMain)
       IN  CASE m.kind = "register" ->
                    /\ Admit(Append(registering, Entry(m.of, "program")), executing, held)
                    /\ UNCHANGED batches
             [] m.kind = "dispatch" -> ReceiveDispatch(m.of) \/ RefuseDispatch(m.of)
             [] m.kind = "batch" -> ReceiveBatch(m.of) \/ RefuseBatch(m.of)
             [] m.kind = "complete" -> ReceiveComplete(m.of)
    /\ toMain' = Tail(toMain)
    /\ UNCHANGED <<options, configured, body, processor, batcher, ghosts>>

MayRun(a) == executing = {} \/ ThunkOf[a] \in executing

Answer(a) ==
    IF \E S \in batches : a \in S
    THEN LET S == CHOOSE S \in batches : a \in S
         IN  IF S \cap held = {a}
             THEN /\ answers' = Append(answers, [kind |-> "batch", of |-> S])
                  /\ batches' = batches \ {S}
             ELSE UNCHANGED <<answers, batches>>
    ELSE /\ answers' = Append(answers, [kind |-> "dispatch", of |-> a])
         /\ UNCHANGED batches

(* The executor has run an action: the answer of its message, or that of its
   batch when it was the last. *)
MainRuns(a) ==
    /\ a \in held /\ MayRun(a)
    /\ held' = held \ {a}
    /\ Answer(a)
    /\ UNCHANGED <<options, configured, body, processor, batcher, toMain, registering,
                   known, executing, ghosts>>

(* The entry of a completed thunk is deleted. *)
MainForgets(t) ==
    /\ t \in known \ executing
    /\ known' = known \ {t}
    /\ UNCHANGED <<options, configured, body, processor, batcher, toMain, answers,
                   registering, executing, held, batches, ghosts>>

-----------------------------------------------------------------------------
PreloadInit ==
    /\ batching \in BOOLEAN
    /\ awaited \in {Actions \ Plain, Actions \ (Plain \cup OptedIn)}
    /\ configured = FALSE
    /\ body = [t \in Thunks |-> "new"]
    /\ call = [a \in Actions |-> "new"]
    /\ fulfilled = {} /\ callbacks = {} /\ dispatches = {}
    /\ queued = {} /\ inFlight = {}
    /\ toMain = <<>> /\ answers = <<>>
    /\ registering = <<>> /\ known = {} /\ executing = {} /\ held = {} /\ batches = {}
    /\ page = "shown" /\ forgotten = {} /\ unregistered = {}

(* What happens without a timer. *)
Progress ==
    \/ Configure
    \/ \E t \in Thunks : ThunkRegistered(t) \/ BodyEnds(t)
    \/ \E a \in Actions : DispatchAnswered(a) \/ MainRuns(a)
    \/ Flush
    \/ \E S \in SUBSET Actions : BatchAnswered(S)
    \/ MainReceives

PreloadNext ==
    \/ Progress
    \/ \E t \in Thunks :
          DispatchThunk(t) \/ BodyFlush(t) \/ RegistrationTimesOut(t) \/ MainForgets(t)
    \/ \E a \in Actions :
          \/ BodyDispatch(a) \/ BodyDispatchRefused(a) \/ AppDispatch(a)
          \/ ValidationThrows(a) \/ SafetyTimeout(a) \/ DispatchTimesOut(a)
    \/ BatchTimesOut
    \/ BeforeUnload
    \/ Hide \/ Unload

PreloadSpec == PreloadInit /\ [][PreloadNext]_preloadVars

(* Messages arrive, the store processes its actions, bodies that await
   nothing end.  Nothing is assumed of timers. *)
FairPreload == PreloadSpec /\ WF_preloadVars(Progress)

-----------------------------------------------------------------------------
Live == {"registering", "running", "flushing"}
BodyStates == Live \cup {"new", "ended", "gone"}
CallStates == {"new", "sending", "waiting", "settled", "gone"}

PreloadTypeOK ==
    /\ batching \in BOOLEAN /\ configured \in BOOLEAN
    /\ page \in {"shown", "hidden", "gone"}
    /\ body \in [Thunks -> BodyStates]
    /\ call \in [Actions -> CallStates]
    /\ callbacks \subseteq Actions \ Plain
    /\ Cardinality(dispatches) <= MaxQueueSize
    /\ \A m \in ToSet(toMain) : m.kind \in {"register", "dispatch", "batch", "complete"}
    /\ known \subseteq Thunks /\ executing \subseteq known
    /\ held \subseteq Actions
    /\ batches \subseteq SUBSET Actions

(* A slot of the bounded table is held only while a timer is there to free
   it, so that an idle processor refuses nobody; and a dispatch that is not
   settled is with somebody who will settle it: its callback with the timer,
   or the batcher.  The exception is what Hide has dropped. *)
SomebodySettles ==
    /\ dispatches = callbacks
    /\ \A a \in Actions :
          /\ call[a] = "sending" => a \in queued \cup inFlight
          /\ call[a] = "waiting" => a \in Plain \cup callbacks \cup forgotten

Completing(t) == \E i \in DOMAIN toMain : toMain[i] = [kind |-> "complete", of |-> t]

Orphan(t) == t \in executing /\ body[t] = "ended" /\ ~Completing(t)

LateBatch(t) == \E a \in OptedIn \ awaited : ThunkOf[a] = t /\ call[a] # "new"

(* A thunk that executes in the main process has a program that will end it,
   however its actions were sent: nothing that arrives late, by whatever way,
   starts it again.  Exceptions: a body that ran unregistered, one that did
   not await an action it put in a batch, and one whose page was left before
   it ended.  The state keeps its types. *)
NoOrphan ==
    PreloadTypeOK /\ \A t \in executing : Orphan(t) => t \in unregistered \/ LateBatch(t)

(* The thunk awaits an action it put in a batch, or behind one, or the batch
   itself, that is only answered when an action that waits for the thunk's end
   has run. *)
CircularWait ==
    \E t \in executing, b \in inFlight \cap held :
        /\ ThunkOf[b] # t
        /\ body[t] = "flushing" \/ \E a \in OptedIn : ThunkOf[a] = t /\ call[a] = "sending"

(* preload.ts, "Thunk actions use direct dispatch by default to avoid deadlock
   unless explicitly opted in": thunks end without the help of any timeout,
   but for that circular wait, a callback dropped by Hide, and a gate blocked
   by a thunk that ran unregistered or was started again. *)
ThunksEndUnaided ==
    \A t \in Thunks :
        body[t] \in Live ~>
            \/ body[t] \in {"ended", "gone"} \/ CircularWait
            \/ forgotten # {} \/ unregistered # {} \/ \E u \in Thunks : Orphan(u)
=============================================================================
