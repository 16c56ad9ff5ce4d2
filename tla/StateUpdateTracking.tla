------------------------ MODULE StateUpdateTracking -------------------------
(***************************************************************************)
(* The main process waits, before it resolves the promise of a main thunk, *)
(* until the windows have acknowledged the state updates that the thunk    *)
(* caused: StateUpdateTracker, what ThunkManager and ThunkLifecycleManager *)
(* do when an update is accounted for, the context that ActionExecutor     *)
(* sets and the subscription callbacks read, and the polling at the end of *)
(* MainThunkProcessor.executeThunk.                                        *)
(*                                                                         *)
(* A thunk's body awaits the actions it dispatches, one after another.  In *)
(* production an update is tracked for the one window that it is sent to.  *)
(***************************************************************************)
EXTENDS Naturals

CONSTANTS
    Thunks,         \* the thunks of the main process
    Immediate,      \* those that start whatever else executes
    Renderers,
    None,
    MaxSends        \* bound: changes of the state that are sent to windows

ASSUME TrackingAssumption ==
    /\ Immediate \subseteq Thunks
    /\ None \notin Thunks
    /\ MaxSends \in Nat

VARIABLES
    thunkState,     \* ThunkLifecycleManager.thunks: the state of each entry
    cleanup,        \* thunks with a setImmediate of tryFinalCleanup pending
    program,        \* where executeThunk is
    context,        \* currentThunkActionId, the thunk whose action is processed
    processing,     \* thunks whose asynchronous action is not yet complete
    pending,        \* pendingStateUpdates, and with it thunkPendingUpdates
    old,            \* the updates older than 30 seconds
    live,           \* the windows that are not destroyed
    wire,           \* updates sent that are not yet acknowledged
    sends,          \* bound, and the number of the last change
    overlapped      \* ghost: thunks an action of which met another thunk's

lifecycle == <<thunkState, cleanup>>
execution == <<program, context, processing, overlapped>>
tracker == <<pending, old>>
windows == <<live, wire, sends>>
trackingVars == <<lifecycle, execution, tracker, windows>>

(* An update: cause, which the code does not know, is the thunk whose action
   changed the state, thunk the one it is tracked for, if any. *)
Updates == [change : 1..MaxSends, window : Renderers,
            thunk : Thunks \cup {None}, cause : Thunks \cup {None}]

HasPendingStateUpdates(t, updates) == \E u \in updates : u.thunk = t

(* isThunkFullyComplete: not so for a thunk that is not known any more. *)
FullyComplete(t, updates) ==
    thunkState[t] = "completed" /\ ~HasPendingStateUpdates(t, updates)

-----------------------------------------------------------------------------
(* What every removal of updates ends with, once updates remain:
   cleanupCompletedThunksWithNoUpdates calls tryFinalCleanup. *)

(* Mutation: the completed thunks are not looked at again. *)
SweepNothing(states, updates) ==
    /\ pending' = updates
    /\ UNCHANGED cleanup

Sweep(states, updates) ==
    /\ pending' = updates
    /\ cleanup' = cleanup \cup {t \in Thunks : /\ states[t] = "completed"
                                               /\ ~HasPendingStateUpdates(t, updates)}

(* cleanupExpiredUpdates *)
Unexpired == pending \ old
CleanupExpired(states) == Sweep(states, Unexpired)

(* A change of the state, caused by an action of a thunk or by another one,
   is sent to some of the windows, and tracked for the thunk of the context. *)
Change(ws, thunk, cause) ==
    LET new == [change : {sends + 1}, window : ws, thunk : {thunk}, cause : {cause}]
    IN  /\ sends < MaxSends
        /\ ws \subseteq live
        /\ sends' = sends + 1
        /\ wire' = wire \cup new
        /\ pending' = IF thunk = None THEN pending ELSE pending \cup new
        /\ UNCHANGED <<old, live>>

-----------------------------------------------------------------------------
(* Thunks and their actions *)

Executing == {t \in Thunks : thunkState[t] = "executing"}

ThunkStarts(t) ==
    /\ program[t] = "idle"
    /\ t \in Immediate \/ Executing = {}
    /\ program' = [program EXCEPT ![t] = "running"]
    /\ thunkState' = [thunkState EXCEPT ![t] = "executing"]
    /\ UNCHANGED <<cleanup, context, processing, overlapped, tracker, windows>>

(* executeAction of a synchronous action: the context is set, the state
   changes, and the context is cleared, in one step. *)
ExecuteSync(t, ws) ==
    /\ program[t] = "running" /\ t \notin processing
    /\ Change(ws, t, t)
    /\ context' = None
    /\ overlapped' = overlapped \cup processing
    /\ UNCHANGED <<lifecycle, program, processing>>

(* Mutation: the context is cleared before the completion is awaited. *)
ExecuteAsyncClearsContext(t) ==
    /\ program[t] = "running" /\ t \notin processing
    /\ processing' = processing \cup {t}
    /\ context' = None
    /\ overlapped' = IF processing = {} THEN overlapped
                                        ELSE overlapped \cup processing \cup {t}
    /\ UNCHANGED <<lifecycle, program, tracker, windows>>

(* ... of an asynchronous one: the context stays while its completion is
   awaited ... *)
ExecuteAsync(t) ==
    /\ program[t] = "running" /\ t \notin processing
    /\ processing' = processing \cup {t}
    /\ context' = t
    /\ overlapped' = IF processing = {} THEN overlapped
                                        ELSE overlapped \cup processing \cup {t}
    /\ UNCHANGED <<lifecycle, program, tracker, windows>>

(* ... changes the state whenever it likes ... *)
AsyncChange(t, ws) ==
    /\ t \in processing
    /\ Change(ws, context, t)
    /\ UNCHANGED <<lifecycle, execution>>

(* ... and when it is complete whatever context there is is cleared. *)
AsyncCompletes(t) ==
    /\ t \in processing
    /\ processing' = processing \ {t}
    /\ context' = None
    /\ UNCHANGED <<lifecycle, program, overlapped, tracker, windows>>

(* An action that is no thunk's leaves the context as it finds it. *)
ExecutePlain(ws) ==
    /\ Change(ws, context, None)
    /\ UNCHANGED <<lifecycle, execution>>

-----------------------------------------------------------------------------
(* The end of executeThunk *)

(* The body returns: completeThunk, and microtasks later the first look at the
   updates that are still to be acknowledged. *)
BodyReturns(t) ==
    /\ program[t] = "running" /\ t \notin processing
    /\ thunkState' = [thunkState EXCEPT ![t] = "completed"]
    /\ CleanupExpired(thunkState')
    /\ program' = [program EXCEPT ![t] =
           IF HasPendingStateUpdates(t, Unexpired) THEN "waiting" ELSE "resolved"]
    /\ UNCHANGED <<context, processing, overlapped, old, windows>>

(* markThunkFailed: the entry and the updates stay. *)
BodyThrows(t) ==
    /\ program[t] = "running" /\ t \notin processing
    /\ thunkState' = [thunkState EXCEPT ![t] = "failed"]
    /\ program' = [program EXCEPT ![t] = "thrown"]
    /\ UNCHANGED <<cleanup, context, processing, overlapped, tracker, windows>>

(* checkCompletion, every 100 ms until it succeeds, after the timeout too. *)
Poll(t) ==
    /\ program[t] \in {"waiting", "timedOut"}
    /\ CleanupExpired(thunkState)
    /\ program' = [program EXCEPT ![t] =
           IF @ = "waiting" /\ FullyComplete(t, Unexpired) THEN "resolved" ELSE @]
    /\ UNCHANGED <<thunkState, context, processing, overlapped, old, windows>>

(* The timeout of the wait: "state propagation not acknowledged". *)
TimesOut(t) ==
    /\ program[t] = "waiting"
    /\ program' = [program EXCEPT ![t] = "timedOut"]
    /\ UNCHANGED <<lifecycle, context, processing, overlapped, tracker, windows>>

(* The setImmediate of tryFinalCleanup *)
CleanupRuns(t) ==
    /\ t \in cleanup
    /\ cleanup' = cleanup \ {t}
    /\ thunkState' = IF HasPendingStateUpdates(t, pending) THEN thunkState
                     ELSE [thunkState EXCEPT ![t] = "absent"]
    /\ UNCHANGED <<execution, tracker, windows>>

-----------------------------------------------------------------------------
(* Windows *)

(* handleStateUpdateAck: an update that is not tracked, or not any more, is
   taken for acknowledged. *)
AckArrives(u) ==
    /\ u \in wire
    /\ wire' = wire \ {u}
    /\ Sweep(thunkState, pending \ {u})
    /\ UNCHANGED <<thunkState, execution, old, live, sends>>

UpdateAges(u) ==
    /\ u \in pending \ old
    /\ old' = old \cup {u}
    /\ UNCHANGED <<lifecycle, execution, pending, windows>>

(* Mutation: the tracker is not told. *)
RendererDestroyedUnnoticed(w) ==
    /\ w \in live
    /\ live' = live \ {w}
    /\ UNCHANGED <<lifecycle, execution, tracker, wire, sends>>

(* The destroy listener: cleanupDeadRenderer.  Acknowledgments of the window
   may still arrive. *)
RendererDestroyed(w) ==
    /\ w \in live
    /\ live' = live \ {w}
    /\ Sweep(thunkState, {u \in pending : u.window # w})
    /\ UNCHANGED <<thunkState, execution, old, wire, sends>>

-----------------------------------------------------------------------------

TrackingInit ==
    /\ thunkState = [t \in Thunks |-> "absent"]
    /\ cleanup = {}
    /\ program = [t \in Thunks |-> "idle"]
    /\ context = None /\ processing = {} /\ overlapped = {}
    /\ pending = {} /\ old = {}
    /\ live = Renderers /\ wire = {} /\ sends = 0

TrackingNext ==
    \/ \E t \in Thunks :
          \/ ThunkStarts(t)
          \/ \E ws \in SUBSET live : ExecuteSync(t, ws) \/ AsyncChange(t, ws)
          \/ ExecuteAsync(t) \/ AsyncCompletes(t)
          \/ BodyReturns(t) \/ BodyThrows(t)
          \/ Poll(t) \/ TimesOut(t) \/ CleanupRuns(t)
    \/ \E ws \in SUBSET live : ExecutePlain(ws)
    \/ \E u \in wire : AckArrives(u)
    \/ \E u \in pending : UpdateAges(u)
    \/ \E w \in Renderers : RendererDestroyed(w)

TrackingSpec == TrackingInit /\ [][TrackingNext]_trackingVars

-----------------------------------------------------------------------------

TrackingTypeOK ==
    /\ thunkState \in [Thunks -> {"absent", "executing", "completed", "failed"}]
    /\ cleanup \subseteq Thunks
    /\ program \in [Thunks -> {"idle", "running", "waiting", "resolved",
                               "timedOut", "thrown"}]
    /\ context \in processing \cup {None}
    /\ processing \subseteq Executing
    /\ pending \subseteq {u \in Updates : u.thunk # None}
    /\ old \subseteq Updates
    /\ live \subseteq Renderers
    /\ wire \subseteq Updates
    /\ sends \in 0..MaxSends
    /\ overlapped \subseteq Thunks

(* docs/thunks.md: a thunk is complete only when the windows have acknowledged
   its updates.  A promise that is resolved leaves no update of its thunk on
   its way, one that is 30 seconds old or whose window is gone excepted.  The
   context makes the connection, so this is not promised to a thunk whose
   asynchronous action met the action of another thunk.
   (MainThunkProcessor.ts:168-203, ActionExecutor.ts:25-76) *)
ResolvedIsPropagated ==
    \A t \in Thunks \ overlapped : program[t] = "resolved" =>
        \A u \in wire : u.cause = t => u.window \notin live \/ u \in old

(* The entry of a completed thunk is not left behind: as soon as none of its
   updates is pending, whatever accounted for the last one, its cleanup is
   scheduled.  (ThunkManager.ts:269-312, ThunkLifecycleManager.ts:222-250) *)
NoEntryLeftBehind ==
    \A t \in Thunks :
        thunkState[t] = "completed" /\ ~HasPendingStateUpdates(t, pending)
            => t \in cleanup

(* Nobody waits for a window that is gone: not a thunk that had already sent to
   it, nor one that changes the state afterwards.
   (SubscriptionHandler.ts:92-104, StateUpdateTracker.ts:103-134) *)
NoDeadRendererAwaited == \A u \in pending : u.window \in live
=============================================================================
