-------------------------- MODULE WindowResources ---------------------------
(***************************************************************************)
(* What a bridge keeps of its windows: the WebContentsTracker, the         *)
(* subscription managers and destroy listeners of the ResourceManager, and *)
(* the sequence numbers of the SubscriptionHandler.  Four tables that are  *)
(* keyed by window and changed by subscribe, by the handles it returns, by *)
(* unsubscribe, by the limit of managers, by the periodic cleanup and by   *)
(* the destruction of a window or of the bridge.                           *)
(*                                                                         *)
(* Each operation is synchronous.  A call for several windows does to one  *)
(* after the other what is modelled here for one.  The id of a WebContents *)
(* is not used again.                                                      *)
(***************************************************************************)
EXTENDS Naturals, FiniteSets

CONSTANTS
    Windows,
    MaxManagers,     \* MAX_SUBSCRIPTION_MANAGERS
    MaxSubscribes    \* bound: calls of selectiveSubscribe

ASSUME ResourcesAssumption ==
    /\ Windows # {}
    /\ MaxManagers \in Nat \ {0}
    /\ MaxSubscribes \in Nat

VARIABLES
    alive,           \* the windows that are not destroyed
    destroyed,       \* the bridge is
    tracked,         \* activeIds and webContentsById of the tracker
    manager,         \* subscriptionManagers: since which call, and the entries
    destroySet,      \* destroyListenerSet
    trackHooks,      \* 'destroyed' listeners of the tracker, by window
    cleanupHooks,    \* 'destroyed' listeners of selectiveSubscribe, by window
    seqs,            \* the windows in windowSeqs
    timer,           \* the periodic cleanup runs
    subscribes,      \* calls so far: the age of a manager, the id of an entry
    handles,         \* the unsubscribe handles that were returned
    held             \* ghost: subscriptions nobody has ended, with their windows

tables == <<tracked, manager, destroySet, seqs>>
hooks == <<trackHooks, cleanupHooks>>
vars == <<alive, destroyed, tables, hooks, timer, subscribes, handles, held>>

NoManager == [since |-> 0, entries |-> {}]
Managed == {w \in Windows : manager[w].since > 0}
EntriesOf(w) == manager[w].entries

Without(ws) == [w \in Windows |-> IF w \in ws THEN NoManager ELSE manager[w]]
HeldBy(ws) == {h \in held : h.window \in ws}

(* isDestroyed, or a wrapper whose window is gone. *)
IsDestroyed(w) == w \notin alive

(* getActiveWebContents, which also forgets the destroyed ones it meets. *)
ActiveWebContents == {w \in tracked : ~IsDestroyed(w)}

(* untrack and untrackById *)
Untrack(w) == tracked' = tracked \ {w}

-----------------------------------------------------------------------------
(* selectiveSubscribe *)

(* Mutation: the limit is checked after the manager is added. *)
EvictedLate(w) ==
    IF w \in Managed \/ Cardinality(Managed) <= MaxManagers THEN {}
    ELSE {o \in Managed : \A m \in Managed : manager[o].since <= manager[m].since}

(* addSubscriptionManager: at the limit the oldest manager goes, whatever it
   still has. *)
Evicted(w) ==
    IF w \in Managed \/ Cardinality(Managed) < MaxManagers THEN {}
    ELSE {o \in Managed : \A m \in Managed : manager[o].since <= manager[m].since}

(* What track, addSubscriptionManager and addDestroyListener leave, before an
   entry is made: the window has a hook of the tracker if it was not tracked,
   and one for its cleanup if it was not in the set. *)
Prepare(w) ==
    /\ tracked' = tracked \cup {w}
    /\ trackHooks' = IF w \in tracked THEN trackHooks ELSE [trackHooks EXCEPT ![w] = @ + 1]
    /\ destroySet' = (destroySet \ Evicted(w)) \cup {w}
    /\ cleanupHooks' = IF w \in destroySet THEN cleanupHooks
                       ELSE [cleanupHooks EXCEPT ![w] = @ + 1]

(* The managers when that of w, made if it has none, holds the entries. *)
Grown(w, entries) ==
    [Without(Evicted(w)) EXCEPT ![w] =
        [since |-> IF w \in Managed THEN manager[w].since ELSE subscribes + 1,
         entries |-> entries]]

(* No keys make no entry, nor do keys that a '*' entry covers. *)
SubscribeNothing(w) ==
    /\ subscribes < MaxSubscribes
    /\ subscribes' = subscribes + 1
    /\ Prepare(w)
    /\ manager' = Grown(w, EntriesOf(w))
    /\ held' = held \ HeldBy(Evicted(w))
    /\ UNCHANGED <<alive, destroyed, seqs, timer, handles>>

(* A '*' entry replaces those of the window.  The initial state takes a
   number. *)
SubscribeEntry(w, star) ==
    /\ subscribes < MaxSubscribes
    /\ subscribes' = subscribes + 1
    /\ star \/ ~\E e \in EntriesOf(w) : e.star
    /\ Prepare(w)
    /\ LET others == IF star THEN {} ELSE EntriesOf(w)
           handle == [window |-> w, id |-> subscribes + 1]
       IN  /\ manager' = Grown(w, others \cup {[id |-> subscribes + 1, star |-> star]})
           /\ handles' = handles \cup {handle}
           /\ held' = (held \ HeldBy(Evicted(w) \cup IF star THEN {w} ELSE {})) \cup {handle}
    /\ seqs' = seqs \cup {w}
    /\ UNCHANGED <<alive, destroyed, timer>>

(* A destroyed window is skipped. *)
Subscribe(w) ==
    /\ ~destroyed /\ ~IsDestroyed(w)
    /\ SubscribeNothing(w) \/ \E star \in BOOLEAN : SubscribeEntry(w, star)

-----------------------------------------------------------------------------
(* The end of subscriptions. *)

(* Mutation: the window is untracked whatever it still has. *)
LetGoAlways(w, entries) ==
    /\ tracked' = tracked \ {w}
    /\ seqs' = seqs \ {w}

(* The window goes from the tracker with its last entry. *)
LetGo(w, entries) ==
    IF entries = {}
    THEN /\ Untrack(w)
         /\ seqs' = seqs \ {w}
    ELSE UNCHANGED <<tracked, seqs>>

(* The handle of a subscription, which may be called at any time, again, and
   after its manager has gone.  An empty manager stays. *)
CallHandle(h) ==
    /\ h \in handles
    /\ LET entries == {e \in EntriesOf(h.window) : e.id # h.id}
       IN  /\ manager' = [manager EXCEPT ![h.window].entries = entries]
           /\ LetGo(h.window, entries)
    /\ held' = held \ {h}
    /\ UNCHANGED <<alive, destroyed, destroySet, hooks, timer, subscribes, handles>>

(* What a call of unsubscribe may end: some entries with keys, or all. *)
Endings(w) == {EntriesOf(w)} \cup SUBSET {e \in EntriesOf(w) : ~e.star}

(* bridge.unsubscribe(window, keys): the entries that have no key left go, or
   all; with the last one its manager goes too. *)
Unsubscribe(w, gone) ==
    /\ ~destroyed
    /\ IF EntriesOf(w) \subseteq gone
       THEN /\ manager' = Without({w})
            /\ destroySet' = IF w \in Managed THEN destroySet \ {w} ELSE destroySet
            /\ Untrack(w)
            /\ seqs' = IF w \in Managed THEN seqs \ {w} ELSE seqs
       ELSE /\ manager' = [manager EXCEPT ![w].entries = @ \ gone]
            /\ UNCHANGED <<destroySet, tracked, seqs>>
    /\ held' = held \ {[window |-> w, id |-> e.id] : e \in gone}
    /\ UNCHANGED <<alive, destroyed, hooks, timer, subscribes, handles>>

(* cleanup of the tracker, whose hooks stay with the windows. *)
CleanupTracker == tracked' = {}

(* clearAll of the ResourceManager *)
ClearAll ==
    /\ manager' = Without(Windows)
    /\ destroySet' = {}
    /\ timer' = FALSE
    /\ held' = {}
    /\ UNCHANGED <<alive, hooks, subscribes, handles>>

(* bridge.unsubscribe() *)
UnsubscribeAll ==
    /\ ~destroyed
    /\ ClearAll /\ CleanupTracker
    /\ seqs' = {}
    /\ UNCHANGED destroyed

(* destroy of the bridge *)
DestroyBridge ==
    /\ ~destroyed
    /\ ClearAll /\ CleanupTracker
    /\ destroyed' = TRUE
    /\ UNCHANGED seqs

-----------------------------------------------------------------------------
(* The store changes, windows go, and the timer. *)

(* The subscription to the store walks the tracked windows that are alive. *)
Notify ==
    /\ ~destroyed
    /\ tracked' = ActiveWebContents
    /\ \E sent \in SUBSET {w \in ActiveWebContents : EntriesOf(w) # {}} :
          seqs' = seqs \cup sent
    /\ UNCHANGED <<alive, destroyed, manager, destroySet, hooks, timer, subscribes,
                   handles, held>>

(* Mutation: the hooks of a window run only while it is in the set. *)
WindowDestroyedInSet(w) ==
    /\ w \in alive
    /\ alive' = alive \ {w}
    /\ tracked' = IF trackHooks[w] > 0 THEN tracked \ {w} ELSE tracked
    /\ IF w \in destroySet
       THEN /\ manager' = Without({w})
            /\ destroySet' = destroySet \ {w}
            /\ seqs' = seqs \ {w}
       ELSE UNCHANGED <<manager, destroySet, seqs>>
    /\ held' = held \ HeldBy({w})
    /\ UNCHANGED <<destroyed, hooks, timer, subscribes, handles>>

(* The 'destroyed' event runs the hooks the window has. *)
WindowDestroyed(w) ==
    /\ w \in alive
    /\ alive' = alive \ {w}
    /\ tracked' = IF trackHooks[w] > 0 THEN tracked \ {w} ELSE tracked
    /\ IF cleanupHooks[w] > 0
       THEN /\ manager' = Without({w})
            /\ destroySet' = destroySet \ {w}
            /\ seqs' = seqs \ {w}
       ELSE UNCHANGED <<manager, destroySet, seqs>>
    /\ held' = held \ HeldBy({w})
    /\ UNCHANGED <<destroyed, hooks, timer, subscribes, handles>>

(* performPeriodicCleanup: the managers of windows the tracker does not have
   go; if it has none, those of windows Electron does not have. *)
PeriodicCleanup ==
    /\ timer
    /\ tracked' = ActiveWebContents
    /\ LET active == IF ActiveWebContents = {} THEN alive ELSE ActiveWebContents
           stale == Managed \ active
       IN  /\ manager' = Without(stale)
           /\ destroySet' = destroySet \ stale
    /\ UNCHANGED <<alive, destroyed, hooks, seqs, timer, subscribes, handles, held>>

-----------------------------------------------------------------------------

CreateTracker == tracked = {} /\ trackHooks = [w \in Windows |-> 0]

(* A ResourceManager, with the periodic cleanup if the options leave it on. *)
CreateResourceManager ==
    /\ manager = [w \in Windows |-> NoManager]
    /\ destroySet = {}
    /\ timer \in BOOLEAN

(* A bridge is created. *)
Init ==
    /\ alive = Windows
    /\ destroyed = FALSE
    /\ CreateTracker
    /\ CreateResourceManager
    /\ seqs = {}
    /\ cleanupHooks = [w \in Windows |-> 0]
    /\ subscribes = 0
    /\ handles = {} /\ held = {}

Next ==
    \/ \E w \in Windows :
          \/ Subscribe(w)
          \/ \E gone \in Endings(w) : Unsubscribe(w, gone)
          \/ WindowDestroyed(w)
    \/ \E h \in handles : CallHandle(h)
    \/ UnsubscribeAll
    \/ DestroyBridge
    \/ Notify
    \/ PeriodicCleanup

Spec == Init /\ [][Next]_vars

-----------------------------------------------------------------------------

Entry == [id : Nat, star : BOOLEAN]
Handle == [window : Windows, id : Nat]

(* The tables hold windows and their entries; a window without a manager has
   no entry. *)
TypeOK ==
    /\ alive \subseteq Windows /\ tracked \subseteq Windows
    /\ destroySet \subseteq Windows /\ seqs \subseteq Windows
    /\ manager \in [Windows -> [since : Nat, entries : SUBSET Entry]]
    /\ \A w \in Windows \ Managed : EntriesOf(w) = {}
    /\ trackHooks \in [Windows -> Nat] /\ cleanupHooks \in [Windows -> Nat]
    /\ destroyed \in BOOLEAN /\ timer \in BOOLEAN
    /\ subscribes \in Nat
    /\ handles \subseteq Handle /\ held \subseteq handles

(* A subscription that nobody has ended is notified of every change: its
   manager has its entry and the tracker its window, whatever other handles
   were called, whatever the periodic cleanup swept.  Only a '*' subscription
   of the window and the limit of managers take one away.
   (SubscriptionHandler.ts:385-399, 504-531, ResourceManager.ts:55-130) *)
HeldIsNotified ==
    \A h \in held :
        /\ h.window \in alive \cap tracked
        /\ \E e \in EntriesOf(h.window) : e.id = h.id

(* A window that is gone leaves nothing in any table.
   (windows.ts:307-315, SubscriptionHandler.ts:91-104) *)
GoneLeavesNothing ==
    \A w \in Windows \ alive :
        w \notin tracked \cup Managed \cup destroySet \cup seqs

(* What is in a table has the hook that will take it out.
   (windows.ts:303-315, SubscriptionHandler.ts:92-104) *)
KeptIsHooked ==
    /\ \A w \in tracked : trackHooks[w] > 0
    /\ \A w \in Managed \cup destroySet \cup seqs : cleanupHooks[w] > 0

(* The managers stay within their limit, and each has its window in the set
   of those whose hook was made.  (ResourceManager.ts:55-77) *)
WithinLimit == Cardinality(Managed) <= MaxManagers /\ Managed = destroySet
=============================================================================
