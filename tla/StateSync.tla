----------------------------- MODULE StateSync ------------------------------
(***************************************************************************)
(* How one window's copy of the state follows the store of the main        *)
(* process: the subscriptions of the window (SubscriptionHandler and its   *)
(* SubscriptionManager), the subscription of BridgeFactory to the store,   *)
(* safelySendToWindow with the messages it holds while the window loads,   *)
(* and the STATE_UPDATE handler and getState of the preload script.        *)
(*                                                                         *)
(* The messages from the main process to a window, state updates and the   *)
(* replies to GET_STATE alike, arrive in the order they were sent in, as   *)
(* Electron's IPC does.  The value of a key is the number of the change    *)
(* that set it, so that a later value of a key is a greater one.           *)
(***************************************************************************)
EXTENDS Naturals, Sequences, SequencesExt, FiniteSets, StateDelta, Selection

CONSTANTS
    Keys,            \* the top level keys of the store
    Null,
    Initial,         \* the sets of keys the store may begin with
    MaxQueued,       \* MAX_QUEUED_MESSAGES of safelySendToWindow
    MaxChanges,      \* bound: changes of the store, counted from 1
    MaxSubscribes,   \* bound: calls of selectiveSubscribe
    MaxReloads,      \* bound: reloads of the window
    MaxEvents,       \* bound: all of the last three together ...
    MaxFullEvents    \* ... and the smaller one when deltas are disabled

ASSUME SyncAssumption ==
    /\ Keys # {} /\ Initial \subseteq SUBSET Keys
    /\ MaxQueued \in Nat \ {0}
    /\ MaxChanges \in Nat \ {0}
    /\ MaxSubscribes \in Nat /\ MaxReloads \in Nat
    /\ MaxEvents \in Nat /\ MaxFullEvents \in Nat

VARIABLES
    deltasEnabled,   \* deltaConfig.enabled, fixed when the bridge is created
    store,           \* the sanitized state of the state manager
    notified,        \* BridgeFactory's prevState is defined
    changes,         \* bound, and the number of the last change
    subs,            \* SubscriptionManager.subscriptions, in order
    hasManager,      \* the window has a SubscriptionManager
    seq,             \* windowSeqs of the window
    subscribes,      \* bound
    shrunk,          \* ghost: keys taken out of a subscription that stayed
    unsent,          \* ghost: keys whose absence a new subscription did not send
    loading,         \* webContents.isLoading()
    reloads,         \* bound
    queued,          \* pendingMessages of the window
    channel,         \* messages on their way to the window
    requests,        \* GET_STATE requests on their way, by their handler's seq
    listening,       \* the preload script listens to STATE_UPDATE
    cachedState,     \* its copy of the state, Null until the first update
    expectedSeq,
    skipped          \* ghost: content thrown away since the last snapshot

bridge == <<deltasEnabled, store, notified, changes>>
subscriptions == <<subs, hasManager, seq, subscribes, shrunk, unsent>>
transport == <<loading, reloads, queued, channel>>
preload == <<requests, listening, cachedState, expectedSeq, skipped>>
vars == <<bridge, subscriptions, transport, preload>>

States == UNION {[ks -> 1..MaxChanges] : ks \in SUBSET Keys}
Nothing == [k \in {} |-> 0]

ASSUME NullAssumption == Null \notin States

MoreEvents == subscribes + (changes - 1) + reloads
                < IF deltasEnabled THEN MaxEvents ELSE MaxFullEvents

-----------------------------------------------------------------------------
(* Subscriptions.  A '*' subscription has all keys, now and later.  The key
   set of a subscription may shrink, callbackKeys, captured by its callback,
   stays. *)

Subscription ==
    [star : BOOLEAN, keys : SUBSET Keys,
     callbackKeys : SUBSET Keys, prevState : States]

CurrentKeys == UNION {s.keys : s \in ToSet(subs)}
HasStar == \E s \in ToSet(subs) : s.star

(* What GET_STATE answers: everything while the window has no manager. *)
Visible == IF hasManager THEN Pick(store, CurrentKeys) ELSE store

Update(n, full, changed, removed) ==
    [type |-> "update", seq |-> n, full |-> full, changed |-> changed, removed |-> removed]
Snapshot(n, state) == [type |-> "state", seq |-> n, state |-> state]

(* safelySendToWindow: a loading window gets its messages later, and only
   the last MaxQueued of them. *)
NewestOf(msgs) ==
    SubSeq(msgs, IF Len(msgs) > MaxQueued THEN Len(msgs) - MaxQueued + 1 ELSE 1, Len(msgs))

SendToWindow(msgs) ==
    IF loading
    THEN /\ queued' = NewestOf(queued \o msgs)
         /\ UNCHANGED channel
    ELSE /\ channel' = channel \o msgs
         /\ UNCHANGED queued

-----------------------------------------------------------------------------
(* notify and the callback of a subscription.  The first notification has no
   previous state and finds every subscription concerned. *)

Relevant(s, next) ==
    ~notified \/ s.star \/ \E k \in s.keys : Differ(store, next, k)

(* Mutation: without deltas, removed keys are not sent. *)
ContentWithoutRemoved(s, next) ==
    LET state == Pick(next, s.keys)
        delta == Delta(s.prevState, state, s.callbackKeys)
    IN  IF deltasEnabled
        THEN [full |-> FALSE, changed |-> delta.changed, removed |-> delta.removed]
        ELSE [full |-> s.star, changed |-> state, removed |-> {}]

(* Without deltas a '*' subscription sends its whole state, another one all
   it has of its keys. *)
Content(s, next) ==
    LET state == Pick(next, s.keys)
        delta == Delta(s.prevState, state, s.callbackKeys)
    IN  IF deltasEnabled
        THEN [full |-> FALSE, changed |-> delta.changed, removed |-> delta.removed]
        ELSE [full |-> s.star, changed |-> state,
              removed |-> IF s.star THEN {} ELSE delta.removed]

Sends(s, next) == Relevant(s, next) /\ ~IsEmpty(Content(s, next))

Updates(next) ==
    LET senders == Selected(subs, {i \in DOMAIN subs : Sends(subs[i], next)})
    IN  [i \in DOMAIN senders |->
            LET c == Content(senders[i], next)
            IN  Update(seq + i, c.full, c.changed, c.removed)]

Rebased(s, next) ==
    IF Relevant(s, next) THEN [s EXCEPT !.prevState = Pick(next, s.keys)] ELSE s

(* An action changes some keys of the store and removes others; the state
   manager notifies BridgeFactory, which notifies every subscription. *)
StoreChanges ==
    /\ MoreEvents
    /\ changes < MaxChanges
    /\ \E set \in SUBSET Keys, removed \in SUBSET DOMAIN store :
          /\ set \cap removed = {} /\ set \cup removed # {}
          /\ LET next == [k \in (DOMAIN store \cup set) \ removed |->
                            IF k \in set THEN changes + 1 ELSE store[k]]
                 msgs == Updates(next)
             IN  /\ store' = next
                 /\ SendToWindow(msgs)
                 /\ seq' = seq + Len(msgs)
                 /\ subs' = [i \in DOMAIN subs |-> Rebased(subs[i], next)]
                 /\ unsent' = unsent \ set
    /\ notified' = TRUE
    /\ changes' = changes + 1
    /\ UNCHANGED deltasEnabled
    /\ UNCHANGED <<hasManager, subscribes, shrunk>>
    /\ UNCHANGED <<loading, reloads>>
    /\ UNCHANGED preload

(* selectiveSubscribe of the window: no keys register nothing, keys that a
   '*' subscription covers are superseded, and a '*' subscription replaces
   all others.  A registered subscription sends what it has of its keys; if
   that is nothing, an empty full state. *)
Subscribe(star, keys) ==
    /\ MoreEvents
    /\ subscribes < MaxSubscribes
    /\ subscribes' = subscribes + 1
    /\ hasManager' = TRUE
    /\ IF keys = {} \/ (HasStar /\ ~star)
       THEN UNCHANGED <<subs, seq, channel, queued, unsent>>
       ELSE LET state == Pick(store, keys)
                new == [star |-> star, keys |-> keys, callbackKeys |-> keys,
                        prevState |-> state]
            IN  /\ unsent' = IF subscribes = 0 THEN {}
                              ELSE unsent \cup (keys \ (DOMAIN store \cup CurrentKeys))
                /\ subs' = Append(IF star THEN <<>> ELSE subs, new)
                /\ seq' = seq + 1
                /\ SendToWindow(<<Update(seq + 1, state = Nothing, state, {})>>)
    /\ UNCHANGED <<bridge, shrunk, loading, reloads, preload>>

(* Mutation: every unsubscribe restarts the counter. *)
KeepSubscriptionsAlwaysRestarts(remaining) ==
    /\ subs' = remaining
    /\ seq' = 0

(* The window's counter starts again when its last subscription goes. *)
KeepSubscriptions(remaining) ==
    /\ subs' = remaining
    /\ seq' = IF remaining = <<>> THEN 0 ELSE seq

(* The unsubscribe handle of a subscription.  The handle of one that has been
   replaced or removed finds nothing to do. *)
CallHandle(i) ==
    /\ KeepSubscriptions(RemoveAt(subs, i))
    /\ UNCHANGED <<hasManager, subscribes, shrunk, unsent>>
    /\ UNCHANGED <<bridge, transport, preload>>

(* bridge.unsubscribe(window, keys): every subscription but '*' loses the
   keys, and the window its manager if no subscription is left.
   Next takes keys that are subscribed: others can only do what UnsubscribeAll
   does to a window without subscriptions. *)
UnsubscribeKeys(keys) ==
    /\ hasManager
    /\ LET Shrunk(s) == IF s.star THEN s ELSE [s EXCEPT !.keys = @ \ keys]
           all == [i \in DOMAIN subs |-> Shrunk(subs[i])]
           remaining == Selected(all, {i \in DOMAIN subs : all[i].keys # {}})
       IN  /\ KeepSubscriptions(remaining)
           /\ hasManager' = (remaining # <<>>)
           /\ shrunk' = shrunk \cup UNION {s.callbackKeys \ s.keys : s \in ToSet(remaining)}
    /\ UNCHANGED <<subscribes, unsent>>
    /\ UNCHANGED <<bridge, transport, preload>>

(* bridge.unsubscribe(window) *)
UnsubscribeAll ==
    /\ hasManager
    /\ KeepSubscriptions(<<>>)
    /\ hasManager' = FALSE
    /\ UNCHANGED <<subscribes, shrunk, unsent>>
    /\ UNCHANGED <<bridge, transport, preload>>

(* handleGetState *)
ServeGetState ==
    /\ requests # <<>>
    /\ requests' = Tail(requests)
    /\ channel' = Append(channel, Snapshot(Head(requests), Visible))
    /\ UNCHANGED <<bridge, subscriptions, loading, reloads, queued>>
    /\ UNCHANGED <<listening, cachedState, expectedSeq, skipped>>

-----------------------------------------------------------------------------
(* The window.  A reload starts the preload script again: what was on its way
   to or from the old document is gone. *)

Reload ==
    /\ ~loading
    /\ MoreEvents
    /\ reloads < MaxReloads
    /\ reloads' = reloads + 1
    /\ loading' = TRUE
    /\ channel' = <<>>
    /\ requests' = <<>>
    /\ listening' = FALSE
    /\ cachedState' = Null
    /\ expectedSeq' = 0
    /\ skipped' = FALSE
    /\ UNCHANGED <<bridge, subscriptions, queued>>

(* did-finish-load *)
FinishLoad ==
    /\ loading
    /\ loading' = FALSE
    /\ channel' = channel \o queued
    /\ queued' = <<>>
    /\ UNCHANGED <<bridge, subscriptions, reloads, preload>>

(* handlers.subscribe, for the first callback *)
Listen ==
    /\ ~listening
    /\ listening' = TRUE
    /\ UNCHANGED <<bridge, subscriptions, transport>>
    /\ UNCHANGED <<requests, cachedState, expectedSeq, skipped>>

(* The unsubscribe function of the last callback.  A handler that awaits
   getState goes on. *)
StopListening ==
    /\ listening
    /\ listening' = FALSE
    /\ cachedState' = Null
    /\ expectedSeq' = 0
    /\ skipped' = FALSE
    /\ UNCHANGED <<bridge, subscriptions, transport, requests>>

(* Mutation: only a restart counts as a gap. *)
HasSeqGapBackwardOnly(n) == n < expectedSeq

IsUpdate == channel # <<>> /\ Head(channel).type = "update"
IsDuplicate(n) == expectedSeq > 0 /\ n = expectedSeq
HasSeqGap(n) == n > expectedSeq + 1 \/ n < expectedSeq

Receive ==
    /\ channel' = Tail(channel)
    /\ UNCHANGED <<bridge, subscriptions, loading, reloads, queued>>

(* Nothing listens to the channel. *)
UpdateUnheard ==
    /\ IsUpdate
    /\ ~listening
    /\ Receive
    /\ skipped' = (skipped \/ cachedState # Null)
    /\ UNCHANGED <<requests, listening, cachedState, expectedSeq>>

(* A duplicate is acknowledged and otherwise ignored. *)
UpdateDuplicate ==
    /\ IsUpdate
    /\ listening
    /\ IsDuplicate(Head(channel).seq)
    /\ Receive
    /\ skipped' = TRUE
    /\ UNCHANGED <<requests, listening, cachedState, expectedSeq>>

(* A gap: the update is not used, its handler awaits getState. *)
UpdateAfterGap ==
    /\ IsUpdate
    /\ listening
    /\ HasSeqGap(Head(channel).seq)
    /\ Receive
    /\ expectedSeq' = Head(channel).seq
    /\ requests' = Append(requests, Head(channel).seq)
    /\ UNCHANGED <<listening, cachedState, skipped>>

Apply(m, state) == IF m.full THEN Replace(state, m.changed) ELSE Merge(state, m)

UpdateInOrder ==
    /\ IsUpdate
    /\ listening
    /\ ~IsDuplicate(Head(channel).seq)
    /\ ~HasSeqGap(Head(channel).seq)
    /\ Receive
    /\ expectedSeq' = Head(channel).seq
    /\ cachedState' = Apply(Head(channel), IF cachedState = Null THEN Nothing ELSE cachedState)
    /\ UNCHANGED <<requests, listening, skipped>>

(* The handler goes on after its await: it uses the state unless a later
   update has been handled meanwhile.  It does so too when the listener it
   belongs to has gone, and leaves a copy to the next one. *)
StateArrives ==
    /\ channel # <<>>
    /\ Head(channel).type = "state"
    /\ Receive
    /\ IF Head(channel).seq >= expectedSeq
       THEN cachedState' = Head(channel).state /\ skipped' = (expectedSeq = 0)
       ELSE skipped' = TRUE /\ UNCHANGED cachedState
    /\ UNCHANGED <<requests, listening, expectedSeq>>

-----------------------------------------------------------------------------

Init ==
    /\ deltasEnabled \in BOOLEAN
    /\ store \in {[k \in ks |-> 1] : ks \in Initial}
    /\ changes = 1
    /\ notified = FALSE
    /\ subs = <<>> /\ hasManager = FALSE /\ seq = 0
    /\ subscribes = 0 /\ shrunk = {} /\ unsent = {}
    /\ loading = TRUE /\ reloads = 0 /\ queued = <<>> /\ channel = <<>>
    /\ requests = <<>> /\ listening = FALSE
    /\ cachedState = Null /\ expectedSeq = 0 /\ skipped = FALSE

Main ==
    \/ StoreChanges
    \/ \E keys \in SUBSET Keys : Subscribe(FALSE, keys)
    \/ Subscribe(TRUE, Keys)
    \/ \E i \in DOMAIN subs : CallHandle(i)
    \/ \E keys \in SUBSET CurrentKeys \ {{}} : UnsubscribeKeys(keys)
    \/ UnsubscribeAll
    \/ ServeGetState

Window ==
    \/ Reload
    \/ FinishLoad
    \/ Listen
    \/ StopListening
    \/ UpdateUnheard
    \/ UpdateDuplicate
    \/ UpdateAfterGap
    \/ UpdateInOrder
    \/ StateArrives

Next == Main \/ Window

Spec == Init /\ [][Next]_vars

-----------------------------------------------------------------------------

Messages ==
    [type : {"update"}, seq : Nat, full : BOOLEAN, changed : States, removed : SUBSET Keys]
      \cup [type : {"state"}, seq : Nat, state : States]

TypeOK ==
    /\ deltasEnabled \in BOOLEAN
    /\ store \in States
    /\ changes \in 1..MaxChanges
    /\ \A s \in ToSet(subs) :
          /\ s \in Subscription
          /\ s.keys # {} /\ s.keys \subseteq s.callbackKeys
          /\ DOMAIN s.prevState \subseteq s.callbackKeys
          /\ s.star => Len(subs) = 1
    /\ subs # <<>> => hasManager /\ seq > 0
    /\ \A m \in ToSet(queued) \cup ToSet(channel) : m \in Messages
    /\ queued # <<>> => loading
    /\ loading => channel = <<>> /\ requests = <<>>
    /\ cachedState \in States \cup {Null}
    /\ expectedSeq # 0 => listening

(* Nothing is on its way between the store and the window. *)
Quiet == queued = <<>> /\ channel = <<>> /\ requests = <<>>

(* The window's copy is the store, on every key it is subscribed to, whenever
   nothing is on its way: whatever the overlap of its subscriptions, whatever
   was lost while it loaded or did not listen.  The exceptions are the ways
   in which the code loses content for good: an update taken for a duplicate,
   a snapshot thrown away or taken for a listener that has gone, an update
   unheard while a copy is kept (skipped), a subscription of which some keys
   were unsubscribed (shrunk), a key that the store lost while the window was
   not subscribed to it, and whose absence the initial update of a new
   subscription does not carry (unsent), and an empty store that is not sent when deltas
   are disabled.
   (preload.ts:185-331, SubscriptionHandler.ts:128-383) *)
Converged ==
    Quiet /\ listening /\ cachedState # Null /\ ~skipped
          /\ (deltasEnabled \/ store # Nothing)
        => \A k \in CurrentKeys \ (shrunk \cup unsent) : ~Differ(cachedState, store, k)
=============================================================================
