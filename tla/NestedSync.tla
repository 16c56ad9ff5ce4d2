----------------------------- MODULE NestedSync -----------------------------
(***************************************************************************)
(* The subscriptions of one window to nested keys: what the callbacks of   *)
(* SubscriptionHandler send when the store changes, what the preload       *)
(* script merges, and what isSubscribedToKey and validateActionDispatch    *)
(* then allow the window to read and to do.                                *)
(*                                                                         *)
(* Messages arrive at once and in order here: StateSync has the numbers,   *)
(* the gaps and the losses, for flat keys.                                 *)
(***************************************************************************)
EXTENDS NestedState

CONSTANTS
    Keys,            \* the keys that can be subscribed
    RootValues,      \* the values each root of the store can have
    Depths,          \* the values of serialization.maxDepth
    MaxKeys,         \* bound: keys of the first subscription; later ones have one
    MaxChanges,      \* bound: changes of the store
    MaxSubscribes    \* bound: calls of selectiveSubscribe

ASSUME NestedAssumption ==
    /\ \A k \in Keys : k \in Seq(Names) /\ Len(k) > 0 /\ Root(k) \in DOMAIN RootValues
    /\ \A root \in DOMAIN RootValues :
          /\ root \in Seq(Names) /\ Len(root) = 1
          /\ \A value \in RootValues[root] : IsValue(value) /\ value # Undefined
    /\ Depths \subseteq Nat
    /\ MaxKeys \in Nat /\ MaxChanges \in Nat /\ MaxSubscribes \in Nat

VARIABLES
    deltasEnabled,   \* deltaConfig.enabled
    maxDepth,        \* serializationMaxDepth
    store,           \* the state of the state manager, not sanitized
    notified,        \* BridgeFactory's prevState is defined
    subs,            \* SubscriptionManager.subscriptions, by id
    cachedState,     \* the copy of the preload script
    changes,         \* bound
    subscribes,      \* bound
    unsent,          \* ghost: absent keys whose absence nobody has sent
    shrunk           \* ghost: keys taken out of a subscription that stayed

config == <<deltasEnabled, maxDepth>>
nestedVars == <<config, store, notified, subs, cachedState, changes, subscribes, unsent, shrunk>>

Clean(state) == Sanitize(state, maxDepth)

(* A '*' subscription has no keys of its own. *)
CurrentKeys == UNION {subs[i].keys : i \in DOMAIN subs}
HasStar == \E i \in DOMAIN subs : subs[i].star
Slice(state, s) == IF s.star THEN state ELSE Partial(state, s.keys)

-----------------------------------------------------------------------------
(* Access of the window. *)

(* What GET_WINDOW_SUBSCRIPTIONS answers. *)
WindowSubscriptions == [star |-> HasStar, keys |-> CurrentKeys]

(* isSubscribedToKey of the preload script: the key, or one above it. *)
IsSubscribedToKey(key) ==
    WindowSubscriptions.star \/ \E k \in WindowSubscriptions.keys : IsPrefix(k, key)

(* validateStateAccess of one key or of several. *)
ValidateStateAccess(keys) ==
    WindowSubscriptions.star \/ \A k \in keys : IsSubscribedToKey(k)

(* validateStateAccessWithExistence, for a state the caller has *)
ValidateWithExistence(state, key) ==
    StateKeyExists(state, key) /\ ValidateStateAccess({key})

(* handleGetState, for a window with a subscription manager *)
Visible == IF HasStar THEN Clean(store) ELSE Partial(Clean(store), CurrentKeys)

(* Mutation: existence is enough. *)
CanDispatchExisting(affected) ==
    \A k \in affected : StateKeyExists(Visible, k)

(* canDispatchAction, for the keys an action affects: a '*' subscription may
   dispatch everything. *)
CanDispatchAction(affected) ==
    HasStar \/ \A k \in affected : StateKeyExists(Visible, k) /\ IsSubscribedToKey(k)

(* validateActionDispatch *)
ValidateActionDispatch(affected) ==
    /\ \A k \in affected : StateKeyExists(Visible, k)
    /\ CanDispatchAction(affected)

-----------------------------------------------------------------------------
(* The callback of a subscription. *)

(* hasRelevantChange *)
Relevant(s, prev, next) ==
    ~notified \/ s.star \/ \E k \in s.keys : At(prev, k) # At(next, k)

(* sanitizeDelta: each changed value by itself; nothing stays of a function. *)
SanitizeDelta(d) ==
    LET clean == [k \in DOMAIN d.changed |-> Sanitize(d.changed[k], maxDepth)]
    IN  [d EXCEPT !.changed =
            [k \in {k \in DOMAIN clean : clean[k] # Undefined} |-> clean[k]]]

(* What it sends: a delta, or without deltas the whole state of a '*'
   subscription and all that another one has of its keys. *)
Received(copy, s, next) ==
    LET state == Slice(next, s)
        delta == IF s.star THEN CalculateTopLevel(s.prevState, state)
                 ELSE Calculate(s.prevState, state, s.callbackKeys, next)
        whole == [changed |-> ToDeltaKeys(state, s.callbackKeys),
                  removed |-> Missing(s.prevState, state, s.callbackKeys)]
    IN  CASE deltasEnabled -> MergeDelta(copy, SanitizeDelta(delta))
          [] ~deltasEnabled /\ s.star -> MergeFull(copy, state)
          [] OTHER -> MergeDelta(copy, whole)

(* The callbacks, in the order of the ids, and what each of them sends merged. *)
Concerned(i, prev, next) == i \in DOMAIN subs /\ Relevant(subs[i], prev, next)
AfterCallbacks(prev, next) ==
    LET copy[i \in 0..subscribes] ==
            IF i = 0 THEN cachedState
            ELSE IF Concerned(i, prev, next) THEN Received(copy[i - 1], subs[i], next)
            ELSE copy[i - 1]
    IN  copy[subscribes]

(* A key that is there and subscribed has been sent. *)
Sent(key) == key \in DOMAIN Clean(store) /\ IsSubscribedToKey(key)

(* An action gives one root of the store another value or takes it away, and
   the subscriptions are notified, one after the other. *)
StoreChanges ==
    /\ changes < MaxChanges
    /\ changes' = changes + 1
    /\ \E root \in DOMAIN RootValues : \E value \in RootValues[root] \cup {Undefined} :
          /\ value # At(store, root)
          /\ LET raw == IF value = Undefined THEN DeleteDeep(store, root)
                        ELSE SetDeep(store, root, value)
                 prev == Clean(store)
                 next == Sanitize(raw, maxDepth)
             IN  /\ store' = raw
                 /\ cachedState' = AfterCallbacks(prev, next)
                 /\ subs' = [i \in DOMAIN subs |->
                               IF Concerned(i, prev, next)
                               THEN [subs[i] EXCEPT !.prevState = Slice(next, subs[i])]
                               ELSE subs[i]]
    /\ UNCHANGED <<config, subscribes, shrunk>>
    /\ unsent' = {k \in unsent : ~Sent(k)'}
    /\ notified' = TRUE

(* selectiveSubscribe: the new subscription sends what is there of its keys,
   and nothing about what is not. *)
Subscribe(star, keys) ==
    /\ subscribes < MaxSubscribes
    /\ subscribes' = subscribes + 1
    /\ star \/ ~HasStar
    /\ UNCHANGED <<config, store, notified, changes, shrunk>>
    /\ LET state == Clean(IF star THEN store ELSE Partial(store, keys))
           wanted == IF star THEN DOMAIN RootValues ELSE keys
           initial == ToDeltaKeys(state, wanted)
           id == subscribes + 1
       IN  /\ subs' = [i \in (IF star THEN {} ELSE DOMAIN subs) \cup {id} |->
                         IF i # id THEN subs[i]
                         ELSE [star |-> star, keys |-> keys, callbackKeys |-> keys,
                               prevState |-> state]]
           /\ cachedState' = MergeDelta(cachedState, [changed |-> initial, removed |-> {}])
           /\ LET new == {k \in wanted : k \notin DOMAIN state /\ ~IsSubscribedToKey(k)}
              IN  unsent' = {k \in unsent \cup new : ~Sent(k)'}

(* The unsubscribe handle of a subscription. *)
CallHandle(i) ==
    /\ subs' = [j \in DOMAIN subs \ {i} |-> subs[j]]
    /\ UNCHANGED <<config, store, notified, cachedState, changes, subscribes, unsent,
                   shrunk>>

(* bridge.unsubscribe(window, [key]): exactly this key goes, from every
   subscription.  Several keys leave what one after the other does. *)
UnsubscribeKey(key) ==
    /\ LET Alive(i) == subs[i].star \/ subs[i].keys \ {key} # {}
           remaining == [i \in {i \in DOMAIN subs : Alive(i)} |->
                            [subs[i] EXCEPT !.keys = @ \ {key}]]
       IN  /\ subs' = remaining
           /\ shrunk' = shrunk \cup
                  UNION {remaining[i].callbackKeys \ remaining[i].keys : i \in DOMAIN remaining}
    /\ UNCHANGED <<config, store, notified, cachedState, changes, subscribes, unsent>>

(* After a gap the copy is what GET_STATE answers. *)
Resync ==
    /\ DOMAIN subs # {}
    /\ cachedState' = Visible
    /\ unsent' = {}
    /\ UNCHANGED <<config, store, notified, subs, changes, subscribes, shrunk>>

-----------------------------------------------------------------------------

KeySets ==
    {keys \in SUBSET Keys :
        keys # {} /\ Cardinality(keys) <= (IF subscribes = 0 THEN MaxKeys ELSE 1)}

NestedInit ==
    /\ deltasEnabled \in BOOLEAN
    /\ maxDepth \in Depths
    /\ \E root \in DOMAIN RootValues : \E value \in RootValues[root] :
          store \in {EmptyObject, SetDeep(EmptyObject, root, value)}
    /\ notified = FALSE
    /\ subs = [i \in {} |-> 0]
    /\ cachedState = EmptyObject
    /\ changes = 0 /\ subscribes = 0
    /\ unsent = {} /\ shrunk = {}

NestedNext ==
    \/ StoreChanges
    \/ \E keys \in KeySets : Subscribe(FALSE, keys)
    \/ Subscribe(TRUE, {})
    \/ \E i \in DOMAIN subs : CallHandle(i)
    \/ \E key \in CurrentKeys : UnsubscribeKey(key)
    \/ Resync

NestedSpec == NestedInit /\ [][NestedNext]_nestedVars

-----------------------------------------------------------------------------

(* Keys the code loses track of: see AccessIsFresh. *)
EmptyIsUnsent == HasStar /\ ~deltasEnabled /\ Clean(store) = EmptyObject
Lost(p) == EmptyIsUnsent \/ \E k \in unsent \cup shrunk : Related(k, p)

NestedTypeOK ==
    /\ IsState(store) /\ IsState(cachedState)
    /\ DOMAIN subs \subseteq 1..subscribes
    /\ \A i \in DOMAIN subs :
          /\ subs[i].keys \subseteq subs[i].callbackKeys /\ subs[i].callbackKeys \subseteq Keys
          /\ IsState(subs[i].prevState)
    /\ unsent \cup shrunk \subseteq Keys \cup DOMAIN RootValues

(* What isSubscribedToKey lets the window read, at any depth, is what the
   store has there, whatever the overlap of its subscriptions.  The exceptions
   are the ways in which the code loses content for good: a key that is absent
   when it is subscribed while the copy may have something there, which stays until
   a subscription sends the key again (unsent),
   what lies around a key taken out of a subscription that stayed (shrunk), and
   an empty store, which is not sent when deltas are disabled.  The state keeps
   its types.
   (SubscriptionHandler.ts:128-383, DeltaCalculator.ts:41-143,
   DeltaMerger.ts:4-45, preload.ts:710-742) *)
AccessIsFresh ==
    NestedTypeOK /\ \A p \in Keys :
        ValidateStateAccess({p}) /\ ~Lost(p) => At(cachedState, p) = At(Clean(store), p)

(* An action that validation lets pass affects only what the window has seen:
   each key it affects exists in the copy and has the value of the store.  And
   a key that an access check finds in the copy exists in the store.
   (actionValidator.ts:49-149, subscriptionValidator.ts:62-100) *)
DispatchIsInformed ==
    \A k \in Keys :
        /\ ValidateActionDispatch({k}) /\ ~Lost(k) =>
            k \in DOMAIN cachedState /\ At(cachedState, k) = At(Clean(store), k)
        /\ ValidateWithExistence(cachedState, k) /\ ~Lost(k) =>
            StateKeyExists(Clean(store), k)

(* A root that leaves the store leaves no empty object behind in the copy when
   a subscription had a part of it.
   (DeltaCalculator.ts:74-91: "leaving a stale empty-object shell") *)
LosesRoot(root) ==
    /\ deltasEnabled
    /\ root \in DOMAIN store /\ root \notin DOMAIN store'
    /\ \E i \in DOMAIN subs, k \in Keys :
          /\ k \in subs[i].keys /\ IsPrefix(root, k)
          /\ k \in DOMAIN subs[i].prevState
NoShellStays ==
    [][\A root \in DOMAIN RootValues : LosesRoot(root) => root \notin DOMAIN cachedState']_nestedVars
=============================================================================
