----------------------------- MODULE TauriSync ------------------------------
(***************************************************************************)
(* How the webviews of a Tauri application follow the store that the Rust  *)
(* plugin keeps: the commands of tauri-plugin (dispatch, batch dispatch,   *)
(* subscribe, unsubscribe, get_initial_state, get_state as a resync, the   *)
(* acknowledgment of an update, forget_label), and the BridgeClient of     *)
(* each webview with the listener it registers.                            *)
(*                                                                         *)
(* Commands run on threads of their own.  broadcast_lock makes those that  *)
(* change or send state take turns; get_initial_state, get_state,          *)
(* state_update_ack and forget_label do not take it, and so fall between   *)
(* any two steps of a broadcast.  A step here is what happens under one    *)
(* of the inner locks, or under two that nothing but forget_label and a    *)
(* resync could come between, with the same outcome as before or after.    *)
(*                                                                         *)
(* Events reach a webview in the order they are emitted in; commands and   *)
(* their answers are not ordered with them or with each other.  The value  *)
(* of a key is the number of the change that set it.                       *)
(***************************************************************************)
EXTENDS Naturals, Sequences, SequencesExt, FiniteSets, StateDelta

CONSTANTS
    Labels,       \* the webviews
    Keys,         \* the top level keys of the store
    None,
    MaxChanges,   \* bound: dispatches, single or batched
    MaxSubscribes,\* bound: calls of subscribe and unsubscribe
    MaxFailures,  \* bound: emissions that fail
    MaxClients    \* bound: BridgeClients and windows opened after the first

ASSUME TauriAssumption ==
    /\ Keys # {}
    /\ MaxChanges \in Nat /\ MaxSubscribes \in Nat
    /\ MaxFailures \in Nat /\ MaxClients \in Nat

VARIABLES
    store,       \* the state manager's state
    changes,     \* bound, and the number of the last change
    subscribes,  \* bound
    failures,    \* bound
    clients,     \* bound
    open,        \* webview_windows()
    subs,        \* SubscriptionManager.by_label: {} is no entry, all keys
    baseline,    \* DeltaCalculator.last_by_label
    seqs,        \* SequenceTracker.by_label: 0 is no entry
    pending,     \* StateUpdateTracker.pending_by_label
    broadcast,   \* the broadcast under way, whose thread holds broadcast_lock
    updates,     \* update ids handed out
    events,      \* state-update events on their way to each webview
    acks,        \* state_update_ack commands on their way
    phase,       \* of the client: see Phases
    resync,      \* of the client's resyncInFlight: see Resyncs
    answer,      \* the state read for the client and not yet received
    copy,        \* the client's currentState
    lastSeq,
    excused,     \* ghost: updates whose acknowledgment cannot come any more
    owed,        \* ghost: webviews that a failed broadcast did not reach
    missed       \* ghost: webviews that miss content for good

bounds == <<changes, subscribes, failures, clients>>
perLabel == <<subs, baseline, seqs, pending>>
client == <<phase, resync, answer, copy, lastSeq>>
ghosts == <<excused, owed, missed>>
vars == <<store, bounds, open, perLabel, broadcast, updates, events, acks, client, ghosts>>

(* none: there is no client, or it is gone; probing: get_initial_state is
   invoked; answered: it was read; attaching: the answer is published and
   listen is invoked; live; closing: destroyed, and waiting for its resync. *)
Phases == {"none", "probing", "answered", "attaching", "live", "closing"}

(* idle; asked: get_state is invoked; dropped: pending acknowledgments are
   dropped; forgotten: so is the baseline; answered: the state is read. *)
Resyncs == {"idle", "asked", "dropped", "forgotten", "answered"}

States == UNION {[ks -> 1..MaxChanges] : ks \in SUBSET Keys}
Nothing == [k \in {} |-> 0]

(* What is computed for a webview, the event it becomes, the turn of a webview
   in a broadcast, and what a client is answered. *)
Updates ==
    [kind : {"full"}, state : States]
      \cup [kind : {"delta"}, state : [changed : States, removed : SUBSET Keys]]
Events == [seq : Nat, id : Nat, age : Nat, update : Updates]
Turns ==
    [label : Labels, scoped : States, stage : {"emit", "record", "note"}, event : Events]
Broadcasts ==
    [state : States, todo : SUBSET Labels, now : Turns \cup {None}, fresh : SUBSET Labels]
Answers == [state : States, age : Nat]

ASSUME NoneAssumption == None \notin States \cup Turns \cup Broadcasts \cup Answers

-----------------------------------------------------------------------------
(* The tables by label: SubscriptionManager, which has no entry without keys,
   SequenceTracker, DeltaCalculator and StateUpdateTracker. *)

SetKeys(l, keys) == subs' = [subs EXCEPT ![l] = keys]
ForgetKeys(l) == SetKeys(l, {})

NextSeq(l) == seqs' = [seqs EXCEPT ![l] = @ + 1]
ForgetSeq(l) == seqs' = [seqs EXCEPT ![l] = 0]

Record(l, state) == baseline' = [baseline EXCEPT ![l] = state]
Forget(l) == Record(l, None)

NotePending(l, id) == pending' = [pending EXCEPT ![l] = @ \cup {id}]
Ack(l, id) == pending' = [pending EXCEPT ![l] = @ \ {id}]
DropPending(l) == pending' = [pending EXCEPT ![l] = {}]

(* filter_for: a webview without an entry gets every key.  The empty set stands
   for no entry: the empty entry that subscribe makes of no keys at all, and
   which lets nothing through, is not modelled. *)
KeysOf(l) == IF subs[l] = {} THEN Keys ELSE subs[l]
View(l, state) == Pick(state, KeysOf(l))

(* An answer carries the number of changes it includes, a ghost. *)
Age == changes + subscribes
Answer(state) == [state |-> state, age |-> Age]

(* DeltaCalculator::compute: without a baseline the update is the full
   state, and without a difference there is none. *)
Outcome(l, state) ==
    IF baseline[l] = None
    THEN [kind |-> "full", state |-> state]
    ELSE [kind |-> "delta", state |-> Delta(baseline[l], state, Keys)]

Unchanged(outcome) == outcome.kind = "delta" /\ IsEmpty(outcome.state)

-----------------------------------------------------------------------------
(* broadcast_state_locked: the webviews in any order, for each the update is
   computed and numbered, emitted, recorded as the baseline and noted as
   pending.  Its thread has broadcast_lock from the command on.  fresh is a
   ghost: the webviews for which a snapshot was read meanwhile. *)

Locked == broadcast # None

StartBroadcast(state) ==
    broadcast' = IF open = {} THEN None
                 ELSE [state |-> state, todo |-> open, now |-> None, fresh |-> {}]

Done(l) ==
    LET todo == broadcast.todo \ {l}
    IN  IF todo = {} THEN None
        ELSE [broadcast EXCEPT !.todo = todo, !.now = None]

(* Mutation: the baseline is recorded before the event is emitted. *)
ComputeAndRecord(l) ==
    /\ Locked /\ broadcast.now = None /\ l \in broadcast.todo
    /\ LET scoped == View(l, broadcast.state)
           outcome == Outcome(l, scoped)
       IN  /\ ~Unchanged(outcome)
           /\ NextSeq(l)
           /\ updates' = updates + 1
           /\ Record(l, scoped)
           /\ broadcast' = [broadcast EXCEPT !.now =
                 [label |-> l, scoped |-> scoped, stage |-> "emit",
                  event |-> [seq |-> seqs'[l], id |-> updates', age |-> Age,
                             update |-> outcome]]]
    /\ UNCHANGED <<store, bounds, open, subs, pending, events, acks, client, ghosts>>

(* Mutation: an unchanged view takes a number all the same. *)
NumberUnchanged(l) ==
    /\ Locked /\ broadcast.now = None /\ l \in broadcast.todo
    /\ LET scoped == View(l, broadcast.state)
           outcome == Outcome(l, scoped)
       IN  /\ NextSeq(l)
           /\ updates' = updates + 1
           /\ broadcast' = IF Unchanged(outcome) THEN Done(l)
                 ELSE [broadcast EXCEPT !.now =
                         [label |-> l, scoped |-> scoped, stage |-> "emit",
                          event |-> [seq |-> seqs'[l], id |-> updates', age |-> Age,
                                     update |-> outcome]]]
    /\ UNCHANGED <<store, bounds, open, subs, baseline, pending, events, acks, client,
                   ghosts>>

(* An unchanged view is not sent, and takes no number. *)
ComputeUpdate(l) ==
    /\ Locked /\ broadcast.now = None /\ l \in broadcast.todo
    /\ LET scoped == View(l, broadcast.state)
           outcome == Outcome(l, scoped)
       IN  IF Unchanged(outcome)
           THEN /\ broadcast' = Done(l)
                /\ owed' = owed \ {l}
                /\ UNCHANGED <<seqs, updates>>
           ELSE /\ NextSeq(l)
                /\ updates' = updates + 1
                /\ broadcast' = [broadcast EXCEPT !.now =
                      [label |-> l, scoped |-> scoped, stage |-> "emit",
                       event |-> [seq |-> seqs'[l], id |-> updates', age |-> Age,
                                  update |-> outcome]]]
                /\ UNCHANGED owed
    /\ missed' = IF l \in open THEN missed ELSE missed \cup {l}
    /\ UNCHANGED <<store, bounds, open, subs, baseline, pending, events, acks, client,
                   excused>>

(* A listener gets what is emitted after it was registered. *)
Listening(l) == phase[l] \in {"live", "closing"}

(* An update nobody applies is never acknowledged, and what it says is lost
   to a client whose snapshot was read before. *)
Drop(l, event) ==
    /\ excused' = excused \cup {event.id}
    /\ missed' = IF answer[l] # None /\ event.age > answer[l].age
                 THEN missed \cup {l} ELSE missed

(* emit_to: without a listener, or a window, nobody gets it, which is no
   error. *)
Emit ==
    /\ Locked /\ broadcast.now # None /\ broadcast.now.stage = "emit"
    /\ LET l == broadcast.now.label
           event == broadcast.now.event
       IN  IF Listening(l)
           THEN /\ events' = [events EXCEPT ![l] = Append(@, event)]
                /\ UNCHANGED <<excused, missed>>
           ELSE /\ Drop(l, event)
                /\ UNCHANGED events
    /\ broadcast' = [broadcast EXCEPT !.now.stage = "record"]
    /\ UNCHANGED <<store, bounds, open, perLabel, updates, acks, client, owed>>

(* An error is handed on: the webviews whose turn has not come are left out.
   One for which a snapshot was read meanwhile is ahead of its baseline. *)
EmitFails ==
    /\ Locked /\ broadcast.now # None /\ broadcast.now.stage = "emit"
    /\ failures < MaxFailures
    /\ failures' = failures + 1
    /\ owed' = owed \cup broadcast.todo
    /\ missed' = missed \cup {l \in broadcast.fresh \cap broadcast.todo : baseline[l] # None}
    /\ broadcast' = None
    /\ UNCHANGED <<store, changes, subscribes, clients, open, perLabel, updates, events,
                   acks, client, excused>>

RecordBaseline ==
    /\ Locked /\ broadcast.now # None /\ broadcast.now.stage = "record"
    /\ LET l == broadcast.now.label
       IN  /\ Record(l, broadcast.now.scoped)
           /\ owed' = owed \ {l}
           /\ missed' = IF l \in open THEN missed ELSE missed \cup {l}
           /\ broadcast' = [broadcast EXCEPT !.now.stage = "note"]
    /\ UNCHANGED <<store, bounds, open, subs, seqs, pending, updates, events, acks, client,
                   excused>>

RecordPending ==
    /\ Locked /\ broadcast.now # None /\ broadcast.now.stage = "note"
    /\ LET l == broadcast.now.label
       IN  /\ NotePending(l, broadcast.now.event.id)
           /\ missed' = IF l \in open THEN missed ELSE missed \cup {l}
           /\ broadcast' = Done(l)
           /\ excused' = IF l \in open THEN excused
                         ELSE excused \cup {broadcast.now.event.id}
    /\ UNCHANGED <<store, bounds, open, subs, baseline, seqs, updates, events, acks, client,
                   owed>>

-----------------------------------------------------------------------------
(* The commands that take broadcast_lock. *)

(* dispatch_action, or batch_dispatch, which broadcasts once: some keys are
   set and some removed. *)
Dispatch ==
    /\ ~Locked /\ changes < MaxChanges
    /\ changes' = changes + 1
    /\ \E set \in SUBSET Keys, removed \in SUBSET DOMAIN store :
          /\ set \cap removed = {} /\ set \cup removed # {}
          /\ store' = [k \in (DOMAIN store \cup set) \ removed |->
                          IF k \in set THEN changes + 1 ELSE store[k]]
    /\ StartBroadcast(store')
    /\ UNCHANGED <<subscribes, failures, clients, open, perLabel, updates, events, acks,
                   client, ghosts>>

(* The keys change, the baseline is forgotten, and all webviews, not only
   this one, are sent the state they lack. *)
ChangeKeys(l, keys) ==
    /\ ~Locked /\ phase[l] = "live" /\ subscribes < MaxSubscribes
    /\ subscribes' = subscribes + 1
    /\ SetKeys(l, keys)
    /\ Forget(l)
    /\ StartBroadcast(store)
    /\ UNCHANGED <<store, changes, failures, clients, open, seqs, pending, updates, events,
                   acks, client, ghosts>>

(* The commands subscribe and unsubscribe of the client. *)
Subscribe(l) ==
    \E keys \in SUBSET Keys \ {{}} : ChangeKeys(l, subs[l] \cup keys)

Unsubscribe(l) ==
    \E keys \in SUBSET Keys \ {{}} : ChangeKeys(l, subs[l] \ keys)

-----------------------------------------------------------------------------
(* The commands that do not take it. *)

(* A snapshot that is ahead of a baseline nobody will bring up to date may
   have keys whose removal no delta will mention. *)
Behind(l) == l \in owed /\ baseline[l] # None

NoteSnapshot(l) ==
    broadcast' = IF Locked THEN [broadcast EXCEPT !.fresh = @ \cup {l}] ELSE broadcast

InitialRead(l) ==
    /\ phase[l] = "probing"
    /\ phase' = [phase EXCEPT ![l] = "answered"]
    /\ answer' = [answer EXCEPT ![l] = Answer(store)]
    /\ missed' = IF Behind(l) THEN missed \cup {l} ELSE missed
    /\ NoteSnapshot(l)
    /\ UNCHANGED <<store, bounds, open, perLabel, updates, events, acks, resync,
                   copy, lastSeq, excused, owed>>

(* Mutation: what is pending stays. *)
ResyncKeepPending(l) ==
    /\ resync[l] = "asked"
    /\ resync' = [resync EXCEPT ![l] = "dropped"]
    /\ UNCHANGED <<store, bounds, open, perLabel, broadcast, updates, events, acks, phase,
                   answer, copy, lastSeq, ghosts>>

ResyncDropPending(l) ==
    /\ resync[l] = "asked"
    /\ resync' = [resync EXCEPT ![l] = "dropped"]
    /\ DropPending(l)
    /\ UNCHANGED <<store, bounds, open, subs, baseline, seqs, broadcast, updates, events,
                   acks, phase, answer, copy, lastSeq, ghosts>>

ResyncForget(l) ==
    /\ resync[l] = "dropped"
    /\ resync' = [resync EXCEPT ![l] = "forgotten"]
    /\ Forget(l)
    /\ UNCHANGED <<store, bounds, open, subs, seqs, pending, broadcast, updates, events,
                   acks, phase, answer, copy, lastSeq, ghosts>>

ResyncRead(l) ==
    /\ resync[l] = "forgotten"
    /\ resync' = [resync EXCEPT ![l] = "answered"]
    /\ answer' = [answer EXCEPT ![l] = Answer(View(l, store))]
    /\ missed' = IF Behind(l) THEN missed \cup {l} ELSE missed \ {l}
    /\ NoteSnapshot(l)
    /\ UNCHANGED <<store, bounds, open, perLabel, updates, events, acks, phase,
                   copy, lastSeq, excused, owed>>

(* state_update_ack.  One that overtakes record_pending finds nothing. *)
Acknowledge(l, id) ==
    /\ id \in acks[l]
    /\ acks' = [acks EXCEPT ![l] = @ \ {id}]
    /\ Ack(l, id)
    /\ excused' = IF id \in pending[l] THEN excused ELSE excused \cup {id}
    /\ UNCHANGED <<store, bounds, open, subs, baseline, seqs, broadcast, updates, events,
                   client, owed, missed>>

-----------------------------------------------------------------------------
(* The client. *)

Gone(l) ==
    /\ events' = [events EXCEPT ![l] = <<>>]
    /\ excused' = excused \cup {e.id : e \in ToSet(events[l])}
    /\ phase' = [phase EXCEPT ![l] = "none"]
    /\ resync' = [resync EXCEPT ![l] = "idle"]
    /\ answer' = [answer EXCEPT ![l] = None]
    /\ copy' = [copy EXCEPT ![l] = Nothing]
    /\ lastSeq' = [lastSeq EXCEPT ![l] = 0]

Initialize(l) ==
    /\ l \in open /\ phase[l] = "none" /\ clients < MaxClients
    /\ clients' = clients + 1
    /\ phase' = [phase EXCEPT ![l] = "probing"]
    /\ missed' = missed \ {l}
    /\ UNCHANGED <<store, changes, subscribes, failures, open, perLabel, broadcast, updates,
                   events, acks, resync, answer, copy, lastSeq, excused, owed>>

PublishInitial(l) ==
    /\ phase[l] = "answered"
    /\ phase' = [phase EXCEPT ![l] = "attaching"]
    /\ copy' = [copy EXCEPT ![l] = answer[l].state]
    /\ UNCHANGED <<store, bounds, open, perLabel, broadcast, updates, events, acks, resync,
                   answer, lastSeq, ghosts>>

Attach(l) ==
    /\ phase[l] = "attaching"
    /\ phase' = [phase EXCEPT ![l] = "live"]
    /\ answer' = [answer EXCEPT ![l] = None]
    /\ UNCHANGED <<store, bounds, open, perLabel, broadcast, updates, events, acks, resync,
                   copy, lastSeq, ghosts>>

(* A resync is in flight. *)
EventDropped(l) ==
    /\ Listening(l) /\ resync[l] # "idle" /\ events[l] # <<>>
    /\ events' = [events EXCEPT ![l] = Tail(@)]
    /\ Drop(l, Head(events[l]))
    /\ UNCHANGED <<store, bounds, open, perLabel, broadcast, updates, acks, client, owed>>

InSequence(l, event) == lastSeq[l] = 0 \/ event.seq = lastSeq[l] + 1

(* A gap: the event is not applied and the state asked for. *)
EventReportsGap(l) ==
    /\ phase[l] = "live" /\ resync[l] = "idle" /\ events[l] # <<>>
    /\ ~InSequence(l, Head(events[l]))
    /\ events' = [events EXCEPT ![l] = Tail(@)]
    /\ resync' = [resync EXCEPT ![l] = "asked"]
    /\ excused' = IF Head(events[l]).id \in pending[l] THEN excused
                  ELSE excused \cup {Head(events[l]).id}
    /\ UNCHANGED <<store, bounds, open, perLabel, broadcast, updates, acks, phase, answer,
                   copy, lastSeq, owed, missed>>

(* The client's own DeltaMerger, which a full update passes by. *)
Merged(state, update) ==
    IF update.kind = "full" THEN update.state ELSE Merge(state, update.state)

EventApplied(l) ==
    /\ phase[l] = "live" /\ resync[l] = "idle" /\ events[l] # <<>>
    /\ LET event == Head(events[l])
       IN  /\ InSequence(l, event)
           /\ lastSeq' = [lastSeq EXCEPT ![l] = event.seq]
           /\ copy' = [copy EXCEPT ![l] = Merged(@, event.update)]
           /\ missed' = IF event.update.kind = "full" THEN missed \ {l} ELSE missed
           /\ acks' = [acks EXCEPT ![l] = @ \cup {event.id}]
    /\ events' = [events EXCEPT ![l] = Tail(@)]
    /\ UNCHANGED <<store, bounds, open, perLabel, broadcast, updates, phase, resync,
                   answer, excused, owed>>

(* The answer replaces the copy, unless the client was destroyed. *)
ResyncEnds(l) ==
    /\ resync[l] = "answered"
    /\ IF phase[l] = "closing"
       THEN Gone(l)
       ELSE /\ copy' = [copy EXCEPT ![l] = answer[l].state]
            /\ lastSeq' = [lastSeq EXCEPT ![l] = 0]
            /\ resync' = [resync EXCEPT ![l] = "idle"]
            /\ answer' = [answer EXCEPT ![l] = None]
            /\ UNCHANGED <<phase, events, excused>>
    /\ UNCHANGED <<store, bounds, open, perLabel, broadcast, updates, acks, owed,
                   missed>>

(* cleanupZubridge and destroy.  A probe that is still under way fails when
   it returns.  (A listener that is being registered outlives its client, and
   goes on writing to the module's store; that store is not modelled.) *)
Destroy(l) ==
    /\ phase[l] \in {"probing", "answered", "attaching", "live"}
    /\ IF resync[l] = "idle"
       THEN Gone(l)
       ELSE /\ phase' = [phase EXCEPT ![l] = "closing"]
            /\ UNCHANGED <<events, excused, resync, answer, copy, lastSeq>>
    /\ UNCHANGED <<store, bounds, open, perLabel, broadcast, updates, acks, owed, missed>>

-----------------------------------------------------------------------------
(* Windows.  The client and its events go with the page; an acknowledgment
   that is on its way arrives.  Assumption: a command that was invoked has run
   before the page is gone. *)

PageGone(l) ==
    /\ resync[l] \in {"idle", "answered"}
    /\ Gone(l)

(* Assumption: creating a webview takes longer than a broadcast, so none is
   closed and opened again with the same label within one. *)
OpenWindow(l) ==
    /\ l \notin open /\ clients < MaxClients
    /\ Locked => l \notin broadcast.todo
    /\ open' = open \cup {l}
    /\ owed' = IF baseline[l] = None THEN owed ELSE owed \cup {l}
    /\ UNCHANGED <<store, bounds, perLabel, broadcast, updates, events, acks, client,
                   excused, missed>>

ReloadPage(l) ==
    /\ l \in open /\ phase[l] # "none" /\ clients < MaxClients
    /\ PageGone(l)
    /\ UNCHANGED <<store, bounds, open, perLabel, broadcast, updates, acks, owed, missed>>

(* Mutation: forget_label leaves the baseline. *)
CloseAndKeepBaseline(l) ==
    /\ l \in open
    /\ open' = open \ {l}
    /\ PageGone(l)
    /\ ForgetKeys(l)
    /\ DropPending(l)
    /\ ForgetSeq(l)
    /\ owed' = owed \ {l}
    /\ missed' = missed \ {l}
    /\ UNCHANGED <<store, bounds, baseline, broadcast, updates, acks>>

(* forget_on_destroy, forget_label. *)
CloseWindow(l) ==
    /\ l \in open
    /\ open' = open \ {l}
    /\ PageGone(l)
    /\ ForgetKeys(l)
    /\ Forget(l)
    /\ DropPending(l)
    /\ ForgetSeq(l)
    /\ owed' = owed \ {l}
    /\ missed' = missed \ {l}
    /\ UNCHANGED <<store, bounds, broadcast, updates, acks>>

-----------------------------------------------------------------------------
Init ==
    /\ store = Nothing
    /\ changes = 0 /\ subscribes = 0 /\ failures = 0 /\ clients = 0
    /\ open = Labels
    /\ subs = [l \in Labels |-> {}]
    /\ baseline = [l \in Labels |-> None]
    /\ seqs = [l \in Labels |-> 0]
    /\ pending = [l \in Labels |-> {}]
    /\ broadcast = None
    /\ updates = 0
    /\ events = [l \in Labels |-> <<>>]
    /\ acks = [l \in Labels |-> {}]
    /\ phase = [l \in Labels |-> "none"]
    /\ resync = [l \in Labels |-> "idle"]
    /\ answer = [l \in Labels |-> None]
    /\ copy = [l \in Labels |-> Nothing]
    /\ lastSeq = [l \in Labels |-> 0]
    /\ excused = {} /\ owed = {} /\ missed = {}

LabelStep(l) ==
    \/ ComputeUpdate(l)
    \/ Subscribe(l) \/ Unsubscribe(l)
    \/ InitialRead(l)
    \/ ResyncDropPending(l) \/ ResyncForget(l) \/ ResyncRead(l) \/ ResyncEnds(l)
    \/ \E id \in acks[l] : Acknowledge(l, id)
    \/ Initialize(l) \/ PublishInitial(l) \/ Attach(l) \/ Destroy(l)
    \/ EventDropped(l) \/ EventReportsGap(l) \/ EventApplied(l)
    \/ OpenWindow(l) \/ ReloadPage(l) \/ CloseWindow(l)

Next ==
    \/ Dispatch
    \/ Emit \/ EmitFails \/ RecordBaseline \/ RecordPending
    \/ \E l \in Labels : LabelStep(l)

Spec == Init /\ [][Next]_vars

-----------------------------------------------------------------------------
TypeOK ==
    /\ store \in States
    /\ changes \in 0..MaxChanges /\ subscribes \in 0..MaxSubscribes
    /\ failures \in 0..MaxFailures /\ clients \in 0..MaxClients
    /\ open \subseteq Labels
    /\ subs \in [Labels -> SUBSET Keys]
    /\ baseline \in [Labels -> States \cup {None}]
    /\ seqs \in [Labels -> Nat]
    /\ updates \in Nat
    /\ pending \in [Labels -> SUBSET (1..updates)]
    /\ broadcast \in Broadcasts \cup {None}
    /\ events \in [Labels -> Seq(Events)]
    /\ acks \in [Labels -> SUBSET (1..updates)]
    /\ phase \in [Labels -> Phases]
    /\ resync \in [Labels -> Resyncs]
    /\ answer \in [Labels -> Answers \cup {None}]
    /\ copy \in [Labels -> States]
    /\ lastSeq \in [Labels -> Nat]
    /\ owed \subseteq Labels /\ missed \subseteq Labels
    /\ excused \subseteq 1..updates

AtRest(l) ==
    /\ ~Locked
    /\ phase[l] = "live" /\ resync[l] = "idle" /\ events[l] = <<>>

(* The copy of a webview that has received what was sent to it agrees with
   the store on the keys it is subscribed to, unless an emission to it failed
   and nothing was broadcast since, or an update passed it by between the
   reading and the arrival of a snapshot.  This is what the order of compute,
   emit and record in broadcast_state_locked, its lock, and the baselines
   that subscribe and a resync forget are for. *)
Converged ==
    \A l \in Labels :
        AtRest(l) /\ l \notin owed \cup missed => View(l, copy[l]) = View(l, store)

(* A webview asks for the whole state only when an emission has failed:
   numbers are consecutive otherwise, through reloads, unchanged views and
   windows that come back (SequenceTracker, handleStateUpdate). *)
NoSpuriousResync ==
    \A l \in Labels : resync[l] # "idle" => failures > 0

(* The registries hold nothing that no event will remove.  When nothing is on
   its way to a webview, the tracker waits for no acknowledgment but those that
   cannot come any more: updates dropped by their webview, lost with a page, or
   acknowledged before they were recorded; those skipped at a gap are dropped by
   the resync.  And forget_label leaves nothing of a window, unless a broadcast
   that had begun before it records its update after it.  The state keeps its
   types. *)
NothingLeft ==
    /\ TypeOK
    /\ \A l \in Labels :
          AtRest(l) /\ acks[l] = {} => pending[l] \subseteq excused
    /\ \A l \in Labels \ (open \cup missed) :
          /\ subs[l] = {} /\ baseline[l] = None /\ pending[l] = {}
          /\ ~Locked => seqs[l] = 0
=============================================================================
