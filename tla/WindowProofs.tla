---------------------------- MODULE WindowProofs ----------------------------
(***************************************************************************)
(* What the main process promises of its windows, for every set of         *)
(* windows, limit of managers, thunks and number of calls and of changes.  *)
(*                                                                         *)
(* The tables of a bridge (WindowResources): a window that is gone leaves  *)
(* nothing in any of them, a subscription nobody has ended is notified,    *)
(* and the limit is kept. The first needs KeptIsHooked: a window goes from *)
(* a table because the listener that removes it was made when it came in,  *)
(* although another table decides whether it is made. The second needs     *)
(* that a window without a manager has no entry (TypeOK).                  *)
(*                                                                         *)
(* The updates that windows acknowledge (StateUpdateTracking):             *)
(* ResolvedIsPropagated does not follow from itself. That no update of a   *)
(* resolved thunk is on its way rests on the tracker knowing every such    *)
(* update (Accounted), on the update having been tracked for the thunk     *)
(* that caused it (Attributed), and on the context being that of the only  *)
(* action in process (OwnContext).                                         *)
(***************************************************************************)
EXTENDS WindowResources, StateUpdateTracking, FiniteSetTheorems, WellFoundedInduction, TLAPS

-----------------------------------------------------------------------------
(* The tables of a bridge *)

ResourcesInv == TypeOK /\ KeptIsHooked /\ GoneLeavesNothing /\ HeldIsNotified

(* The oldest manager is of another window. *)
LEMMA EvictedOthers ==
    ASSUME NEW w \in Windows
    PROVE  Evicted(w) \subseteq Managed \ {w}
BY DEF Evicted, Managed

LEMMA NoManagerType == NoManager \in [since : Nat, entries : SUBSET Entry]
BY DEF NoManager

LEMMA InitResources == Init => ResourcesInv
<1> SUFFICES ASSUME Init PROVE ResourcesInv
  OBVIOUS
<1>1. Managed = {} /\ \A w \in Windows : EntriesOf(w) = {}
  BY DEF Init, CreateResourceManager, Managed, EntriesOf, NoManager
<1>2. manager \in [Windows -> [since : Nat, entries : SUBSET Entry]]
  BY NoManagerType DEF Init, CreateResourceManager
<1>3. TypeOK
  BY <1>1, <1>2 DEF Init, CreateTracker, CreateResourceManager, TypeOK
<1>4. KeptIsHooked /\ GoneLeavesNothing /\ HeldIsNotified
  BY <1>1 DEF Init, CreateTracker, CreateResourceManager, KeptIsHooked,
         GoneLeavesNothing, HeldIsNotified
<1> QED BY <1>3, <1>4 DEF ResourcesInv

LEMMA SubscribeNothingInv ==
    ASSUME ResourcesInv, NEW w \in alive, SubscribeNothing(w)
    PROVE  ResourcesInv'
<1> DEFINE E == Evicted(w)
<1>0. /\ w \in Windows
      /\ E \subseteq Managed \ {w} /\ Managed \subseteq Windows
  BY EvictedOthers DEF ResourcesInv, TypeOK, Managed
<1>1. manager' = [v \in Windows |->
        IF v = w THEN [since |-> IF w \in Managed THEN manager[w].since ELSE subscribes + 1,
                       entries |-> EntriesOf(w)]
        ELSE IF v \in E THEN NoManager ELSE manager[v]]
  BY <1>0 DEF SubscribeNothing, Grown, Without
<1>2. TypeOK'
  BY <1>0, <1>1 DEF ResourcesInv, TypeOK, SubscribeNothing, Prepare, Managed, EntriesOf,
         NoManager, Entry, Handle, HeldBy
<1>3. Managed' = (Managed \ E) \cup {w}
  BY <1>0, <1>1 DEF ResourcesInv, TypeOK, Managed, NoManager
<1>4. KeptIsHooked'
  BY <1>0, <1>3 DEF ResourcesInv, TypeOK, KeptIsHooked, SubscribeNothing, Prepare
<1>5. GoneLeavesNothing'
  BY <1>0, <1>3 DEF ResourcesInv, TypeOK, GoneLeavesNothing, SubscribeNothing, Prepare
<1>6. HeldIsNotified'
  BY <1>0, <1>1 DEF ResourcesInv, TypeOK, HeldIsNotified, SubscribeNothing, Prepare, EntriesOf,
         HeldBy, Handle
<1> QED BY <1>2, <1>4, <1>5, <1>6 DEF ResourcesInv

LEMMA SubscribeEntryInv ==
    ASSUME ResourcesInv, NEW w \in alive, NEW star \in BOOLEAN, SubscribeEntry(w, star)
    PROVE  ResourcesInv'
<1> DEFINE E == Evicted(w)
           entry == [id |-> subscribes + 1, star |-> star]
           handle == [window |-> w, id |-> subscribes + 1]
           entries == (IF star THEN {} ELSE EntriesOf(w)) \cup {entry}
<1>0. /\ w \in Windows
      /\ E \subseteq Managed \ {w} /\ Managed \subseteq Windows
      /\ entry \in Entry /\ entries \subseteq Entry /\ handle \in Handle
  BY EvictedOthers DEF ResourcesInv, TypeOK, Managed, EntriesOf, Entry, Handle
<1>1. manager' = [v \in Windows |->
        IF v = w THEN [since |-> IF w \in Managed THEN manager[w].since ELSE subscribes + 1,
                       entries |-> entries]
        ELSE IF v \in E THEN NoManager ELSE manager[v]]
  BY <1>0 DEF SubscribeEntry, Grown, Without
<1>2. /\ handles' = handles \cup {handle}
      /\ held' = (held \ HeldBy(E \cup IF star THEN {w} ELSE {})) \cup {handle}
  BY DEF SubscribeEntry
<1> HIDE DEF entry, entries, handle, E
<1>4. /\ Managed' = (Managed \ E) \cup {w}
      /\ EntriesOf(w)' = entries
      /\ \A v \in Windows \ (E \cup {w}) : EntriesOf(v)' = EntriesOf(v)
      /\ \A v \in E : EntriesOf(v)' = {}
  BY <1>0, <1>1 DEF ResourcesInv, TypeOK, Managed, NoManager, EntriesOf
<1>3. TypeOK'
  <2>1. manager' \in [Windows -> [since : Nat, entries : SUBSET Entry]]
    <3>1. (IF w \in Managed THEN manager[w].since ELSE subscribes + 1) \in Nat
      BY <1>0 DEF ResourcesInv, TypeOK
    <3> QED BY <1>0, <1>1, <3>1, NoManagerType DEF ResourcesInv, TypeOK
  <2>2. \A v \in Windows \ Managed' : EntriesOf(v)' = {}
    BY <1>0, <1>4 DEF ResourcesInv, TypeOK
  <2>3. handles' \subseteq Handle /\ held' \subseteq handles'
    BY <1>0, <1>2 DEF ResourcesInv, TypeOK, HeldBy
  <2>4. /\ alive' = alive /\ destroyed' = destroyed /\ timer' = timer
        /\ subscribes' = subscribes + 1 /\ tracked' = tracked \cup {w}
        /\ destroySet' = (destroySet \ E) \cup {w} /\ seqs' = seqs \cup {w}
        /\ trackHooks' \in [Windows -> Nat] /\ cleanupHooks' \in [Windows -> Nat]
    BY <1>0 DEF ResourcesInv, TypeOK, SubscribeEntry, Prepare, E
  <2> QED
    BY <1>0, <2>1, <2>2, <2>3, <2>4 DEF ResourcesInv, TypeOK
<1>5. KeptIsHooked'
  BY <1>0, <1>4 DEF ResourcesInv, TypeOK, KeptIsHooked, SubscribeEntry, Prepare, E
<1>6. GoneLeavesNothing'
  BY <1>0, <1>4 DEF ResourcesInv, TypeOK, GoneLeavesNothing, SubscribeEntry, Prepare, E
<1>7. HeldIsNotified'
  <2> SUFFICES ASSUME NEW h \in held'
               PROVE  /\ h.window \in alive' \cap tracked'
                      /\ \E e \in EntriesOf(h.window)' : e.id = h.id
    BY DEF HeldIsNotified
  <2>1. CASE h = handle
    <3>1. h.window = w /\ h.id = entry.id /\ entry \in entries
      BY <2>1 DEF handle, entry, entries
    <3> QED BY <1>0, <1>4, <3>1 DEF SubscribeEntry, Prepare
  <2>2. CASE h # handle
    <3>1. /\ h \in held /\ h.window \in Windows /\ h.window \notin E
          /\ h.window = w => ~star
      BY <1>2, <2>2 DEF ResourcesInv, TypeOK, Handle, HeldBy
    <3>2. /\ h.window \in alive \cap tracked
          /\ \E e \in EntriesOf(h.window) : e.id = h.id
      BY <3>1 DEF ResourcesInv, HeldIsNotified
    <3> QED
      <4>1. EntriesOf(h.window) \subseteq EntriesOf(h.window)'
        BY <1>4, <3>1 DEF entries
      <4>2. h.window \in alive' \cap tracked'
        BY <3>2 DEF SubscribeEntry, Prepare
      <4> QED BY <3>2, <4>1, <4>2
  <2> QED BY <2>1, <2>2
<1> QED BY <1>3, <1>5, <1>6, <1>7 DEF ResourcesInv

LEMMA CallHandleInv ==
    ASSUME ResourcesInv, NEW h \in handles, CallHandle(h)
    PROVE  ResourcesInv'
<1> DEFINE w == h.window
           entries == {e \in EntriesOf(w) : e.id # h.id}
<1>0. h \in Handle /\ w \in Windows /\ entries \subseteq EntriesOf(w)
  BY DEF ResourcesInv, TypeOK, Handle
<1>1. /\ manager' = [manager EXCEPT ![w].entries = entries]
      /\ tracked' \subseteq tracked /\ seqs' \subseteq seqs
      /\ entries # {} => tracked' = tracked
      /\ tracked \ {w} \subseteq tracked'
      /\ held' = held \ {h}
      /\ UNCHANGED <<alive, destroyed, destroySet, hooks, timer, subscribes, handles>>
  BY DEF CallHandle, LetGo, Untrack
<1>2. /\ EntriesOf(w)' = entries
      /\ \A v \in Windows \ {w} : EntriesOf(v)' = EntriesOf(v)
      /\ Managed' = Managed
  BY <1>0, <1>1 DEF ResourcesInv, TypeOK, EntriesOf, Managed
<1>3. TypeOK'
  BY <1>0, <1>1, <1>2 DEF ResourcesInv, TypeOK, EntriesOf, hooks
<1>4. KeptIsHooked' /\ GoneLeavesNothing'
  BY <1>1, <1>2 DEF ResourcesInv, KeptIsHooked, GoneLeavesNothing, hooks
<1>5. HeldIsNotified'
  <2> SUFFICES ASSUME NEW g \in held \ {h}
               PROVE  /\ g.window \in alive' \cap tracked'
                      /\ \E e \in EntriesOf(g.window)' : e.id = g.id
    BY <1>1 DEF HeldIsNotified
  <2>1. /\ g \in Handle /\ g.window \in Windows
        /\ g.window \in alive \cap tracked
        /\ \E e \in EntriesOf(g.window) : e.id = g.id
    BY DEF ResourcesInv, TypeOK, HeldIsNotified, Handle
  <2>2. g.window = w => g.id # h.id
    BY <1>0, <2>1 DEF Handle
  <2> QED BY <1>1, <1>2, <2>1, <2>2
<1> QED BY <1>3, <1>4, <1>5 DEF ResourcesInv

LEMMA UnsubscribeInv ==
    ASSUME ResourcesInv, NEW w \in Windows, NEW gone \in SUBSET EntriesOf(w), Unsubscribe(w, gone)
    PROVE  ResourcesInv'
<1>1. CASE EntriesOf(w) \subseteq gone
  <2>1. /\ manager' = Without({w})
        /\ destroySet' = IF w \in Managed THEN destroySet \ {w} ELSE destroySet
        /\ tracked' = tracked \ {w}
        /\ seqs' = IF w \in Managed THEN seqs \ {w} ELSE seqs
        /\ held' = held \ {[window |-> w, id |-> e.id] : e \in gone}
        /\ UNCHANGED <<alive, destroyed, hooks, timer, subscribes, handles>>
    BY <1>1 DEF Unsubscribe, Untrack
  <2>2. Managed' = Managed \ {w} /\ \A v \in Windows \ {w} : EntriesOf(v)' = EntriesOf(v)
    BY <2>1 DEF Without, Managed, NoManager, EntriesOf
  <2>3. TypeOK'
    BY <2>1, <2>2 DEF ResourcesInv, TypeOK, Without, NoManager, hooks, Managed, EntriesOf
  <2>4. KeptIsHooked' /\ GoneLeavesNothing'
    BY <2>1, <2>2 DEF ResourcesInv, KeptIsHooked, GoneLeavesNothing, hooks
  <2>5. HeldIsNotified'
    <3> SUFFICES ASSUME NEW g \in held'
                 PROVE  /\ g.window \in alive' \cap tracked'
                        /\ \E e \in EntriesOf(g.window)' : e.id = g.id
      BY DEF HeldIsNotified
    <3>1. /\ g \in Handle /\ g.window \in Windows
          /\ g.window \in alive \cap tracked
          /\ \E e \in EntriesOf(g.window) : e.id = g.id
      BY <2>1 DEF ResourcesInv, TypeOK, HeldIsNotified, Handle
    <3>2. g.window # w
      <4> SUFFICES ASSUME g.window = w PROVE FALSE
        OBVIOUS
      <4>1. PICK e \in EntriesOf(w) : e.id = g.id
        BY <3>1
      <4>2. g = [window |-> w, id |-> e.id]
        BY <3>1, <4>1 DEF Handle
      <4> QED BY <1>1, <2>1, <4>1, <4>2
    <3> QED BY <2>1, <2>2, <3>1, <3>2
  <2> QED BY <2>3, <2>4, <2>5 DEF ResourcesInv
<1>2. CASE ~(EntriesOf(w) \subseteq gone)
  <2>1. /\ manager' = [manager EXCEPT ![w].entries = @ \ gone]
        /\ held' = held \ {[window |-> w, id |-> e.id] : e \in gone}
        /\ UNCHANGED <<alive, destroyed, destroySet, tracked, seqs, hooks, timer,
                       subscribes,
                       handles>>
    BY <1>2 DEF Unsubscribe
  <2>2. /\ Managed' = Managed /\ EntriesOf(w)' = EntriesOf(w) \ gone
        /\ \A v \in Windows \ {w} : EntriesOf(v)' = EntriesOf(v)
    BY <2>1 DEF Managed, EntriesOf, ResourcesInv, TypeOK
  <2>3. TypeOK'
    BY <2>1, <2>2 DEF ResourcesInv, TypeOK, hooks, EntriesOf
  <2>4. KeptIsHooked' /\ GoneLeavesNothing'
    BY <2>1, <2>2 DEF ResourcesInv, KeptIsHooked, GoneLeavesNothing, hooks
  <2>5. HeldIsNotified'
    <3> SUFFICES ASSUME NEW g \in held'
                 PROVE  /\ g.window \in alive' \cap tracked'
                        /\ \E e \in EntriesOf(g.window)' : e.id = g.id
      BY DEF HeldIsNotified
    <3>1. /\ g \in Handle /\ g.window \in Windows
          /\ g.window \in alive \cap tracked
          /\ \E e \in EntriesOf(g.window) : e.id = g.id
      BY <2>1 DEF ResourcesInv, TypeOK, HeldIsNotified, Handle
    <3>2. CASE g.window # w
      BY <2>1, <2>2, <3>1, <3>2
    <3>3. CASE g.window = w
      <4>1. PICK e \in EntriesOf(w) : e.id = g.id
        BY <3>1, <3>3
      <4>2. g = [window |-> w, id |-> e.id]
        BY <3>1, <3>3, <4>1 DEF Handle
      <4>3. e \notin gone
        BY <2>1, <4>2
      <4> QED BY <2>1, <2>2, <3>1, <3>3, <4>1, <4>3
    <3> QED BY <3>2, <3>3
  <2> QED BY <2>3, <2>4, <2>5 DEF ResourcesInv
<1> QED BY <1>1, <1>2

LEMMA ClearInv ==
    ASSUME ResourcesInv, UnsubscribeAll \/ DestroyBridge
    PROVE  ResourcesInv'
<1>1. /\ manager' = [w \in Windows |-> NoManager]
      /\ tracked' = {} /\ destroySet' = {} /\ held' = {} /\ timer' = FALSE
      /\ seqs' \subseteq seqs /\ destroyed' \in {destroyed, TRUE}
      /\ UNCHANGED <<alive, hooks, subscribes, handles>>
  BY DEF UnsubscribeAll, DestroyBridge, ClearAll, CleanupTracker, Without
<1>2. Managed' = {} /\ \A w \in Windows : EntriesOf(w)' = {}
  BY <1>1 DEF Managed, EntriesOf, NoManager
<1>3. manager' \in [Windows -> [since : Nat, entries : SUBSET Entry]]
  BY <1>1, NoManagerType
<1>4. TypeOK'
  BY <1>1, <1>2, <1>3 DEF ResourcesInv, TypeOK, hooks
<1>5. KeptIsHooked' /\ GoneLeavesNothing' /\ HeldIsNotified'
  BY <1>1, <1>2 DEF ResourcesInv, KeptIsHooked, GoneLeavesNothing, HeldIsNotified, hooks
<1> QED BY <1>4, <1>5 DEF ResourcesInv

LEMMA NotifyInv ==
    ASSUME ResourcesInv, Notify
    PROVE  ResourcesInv'
<1>1. PICK sent \in SUBSET {w \in tracked \cap alive : EntriesOf(w) # {}} :
        seqs' = seqs \cup sent
  BY DEF Notify, ActiveWebContents, IsDestroyed
<1>2. /\ tracked' = tracked \cap alive
      /\ UNCHANGED <<alive, destroyed, manager, destroySet, hooks, timer, subscribes,
                     handles,
                     held>>
  BY DEF Notify, ActiveWebContents, IsDestroyed
<1>3. Managed' = Managed /\ \A w : EntriesOf(w)' = EntriesOf(w)
  BY <1>2 DEF Managed, EntriesOf
<1>4. TypeOK'
  BY <1>1, <1>2, <1>3 DEF ResourcesInv, TypeOK, hooks
<1>5. KeptIsHooked' /\ GoneLeavesNothing' /\ HeldIsNotified'
  BY <1>1, <1>2, <1>3 DEF ResourcesInv, TypeOK, KeptIsHooked, GoneLeavesNothing, HeldIsNotified,
         hooks
<1> QED BY <1>4, <1>5 DEF ResourcesInv

LEMMA WindowDestroyedInv ==
    ASSUME ResourcesInv, NEW w \in Windows, WindowDestroyed(w)
    PROVE  ResourcesInv'
<1>1. /\ alive' = alive \ {w} /\ w \notin tracked' /\ tracked' = tracked \ {w}
      /\ UNCHANGED <<destroyed, hooks, timer, subscribes, handles>>
      /\ held' = held \ HeldBy({w})
  BY DEF WindowDestroyed, ResourcesInv, KeptIsHooked
<1>2. /\ manager' = Without({w})
      /\ destroySet' = destroySet \ {w} /\ seqs' = seqs \ {w}
  <2>1. CASE cleanupHooks[w] > 0
    BY <2>1 DEF WindowDestroyed
  <2>2. CASE ~(cleanupHooks[w] > 0)
    <3>1. w \notin Managed \cup destroySet \cup seqs
      BY <2>2 DEF ResourcesInv, KeptIsHooked
    <3>2. manager[w] = NoManager
      BY <3>1 DEF ResourcesInv, TypeOK, Managed, EntriesOf, NoManager
    <3>3. manager = Without({w})
      BY <3>2 DEF ResourcesInv, TypeOK, Without
    <3> QED BY <2>2, <3>1, <3>3 DEF WindowDestroyed
  <2> QED BY <2>1, <2>2
<1>3. Managed' = Managed \ {w} /\ \A v \in Windows \ {w} : EntriesOf(v)' = EntriesOf(v)
  BY <1>2 DEF Without, Managed, NoManager, EntriesOf
<1>4. TypeOK'
  BY <1>1, <1>2, <1>3 DEF ResourcesInv, TypeOK, Without, NoManager, hooks, Managed, EntriesOf,
         HeldBy
<1>5. KeptIsHooked' /\ GoneLeavesNothing'
  BY <1>1, <1>2, <1>3 DEF ResourcesInv, KeptIsHooked, GoneLeavesNothing, hooks
<1>6. HeldIsNotified'
  BY <1>1, <1>3 DEF ResourcesInv, TypeOK, HeldIsNotified, HeldBy, Handle
<1> QED BY <1>4, <1>5, <1>6 DEF ResourcesInv

LEMMA PeriodicCleanupInv ==
    ASSUME ResourcesInv, PeriodicCleanup
    PROVE  ResourcesInv'
<1> DEFINE active == IF ActiveWebContents = {} THEN alive ELSE ActiveWebContents
           stale == Managed \ active
<1>0. ActiveWebContents = tracked \cap alive
  BY DEF ActiveWebContents, IsDestroyed
<1>1. /\ tracked' = tracked \cap alive
      /\ manager' = Without(stale) /\ destroySet' = destroySet \ stale
      /\ UNCHANGED <<alive, destroyed, hooks, seqs, timer, subscribes, handles, held>>
  BY <1>0 DEF PeriodicCleanup
<1>2. stale \cap tracked \cap alive = {}
  BY <1>0
<1> HIDE DEF stale
<1>3. Managed' = Managed \ stale /\ \A v \in Windows \ stale : EntriesOf(v)' = EntriesOf(v)
  BY <1>1 DEF Without, Managed, NoManager, EntriesOf
<1>4. TypeOK'
  BY <1>1, <1>3 DEF ResourcesInv, TypeOK, Without, NoManager, hooks, Managed, EntriesOf
<1>5. KeptIsHooked' /\ GoneLeavesNothing'
  BY <1>1, <1>3 DEF ResourcesInv, KeptIsHooked, GoneLeavesNothing, hooks
<1>6. HeldIsNotified'
  BY <1>1, <1>2, <1>3 DEF ResourcesInv, TypeOK, HeldIsNotified, Handle
<1> QED BY <1>4, <1>5, <1>6 DEF ResourcesInv

LEMMA NextResources == ResourcesInv /\ [Next]_vars => ResourcesInv'
<1> SUFFICES ASSUME ResourcesInv, [Next]_vars PROVE ResourcesInv'
  OBVIOUS
<1>1. CASE \E w \in Windows : Subscribe(w)
  BY <1>1, SubscribeNothingInv, SubscribeEntryInv DEF Subscribe,
         IsDestroyed
<1>2. CASE \E w \in Windows : \E gone \in Endings(w) : Unsubscribe(w, gone)
  <2>1. PICK w \in Windows : \E gone \in Endings(w) : Unsubscribe(w, gone)
    BY <1>2
  <2>2. PICK gone \in Endings(w) : Unsubscribe(w, gone)
    BY <2>1
  <2>3. gone \in SUBSET EntriesOf(w)
    BY <2>2 DEF Endings
  <2> QED BY <2>2, <2>3, UnsubscribeInv
<1>3. CASE \E w \in Windows : WindowDestroyed(w)
  BY <1>3, WindowDestroyedInv
<1>4. CASE \E h \in handles : CallHandle(h)
  BY <1>4, CallHandleInv
<1>5. CASE UnsubscribeAll \/ DestroyBridge
  BY <1>5, ClearInv
<1>6. CASE Notify
  BY <1>6, NotifyInv
<1>7. CASE PeriodicCleanup
  BY <1>7, PeriodicCleanupInv
<1>8. CASE UNCHANGED vars
  BY <1>8 DEF ResourcesInv, TypeOK, KeptIsHooked, GoneLeavesNothing, HeldIsNotified, vars,
         tables, hooks, Managed, EntriesOf
<1> QED BY <1>1, <1>2, <1>3, <1>4, <1>5, <1>6, <1>7, <1>8 DEF Next

(* The inductive invariant holds in every behaviour. *)
THEOREM ResourcesInvariant == Spec => []ResourcesInv
BY InitResources, NextResources, PTL DEF Spec

(* Every table holds windows, and entries only under a manager. *)
THEOREM ResourcesTypes == Spec => []TypeOK
<1>1. ResourcesInv => TypeOK
  BY DEF ResourcesInv
<1> QED BY <1>1, ResourcesInvariant, PTL

(* A window that was destroyed is in no table of the bridge, whatever was
   subscribed, unsubscribed, evicted and swept before. *)
THEOREM NothingOfTheGone == Spec => []GoneLeavesNothing
<1>1. ResourcesInv => GoneLeavesNothing
  BY DEF ResourcesInv
<1> QED BY <1>1, ResourcesInvariant, PTL

(* A subscription that nobody has ended has its entry, and its window is alive
   and tracked. *)
THEOREM HeldAreNotified == Spec => []HeldIsNotified
<1>1. ResourcesInv => HeldIsNotified
  BY DEF ResourcesInv
<1> QED BY <1>1, ResourcesInvariant, PTL
-----------------------------------------------------------------------------
(* The limit of managers.  It holds since somebody is evicted whenever it is
   reached: there is an oldest manager. *)
LimitInv == ResourcesInv /\ IsFiniteSet(Managed) /\ WithinLimit

LEMMA SomebodyIsEvicted ==
    ASSUME TypeOK, NEW w \in Windows \ Managed, Cardinality(Managed) >= MaxManagers,
           IsFiniteSet(Managed)
    PROVE  Evicted(w) # {}
<1> DEFINE ages == {manager[m].since : m \in Managed}
<1>1. Managed # {} /\ Managed \subseteq Windows
  <2>1. Cardinality({}) = 0 /\ MaxManagers \in Nat \ {0}
    BY FS_EmptySet, ResourcesAssumption
  <2> QED BY <2>1 DEF Managed
<1>2. ages \subseteq Nat /\ ages # {}
  BY <1>1 DEF TypeOK
<1> HIDE DEF ages
<1>3. PICK least \in ages : \A age \in ages : <<age, least>> \notin OpToRel(<, Nat)
  BY <1>2, NatLessThanWellFounded, WFMin
<1>4. \A age \in ages : least <= age
  <2> SUFFICES ASSUME NEW age \in ages PROVE least <= age
    OBVIOUS
  <2>1. <<age, least>> \notin {pair \in Nat \X Nat : pair[1] < pair[2]}
    BY <1>3 DEF OpToRel
  <2> QED BY <1>2, <2>1
<1>5. PICK o \in Managed : manager[o].since = least
  BY DEF ages
<1>6. \A m \in Managed : manager[o].since <= manager[m].since
  BY <1>4, <1>5 DEF ages
<1>7. Cardinality(Managed) \in Nat /\ MaxManagers \in Nat
  BY FS_CardinalityType, ResourcesAssumption
<1> QED BY <1>6, <1>7 DEF Evicted

LEMMA RoomForOne ==
    ASSUME LimitInv, NEW w \in Windows
    PROVE  /\ IsFiniteSet((Managed \ Evicted(w)) \cup {w})
           /\ Cardinality((Managed \ Evicted(w)) \cup {w}) <= MaxManagers
<1> DEFINE kept == Managed \ Evicted(w)
<1>0. /\ IsFiniteSet(Managed) /\ Cardinality(Managed) \in Nat
      /\ Cardinality(Managed) <= MaxManagers /\ MaxManagers \in Nat
  BY FS_CardinalityType, ResourcesAssumption DEF LimitInv, WithinLimit
<1>1. /\ IsFiniteSet(kept) /\ Cardinality(kept) \in Nat
      /\ Cardinality(kept) <= Cardinality(Managed)
      /\ Cardinality(kept) = Cardinality(Managed) => Managed = kept
  BY <1>0, FS_Subset, FS_CardinalityType
<1>2. /\ IsFiniteSet(kept \cup {w})
      /\ Cardinality(kept \cup {w}) =
            IF w \in kept THEN Cardinality(kept) ELSE Cardinality(kept) + 1
  BY <1>1, FS_AddElement
<1>3. CASE w \in Managed
  BY <1>0, <1>1, <1>2, <1>3 DEF Evicted
<1>4. CASE w \notin Managed /\ Cardinality(Managed) < MaxManagers
  BY <1>0, <1>1, <1>2, <1>4
<1>5. CASE w \notin Managed /\ Cardinality(Managed) >= MaxManagers
  <2>1. Evicted(w) # {} /\ Evicted(w) \subseteq Managed
    BY <1>0, <1>5, SomebodyIsEvicted, EvictedOthers DEF LimitInv, ResourcesInv
  <2> QED BY <1>0, <1>1, <1>2, <1>5, <2>1
<1> QED BY <1>0, <1>3, <1>4, <1>5

(* Everything but a subscription takes managers away, and their windows from
   the set. *)
LEMMA FewerStayWithin ==
    ASSUME LimitInv, NEW gone, Managed' = Managed \ gone, destroySet' = destroySet \ gone
    PROVE  IsFiniteSet(Managed') /\ WithinLimit'
<1>1. /\ IsFiniteSet(Managed \ gone) /\ Cardinality(Managed \ gone) \in Nat
      /\ Cardinality(Managed \ gone) <= Cardinality(Managed)
  BY FS_Subset, FS_CardinalityType DEF LimitInv
<1>2. Cardinality(Managed) \in Nat /\ MaxManagers \in Nat
  BY FS_CardinalityType, ResourcesAssumption DEF LimitInv
<1> QED BY <1>1, <1>2 DEF LimitInv, WithinLimit

LEMMA SubscribeWithin ==
    ASSUME LimitInv, NEW w \in Windows, Subscribe(w)
    PROVE  IsFiniteSet(Managed') /\ WithinLimit'
<1> DEFINE since == IF w \in Managed THEN manager[w].since ELSE subscribes + 1
<1>1. /\ Evicted(w) \subseteq Managed \ {w} /\ Managed \subseteq Windows
      /\ since > 0
  BY EvictedOthers DEF LimitInv, ResourcesInv, TypeOK, Managed
<1>2. PICK entries : manager' = Grown(w, entries)
  BY DEF Subscribe, SubscribeNothing, SubscribeEntry
<1>3. manager' = [v \in Windows |->
        IF v = w THEN [since |-> since, entries |-> entries]
        ELSE IF v \in Evicted(w) THEN NoManager ELSE manager[v]]
  BY <1>2 DEF Grown, Without
<1> HIDE DEF since
<1>4. Managed' = (Managed \ Evicted(w)) \cup {w}
  BY <1>1, <1>3 DEF Managed, NoManager
<1>5. destroySet' = (destroySet \ Evicted(w)) \cup {w}
  BY DEF Subscribe, SubscribeNothing, SubscribeEntry, Prepare
<1> QED BY <1>4, <1>5, RoomForOne DEF LimitInv, WithinLimit

LEMMA UnsubscribeWithin ==
    ASSUME LimitInv, NEW w \in Windows, NEW gone \in Endings(w), Unsubscribe(w, gone)
    PROVE  IsFiniteSet(Managed') /\ WithinLimit'
<1>1. CASE EntriesOf(w) \subseteq gone
  <2>1. manager' = Without({w}) /\ destroySet' = destroySet \ {w}
    BY <1>1 DEF Unsubscribe, LimitInv, WithinLimit
  <2>2. Managed' = Managed \ {w}
    BY <2>1 DEF Without, Managed, NoManager
  <2> QED BY <2>1, <2>2, FewerStayWithin
<1>2. CASE ~(EntriesOf(w) \subseteq gone)
  <2>1. manager' = [manager EXCEPT ![w].entries = @ \ gone] /\ destroySet' = destroySet \ {}
    BY <1>2 DEF Unsubscribe
  <2>2. Managed' = Managed \ {}
    BY <2>1 DEF Managed, LimitInv, ResourcesInv, TypeOK
  <2> QED BY <2>1, <2>2, FewerStayWithin
<1> QED BY <1>1, <1>2

LEMMA LimitStep == LimitInv /\ [Next]_vars => LimitInv'
<1> SUFFICES ASSUME LimitInv, [Next]_vars PROVE LimitInv'
  OBVIOUS
<1>0. ResourcesInv'
  BY NextResources DEF LimitInv
<1>1. CASE \E w \in Windows : Subscribe(w)
  BY <1>0, <1>1, SubscribeWithin DEF LimitInv
<1>2. CASE \E w \in Windows : \E gone \in Endings(w) : Unsubscribe(w, gone)
  BY <1>0, <1>2, UnsubscribeWithin DEF LimitInv
<1>3. CASE \E w \in Windows : WindowDestroyed(w)
  <2>1. PICK w \in Windows : WindowDestroyed(w)
    BY <1>3
  <2>2. CASE cleanupHooks[w] > 0
    <3>1. manager' = Without({w}) /\ destroySet' = destroySet \ {w}
      BY <2>1, <2>2 DEF WindowDestroyed
    <3>2. Managed' = Managed \ {w}
      BY <3>1 DEF Without, Managed, NoManager
    <3> QED BY <1>0, <3>1, <3>2, FewerStayWithin DEF LimitInv
  <2>3. CASE ~(cleanupHooks[w] > 0)
    <3>1. manager' = manager /\ destroySet' = destroySet \ {}
      BY <2>1, <2>3 DEF WindowDestroyed
    <3>2. Managed' = Managed \ {}
      BY <3>1 DEF Managed
    <3> QED BY <1>0, <3>1, <3>2, FewerStayWithin DEF LimitInv
  <2> QED BY <2>2, <2>3
<1>4. CASE \E h \in handles : CallHandle(h)
  <2>1. PICK h \in handles : CallHandle(h)
    BY <1>4
  <2>2. /\ manager' = [manager EXCEPT ![h.window].entries =
                          {e \in EntriesOf(h.window) : e.id # h.id}]
        /\ destroySet' = destroySet \ {}
    BY <2>1 DEF CallHandle
  <2>3. Managed' = Managed \ {}
    BY <2>2 DEF Managed, LimitInv, ResourcesInv, TypeOK
  <2> QED BY <1>0, <2>2, <2>3, FewerStayWithin DEF LimitInv
<1>5. CASE UnsubscribeAll \/ DestroyBridge
  <2>1. manager' = Without(Windows) /\ destroySet' = destroySet \ Windows
    BY <1>5 DEF UnsubscribeAll, DestroyBridge, ClearAll, LimitInv, ResourcesInv, TypeOK
  <2>2. Managed' = Managed \ Windows
    BY <2>1 DEF Without, Managed, NoManager
  <2> QED BY <1>0, <2>1, <2>2, FewerStayWithin DEF LimitInv
<1>6. CASE Notify
  <2>1. manager' = manager /\ destroySet' = destroySet \ {}
    BY <1>6 DEF Notify
  <2>2. Managed' = Managed \ {}
    BY <2>1 DEF Managed
  <2> QED BY <1>0, <2>1, <2>2, FewerStayWithin DEF LimitInv
<1>7. CASE PeriodicCleanup
  <2>1. PICK stale : manager' = Without(stale) /\ destroySet' = destroySet \ stale
    BY <1>7 DEF PeriodicCleanup
  <2>2. Managed' = Managed \ stale
    BY <2>1 DEF Without, Managed, NoManager
  <2> QED BY <1>0, <2>1, <2>2, FewerStayWithin DEF LimitInv
<1>8. CASE UNCHANGED vars
  BY <1>0, <1>8 DEF LimitInv, WithinLimit, vars, tables, Managed
<1> QED BY <1>1, <1>2, <1>3, <1>4, <1>5, <1>6, <1>7, <1>8 DEF Next

LEMMA LimitInit == Init => LimitInv
<1> SUFFICES ASSUME Init PROVE LimitInv
  OBVIOUS
<1>1. Managed = {} /\ destroySet = {}
  BY DEF Init, CreateResourceManager, Managed, NoManager
<1> QED BY <1>1, InitResources, FS_EmptySet, ResourcesAssumption DEF LimitInv, WithinLimit

(* However many windows subscribe, the bridge keeps at most MaxManagers
   managers, each of them in the set of windows with a destroy listener. *)
THEOREM ManagersAreFew == Spec => []WithinLimit
<1>1. LimitInv => WithinLimit
  BY DEF LimitInv
<1> QED BY <1>1, LimitInit, LimitStep, PTL DEF Spec

-----------------------------------------------------------------------------
(* The updates windows acknowledge *)

(* A program runs as long as its thunk executes; a cleanup is only scheduled
   for a thunk that has ended. *)
InStep ==
    \A t \in Thunks :
        /\ program[t] = "running" <=> thunkState[t] = "executing"
        /\ program[t] = "idle" => thunkState[t] = "absent"
        /\ t \in cleanup => program[t] \notin {"idle", "running"}

(* An action that has met no other is the one that is processed, and the
   context is its thunk's. *)
OwnContext ==
    \A t \in processing \ overlapped : processing = {t} /\ context = t

(* The updates a thunk caused are tracked for it. *)
Attributed ==
    \A u \in wire : u.cause \in Thunks \ overlapped => u.thunk = u.cause

(* A tracked update on its way is pending, expired, or has lost its window. *)
Accounted ==
    \A u \in wire : u.thunk # None => u \in pending \cup old \/ u.window \notin live

(* A resolved promise has no pending update. *)
NothingPending ==
    \A t \in Thunks : program[t] = "resolved" => ~HasPendingStateUpdates(t, pending)

TrackingInv ==
    /\ TrackingTypeOK /\ InStep
    /\ OwnContext /\ Attributed /\ Accounted /\ NothingPending
    /\ NoEntryLeftBehind /\ NoDeadRendererAwaited

USE DEF Executing, HasPendingStateUpdates

-----------------------------------------------------------------------------
(* The updates that a change sends are of the type, as those tracked are. *)
LEMMA ChangeTypes ==
    ASSUME TrackingTypeOK, NEW ws \in SUBSET live, NEW thunk \in Thunks \cup {None},
           NEW cause \in Thunks \cup {None}, Change(ws, thunk, cause)
    PROVE  /\ pending' \subseteq {u \in Updates : u.thunk # None}
           /\ wire' \subseteq Updates
           /\ sends' \in 0..MaxSends
           /\ old' = old /\ live' = live
           /\ \A u \in wire' \ wire :
                 u.thunk = thunk /\ u.cause = cause /\ u.window \in live
           /\ \A u \in wire' \ wire : thunk # None => u \in pending'
           /\ \A u \in pending' \ pending :
                 thunk # None /\ u.thunk = thunk /\ u.window \in live
           /\ pending \subseteq pending'
  BY TrackingAssumption DEF Change, TrackingTypeOK, Updates

(* A change preserves what is not about the actions in process, if it is sent
   for a thunk that runs or for none. *)
LEMMA ChangePreserves ==
    ASSUME TrackingInv, NEW ws \in SUBSET live, NEW thunk \in Thunks \cup {None},
           NEW cause \in Thunks \cup {None}, Change(ws, thunk, cause),
           thunk # None => program[thunk] = "running",
           cause \in Thunks \ overlapped' => thunk = cause,
           overlapped \subseteq overlapped',
           UNCHANGED <<lifecycle, program>>
    PROVE  InStep' /\ Attributed' /\ Accounted' /\ NothingPending'
             /\ NoEntryLeftBehind' /\ NoDeadRendererAwaited'
<1> USE DEF TrackingInv
<1>1. TrackingTypeOK
  OBVIOUS
<1>2. /\ wire' \subseteq Updates
      /\ old' = old /\ live' = live
      /\ \A u \in wire' \ wire :
            u.thunk = thunk /\ u.cause = cause /\ u.window \in live
      /\ \A u \in wire' \ wire : thunk # None => u \in pending'
      /\ \A u \in pending' \ pending :
            thunk # None /\ u.thunk = thunk /\ u.window \in live
      /\ pending \subseteq pending'
  BY <1>1, ChangeTypes
<1>3. InStep'
  BY DEF InStep, lifecycle
<1>4. Attributed'
  BY <1>2 DEF Attributed
<1>5. Accounted'
  BY <1>2 DEF Accounted
<1>6. NothingPending'
  BY <1>2 DEF NothingPending
<1>7. NoEntryLeftBehind'
  BY <1>2 DEF NoEntryLeftBehind, lifecycle
<1>8. NoDeadRendererAwaited'
  BY <1>2 DEF NoDeadRendererAwaited
<1> QED
  BY <1>3, <1>4, <1>5, <1>6, <1>7, <1>8

(* What remains of the pending updates, and what a sweep of them leaves. *)
LEMMA SweepPreserves ==
    ASSUME TrackingInv, NEW updates, updates \subseteq pending,
           Sweep(thunkState', updates),
           \A t \in Thunks : thunkState'[t] = thunkState[t]
                             \/ (program[t] = "running" /\ thunkState'[t] = "completed"),
           \A t \in Thunks : thunkState'[t] = "completed" => program'[t] \notin {"idle", "running"}
    PROVE  /\ pending' \subseteq {u \in Updates : u.thunk # None}
           /\ cleanup' \subseteq Thunks
           /\ NoEntryLeftBehind'
           /\ \A t \in cleanup' \ cleanup : program'[t] \notin {"idle", "running"}
  BY DEF Sweep, TrackingInv, TrackingTypeOK, NoEntryLeftBehind

-----------------------------------------------------------------------------
LEMMA InitInvariant == TrackingInit => TrackingInv
  BY TrackingAssumption DEF TrackingInit, TrackingInv, TrackingTypeOK, InStep, OwnContext,
         Attributed, Accounted, NothingPending, NoEntryLeftBehind, NoDeadRendererAwaited

LEMMA NextInvariant == TrackingInv /\ [TrackingNext]_trackingVars => TrackingInv'
<1> SUFFICES ASSUME TrackingInv, [TrackingNext]_trackingVars PROVE TrackingInv'
  OBVIOUS
<1>0. TrackingTypeOK /\ InStep /\ OwnContext /\ Attributed /\ Accounted /\ NothingPending
        /\ NoEntryLeftBehind /\ NoDeadRendererAwaited
  BY DEF TrackingInv
<1>1. ASSUME NEW t \in Thunks, ThunkStarts(t) PROVE TrackingInv'
  <2>1. TrackingTypeOK'
    BY <1>0, <1>1 DEF TrackingTypeOK, ThunkStarts, tracker, windows
  <2>2. InStep'
    BY <1>0, <1>1 DEF TrackingTypeOK, InStep, ThunkStarts
  <2>3. OwnContext' /\ Attributed' /\ Accounted'
    BY <1>0, <1>1 DEF OwnContext, Attributed, Accounted, ThunkStarts, tracker, windows
  <2>4. NothingPending'
    BY <1>0, <1>1 DEF TrackingTypeOK, NothingPending, ThunkStarts, tracker
  <2>5. NoEntryLeftBehind' /\ NoDeadRendererAwaited'
    BY <1>0, <1>1 DEF TrackingTypeOK, NoEntryLeftBehind, NoDeadRendererAwaited, ThunkStarts,
           tracker, windows
  <2> QED
    BY <2>1, <2>2, <2>3, <2>4, <2>5 DEF TrackingInv
<1>2. ASSUME NEW t \in Thunks, NEW ws \in SUBSET live, ExecuteSync(t, ws) PROVE TrackingInv'
  <2>1. Change(ws, t, t) /\ program[t] = "running" /\ UNCHANGED <<lifecycle, program>>
          /\ overlapped \subseteq overlapped'
    BY <1>2 DEF ExecuteSync
  <2>2. InStep' /\ Attributed' /\ Accounted' /\ NothingPending'
          /\ NoEntryLeftBehind' /\ NoDeadRendererAwaited'
    BY <2>1, ChangePreserves
  <2>3. TrackingTypeOK'
    BY <1>0, <1>2, <2>1, ChangeTypes DEF TrackingTypeOK, ExecuteSync, lifecycle
  <2>4. OwnContext'
    BY <1>0, <1>2 DEF OwnContext, ExecuteSync
  <2> QED
    BY <2>2, <2>3, <2>4 DEF TrackingInv
<1>3. ASSUME NEW t \in Thunks, NEW ws \in SUBSET live, AsyncChange(t, ws) PROVE TrackingInv'
  <2>1. Change(ws, context, t) /\ UNCHANGED <<lifecycle, program>>
          /\ overlapped' = overlapped /\ context' = context /\ processing' = processing
    BY <1>3 DEF AsyncChange, execution
  <2>2. context \in Thunks \cup {None} /\ (context # None => program[context] = "running")
    BY <1>0 DEF TrackingTypeOK, InStep
  <2>3. t \notin overlapped => context = t
    BY <1>0, <1>3 DEF OwnContext, AsyncChange
  <2>4. InStep' /\ Attributed' /\ Accounted' /\ NothingPending'
          /\ NoEntryLeftBehind' /\ NoDeadRendererAwaited'
    BY <2>1, <2>2, <2>3, ChangePreserves
  <2>5. TrackingTypeOK'
    BY <1>0, <2>1, <2>2, ChangeTypes DEF TrackingTypeOK, lifecycle
  <2>6. OwnContext'
    BY <1>0, <2>1 DEF OwnContext
  <2> QED
    BY <2>4, <2>5, <2>6 DEF TrackingInv
<1>4. ASSUME NEW t \in Thunks, ExecuteAsync(t) PROVE TrackingInv'
  <2>1. TrackingTypeOK'
    BY <1>0, <1>4 DEF TrackingTypeOK, InStep, ExecuteAsync, lifecycle, tracker, windows
  <2>2. OwnContext'
    BY <1>0, <1>4 DEF OwnContext, ExecuteAsync
  <2>3. InStep' /\ NothingPending' /\ NoEntryLeftBehind' /\ NoDeadRendererAwaited'
    BY <1>0, <1>4 DEF InStep, NothingPending, NoEntryLeftBehind, NoDeadRendererAwaited,
           ExecuteAsync, lifecycle, tracker, windows
  <2>4. Attributed' /\ Accounted'
    BY <1>0, <1>4 DEF Attributed, Accounted, ExecuteAsync, tracker, windows
  <2> QED
    BY <2>1, <2>2, <2>3, <2>4 DEF TrackingInv
<1>5. ASSUME NEW t \in Thunks, AsyncCompletes(t) PROVE TrackingInv'
  <2>1. TrackingTypeOK'
    BY <1>0, <1>5 DEF TrackingTypeOK, AsyncCompletes, lifecycle, tracker, windows
  <2>2. OwnContext'
    BY <1>0, <1>5 DEF OwnContext, AsyncCompletes
  <2>3. InStep' /\ NothingPending' /\ NoEntryLeftBehind' /\ NoDeadRendererAwaited'
    BY <1>0, <1>5 DEF InStep, NothingPending, NoEntryLeftBehind, NoDeadRendererAwaited,
           AsyncCompletes, lifecycle, tracker, windows
  <2>4. Attributed' /\ Accounted'
    BY <1>0, <1>5 DEF Attributed, Accounted, AsyncCompletes, tracker, windows
  <2> QED
    BY <2>1, <2>2, <2>3, <2>4 DEF TrackingInv
<1>6. ASSUME NEW t \in Thunks, BodyReturns(t) PROVE TrackingInv'
  <2>1. /\ Sweep(thunkState', Unexpired) /\ Unexpired \subseteq pending
        /\ thunkState' = [thunkState EXCEPT ![t] = "completed"]
        /\ program[t] = "running" /\ t \notin processing
        /\ pending' = pending \ old
        /\ UNCHANGED <<context, processing, overlapped, old, windows>>
    BY <1>6 DEF BodyReturns, CleanupExpired, Sweep, Unexpired
  <2>2. program' = [program EXCEPT ![t] =
            IF HasPendingStateUpdates(t, pending') THEN "waiting" ELSE "resolved"]
    BY <1>6, <2>1 DEF BodyReturns, Unexpired
  <2>3. \A s \in Thunks : thunkState'[s] = thunkState[s]
                             \/ (program[s] = "running" /\ thunkState'[s] = "completed")
    BY <1>0, <2>1 DEF TrackingTypeOK
  <2>4. \A s \in Thunks : thunkState'[s] = "completed" => program'[s] \notin {"idle", "running"}
    BY <1>0, <2>1, <2>2 DEF TrackingTypeOK, InStep
  <2>5. /\ pending' \subseteq {u \in Updates : u.thunk # None}
        /\ cleanup' \subseteq Thunks
        /\ NoEntryLeftBehind'
        /\ \A s \in cleanup' \ cleanup : program'[s] \notin {"idle", "running"}
    BY <2>1, <2>3, <2>4, SweepPreserves
  <2>6. TrackingTypeOK'
    BY <1>0, <2>1, <2>2, <2>5 DEF TrackingTypeOK, windows
  <2>7. InStep'
    BY <1>0, <2>1, <2>2, <2>5 DEF TrackingTypeOK, InStep
  <2>8. OwnContext' /\ Attributed' /\ Accounted' /\ NoDeadRendererAwaited'
    BY <1>0, <2>1 DEF OwnContext, Attributed, Accounted, NoDeadRendererAwaited, windows
  <2>9. NothingPending'
    BY <1>0, <2>1, <2>2 DEF TrackingTypeOK, NothingPending
  <2> QED
    BY <2>5, <2>6, <2>7, <2>8, <2>9 DEF TrackingInv
<1>7. ASSUME NEW t \in Thunks, BodyThrows(t) PROVE TrackingInv'
  <2>1. TrackingTypeOK' /\ InStep'
    BY <1>0, <1>7 DEF TrackingTypeOK, InStep, BodyThrows, tracker, windows
  <2>2. OwnContext' /\ Attributed' /\ Accounted' /\ NoDeadRendererAwaited'
    BY <1>0, <1>7 DEF OwnContext, Attributed, Accounted, NoDeadRendererAwaited,
           BodyThrows, tracker, windows
  <2>3. NothingPending' /\ NoEntryLeftBehind'
    BY <1>0, <1>7 DEF TrackingTypeOK, NothingPending, NoEntryLeftBehind, BodyThrows, tracker
  <2> QED
    BY <2>1, <2>2, <2>3 DEF TrackingInv
<1>8. ASSUME NEW t \in Thunks, Poll(t) PROVE TrackingInv'
  <2>1. /\ Sweep(thunkState', Unexpired) /\ Unexpired \subseteq pending
        /\ thunkState' = thunkState
        /\ pending' = pending \ old
        /\ UNCHANGED <<context, processing, overlapped, old, windows>>
    BY <1>8 DEF Poll, CleanupExpired, Sweep, Unexpired
  <2>2. program' = program
          \/ (/\ program' = [program EXCEPT ![t] = "resolved"]
              /\ program[t] = "waiting" /\ ~HasPendingStateUpdates(t, pending'))
    BY <1>0, <1>8, <2>1 DEF TrackingTypeOK, Poll, FullyComplete, Unexpired
  <2>3. \A s \in Thunks : thunkState'[s] = "completed" => program'[s] \notin {"idle", "running"}
    BY <1>0, <2>1, <2>2 DEF TrackingTypeOK, InStep
  <2>4. /\ pending' \subseteq {u \in Updates : u.thunk # None}
        /\ cleanup' \subseteq Thunks
        /\ NoEntryLeftBehind'
        /\ \A s \in cleanup' \ cleanup : program'[s] \notin {"idle", "running"}
    BY <2>1, <2>3, SweepPreserves
  <2>5. TrackingTypeOK'
    BY <1>0, <2>1, <2>2, <2>4 DEF TrackingTypeOK, windows
  <2>6. InStep'
    BY <1>0, <2>1, <2>2, <2>4 DEF TrackingTypeOK, InStep
  <2>7. OwnContext' /\ Attributed' /\ Accounted' /\ NoDeadRendererAwaited'
    BY <1>0, <2>1 DEF OwnContext, Attributed, Accounted, NoDeadRendererAwaited, windows
  <2>8. NothingPending'
    BY <1>0, <2>1, <2>2 DEF TrackingTypeOK, NothingPending
  <2> QED
    BY <2>4, <2>5, <2>6, <2>7, <2>8 DEF TrackingInv
<1>9. ASSUME NEW t \in Thunks, TimesOut(t) PROVE TrackingInv'
  <2>1. TrackingTypeOK' /\ InStep' /\ NothingPending'
    BY <1>0, <1>9 DEF TrackingTypeOK, InStep, NothingPending, TimesOut, lifecycle, tracker, windows
  <2>2. OwnContext' /\ Attributed' /\ Accounted' /\ NoEntryLeftBehind'
          /\ NoDeadRendererAwaited'
    BY <1>0, <1>9 DEF OwnContext, Attributed, Accounted, NoEntryLeftBehind,
           NoDeadRendererAwaited, TimesOut, lifecycle, tracker, windows
  <2> QED
    BY <2>1, <2>2 DEF TrackingInv
<1>10. ASSUME NEW t \in Thunks, CleanupRuns(t) PROVE TrackingInv'
  <2>1. /\ t \in cleanup /\ cleanup' = cleanup \ {t}
        /\ UNCHANGED <<execution, tracker, windows>>
        /\ thunkState' = thunkState \/ thunkState' = [thunkState EXCEPT ![t] = "absent"]
        /\ HasPendingStateUpdates(t, pending) \/ thunkState'[t] = "absent"
    BY <1>0, <1>10 DEF TrackingTypeOK, CleanupRuns
  <2>2. TrackingTypeOK' /\ InStep' /\ NothingPending'
    BY <1>0, <2>1 DEF TrackingTypeOK, InStep, NothingPending, execution, tracker, windows
  <2>3. NoEntryLeftBehind'
    BY <1>0, <2>1 DEF TrackingTypeOK, NoEntryLeftBehind, tracker
  <2>4. OwnContext' /\ Attributed' /\ Accounted' /\ NoDeadRendererAwaited'
    BY <1>0, <2>1 DEF OwnContext, Attributed, Accounted, NoDeadRendererAwaited,
           execution, tracker, windows
  <2> QED
    BY <2>2, <2>3, <2>4 DEF TrackingInv
<1>11. ASSUME NEW ws \in SUBSET live, ExecutePlain(ws) PROVE TrackingInv'
  <2>1. Change(ws, context, None) /\ UNCHANGED <<lifecycle, program>>
          /\ overlapped' = overlapped /\ context' = context /\ processing' = processing
    BY <1>11 DEF ExecutePlain, execution
  <2>2. context \in Thunks \cup {None} /\ (context # None => program[context] = "running")
    BY <1>0 DEF TrackingTypeOK, InStep
  <2>3. None \notin Thunks
    BY TrackingAssumption
  <2>4. InStep' /\ Attributed' /\ Accounted' /\ NothingPending'
          /\ NoEntryLeftBehind' /\ NoDeadRendererAwaited'
    BY <2>1, <2>2, <2>3, ChangePreserves
  <2>5. TrackingTypeOK'
    BY <1>0, <2>1, <2>2, ChangeTypes DEF TrackingTypeOK, lifecycle
  <2>6. OwnContext'
    BY <1>0, <2>1 DEF OwnContext
  <2> QED
    BY <2>4, <2>5, <2>6 DEF TrackingInv
<1>12. ASSUME NEW u \in wire, AckArrives(u) PROVE TrackingInv'
  <2>1. /\ Sweep(thunkState', pending \ {u}) /\ pending' = pending \ {u}
        /\ wire' = wire \ {u}
        /\ UNCHANGED <<thunkState, execution, old, live, sends>>
    BY <1>12 DEF AckArrives, Sweep
  <2>2. \A s \in Thunks : thunkState'[s] = "completed" => program'[s] \notin {"idle", "running"}
    BY <1>0, <2>1 DEF TrackingTypeOK, InStep, execution
  <2>3. /\ pending' \subseteq {v \in Updates : v.thunk # None}
        /\ cleanup' \subseteq Thunks
        /\ NoEntryLeftBehind'
        /\ \A s \in cleanup' \ cleanup : program'[s] \notin {"idle", "running"}
    BY <2>1, <2>2, SweepPreserves
  <2>4. TrackingTypeOK' /\ InStep'
    BY <1>0, <2>1, <2>3 DEF TrackingTypeOK, InStep, execution
  <2>5. OwnContext' /\ Attributed' /\ Accounted' /\ NothingPending' /\ NoDeadRendererAwaited'
    BY <1>0, <2>1 DEF OwnContext, Attributed, Accounted, NothingPending,
           NoDeadRendererAwaited, execution
  <2> QED
    BY <2>3, <2>4, <2>5 DEF TrackingInv
<1>13. ASSUME NEW u \in pending, UpdateAges(u) PROVE TrackingInv'
  <2>1. TrackingTypeOK' /\ InStep' /\ OwnContext'
    BY <1>0, <1>13 DEF TrackingTypeOK, InStep, OwnContext, UpdateAges, lifecycle, execution, windows
  <2>2. Attributed' /\ Accounted' /\ NothingPending' /\ NoEntryLeftBehind'
          /\ NoDeadRendererAwaited'
    BY <1>0, <1>13 DEF Attributed, Accounted, NothingPending, NoEntryLeftBehind,
           NoDeadRendererAwaited, UpdateAges, lifecycle, execution, windows
  <2> QED
    BY <2>1, <2>2 DEF TrackingInv
<1>14. ASSUME NEW w \in Renderers, RendererDestroyed(w) PROVE TrackingInv'
  <2> DEFINE remaining == {u \in pending : u.window # w}
  <2>1. /\ Sweep(thunkState', remaining) /\ pending' = remaining
        /\ live' = live \ {w}
        /\ UNCHANGED <<thunkState, execution, old, wire, sends>>
    BY <1>14 DEF RendererDestroyed, Sweep
  <2>2. \A s \in Thunks : thunkState'[s] = "completed" => program'[s] \notin {"idle", "running"}
    BY <1>0, <2>1 DEF TrackingTypeOK, InStep, execution
  <2>3. /\ pending' \subseteq {v \in Updates : v.thunk # None}
        /\ cleanup' \subseteq Thunks
        /\ NoEntryLeftBehind'
        /\ \A s \in cleanup' \ cleanup : program'[s] \notin {"idle", "running"}
    BY <2>1, <2>2, SweepPreserves
  <2>4. TrackingTypeOK' /\ InStep'
    BY <1>0, <2>1, <2>3 DEF TrackingTypeOK, InStep, execution
  <2>5. OwnContext' /\ Attributed' /\ Accounted' /\ NothingPending' /\ NoDeadRendererAwaited'
    BY <1>0, <2>1 DEF OwnContext, Attributed, Accounted, NothingPending,
           NoDeadRendererAwaited, execution
  <2> QED
    BY <2>3, <2>4, <2>5 DEF TrackingInv
<1>15. CASE UNCHANGED trackingVars
  <2>1. TrackingTypeOK' /\ InStep' /\ NothingPending'
    BY <1>0, <1>15 DEF TrackingTypeOK, InStep, NothingPending, trackingVars, lifecycle, execution,
           tracker, windows
  <2>2. OwnContext' /\ Attributed' /\ Accounted' /\ NoEntryLeftBehind'
          /\ NoDeadRendererAwaited'
    BY <1>0, <1>15 DEF OwnContext, Attributed, Accounted, NoEntryLeftBehind,
           NoDeadRendererAwaited, trackingVars, lifecycle, execution, tracker, windows
  <2> QED
    BY <2>1, <2>2 DEF TrackingInv
<1> QED
  BY <1>1, <1>2, <1>3, <1>4, <1>5, <1>6, <1>7, <1>8, <1>9, <1>10, <1>11, <1>12, <1>13,
         <1>14, <1>15 DEF TrackingNext

-----------------------------------------------------------------------------
(* The strengthened invariant holds in every behaviour. *)
THEOREM TrackingInvariant == TrackingSpec => []TrackingInv
  BY InitInvariant, NextInvariant, PTL DEF TrackingSpec

(* The state is of its type: a context is set only while the asynchronous
   action of an executing thunk is in process. *)
THEOREM TrackingTypes == TrackingSpec => []TrackingTypeOK
<1>1. TrackingInv => TrackingTypeOK
  BY DEF TrackingInv
<1> QED
  BY <1>1, TrackingInvariant, PTL

(* No promise of executeThunk is resolved while a window has yet to acknowledge
   an update of its thunk, for any thunks, windows and number of updates. *)
THEOREM Propagation == TrackingSpec => []ResolvedIsPropagated
<1>1. TrackingInv => ResolvedIsPropagated
  <2> SUFFICES ASSUME TrackingInv, NEW t \in Thunks \ overlapped, program[t] = "resolved",
                      NEW u \in wire, u.cause = t
               PROVE  u.window \notin live \/ u \in old
    BY DEF ResolvedIsPropagated
  <2>1. u.thunk = t /\ t # None
    BY TrackingAssumption DEF TrackingInv, Attributed
  <2>2. u \notin pending
    BY <2>1 DEF TrackingInv, NothingPending
  <2> QED
    BY <2>1, <2>2 DEF TrackingInv, Accounted
<1> QED
  BY <1>1, TrackingInvariant, PTL

(* Every completed thunk without pending updates has its cleanup scheduled,
   whichever of the acknowledgment, the expiry and the end of a window took
   the last update away. *)
THEOREM Cleanup == TrackingSpec => []NoEntryLeftBehind
<1>1. TrackingInv => NoEntryLeftBehind
  BY DEF TrackingInv
<1> QED
  BY <1>1, TrackingInvariant, PTL

(* No update is awaited of a window that is gone. *)
THEOREM DeadRenderers == TrackingSpec => []NoDeadRendererAwaited
<1>1. TrackingInv => NoDeadRendererAwaited
  BY DEF TrackingInv
<1> QED
  BY <1>1, TrackingInvariant, PTL
=============================================================================
