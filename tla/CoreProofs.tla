----------------------------- MODULE CoreProofs ------------------------------
(***************************************************************************)
(* What the Rust core promises, for any thunks (their parents form no      *)
(* cycle), actions, windows and sizes: its action queue (CoreQueue) and    *)
(* the thunks of a Tauri application (TauriThunks), both over the          *)
(* ThunkManager of CoreThunks.                                             *)
(*                                                                         *)
(* Both models are built with recursive functions and with a sort. Their   *)
(* equations are proved first: Topmost, the ancestor a registration takes  *)
(* for root, from the set of a thunk's ancestors (Lineage), which is       *)
(* least, so that no induction is needed; InOrder, the order a drain runs  *)
(* in, from the ranks of the entries.                                      *)
(*                                                                         *)
(* The queue. NothingEligibleWaits follows from itself only with Kept and  *)
(* Queued: the ThunkManager refers to nothing that is gone, where it is a  *)
(* new root that could leave an old one's thunks behind (roots), and the   *)
(* queue holds each action that is queued once. NoOvertaking needs         *)
(* Patient: an entry keeps the priority it was queued with while the root  *)
(* changes, and overtakes no entry of its thunk because that priority is   *)
(* still the one it would get now.                                         *)
(*                                                                         *)
(* The thunks. AwaitedIsRegistered and NothingLeft need the messages that  *)
(* are under way: where a program is, whether it is registered and which   *)
(* of its commands and answers are pending determine each other (Thread),  *)
(* and a program that awaits a nested thunk stays in its body (Chained),   *)
(* so that the core cannot remove a root below which something awaited     *)
(* still runs.                                                             *)
(***************************************************************************)
EXTENDS CoreQueue, TauriThunks, FiniteSetTheorems, WellFoundedInduction, TLAPS

USE CoreThunksAssumption, CoreQueueAssumption

-----------------------------------------------------------------------------
(* The topmost ancestor. *)

Tops(t) == {u \in Lineage[t] : Parent[u] = None}

Pick(S) == CHOOSE u \in S : TRUE

TopOf(t) == IF Lineage[t] \subseteq Registered THEN Pick(Tops(t)) ELSE None

LEMMA LineageLeast ==
    ASSUME NEW t \in Thunks, NEW S \in SUBSET Thunks, t \in S, Closed(S)
    PROVE  Lineage[t] \subseteq S
  BY DEF Lineage

LEMMA LineageClosed ==
    ASSUME NEW t \in Thunks
    PROVE  t \in Lineage[t] /\ Closed(Lineage[t]) /\ Lineage[t] \in SUBSET Thunks
<1>1. t \in Lineage[t] /\ Lineage[t] \in SUBSET Thunks
  BY DEF Lineage
<1>2. ASSUME NEW u \in Lineage[t], Parent[u] # None
      PROVE  Parent[u] \in Lineage[t]
  <2>1. u \in Thunks /\ Parent[u] \in Thunks
    BY <1>1, <1>2
  <2>2. ASSUME NEW S \in SUBSET Thunks, t \in S, Closed(S)
        PROVE  Parent[u] \in S
    BY <2>1, <2>2, <1>2 DEF Lineage, Closed
  <2> QED BY <2>1, <2>2 DEF Lineage
<1> QED BY <1>1, <1>2 DEF Closed

LEMMA LineageOfTop ==
    ASSUME NEW t \in Thunks, Parent[t] = None
    PROVE  Lineage[t] = {t}
<1>1. Closed({t})
  BY DEF Closed
<1>2. Lineage[t] \subseteq {t}
  BY <1>1, LineageLeast
<1> QED BY <1>2, LineageClosed

LEMMA LineageOfNested ==
    ASSUME NEW t \in Thunks, Parent[t] # None
    PROVE  Parent[t] \in Thunks /\ Lineage[t] = {t} \cup Lineage[Parent[t]]
<1> DEFINE p == Parent[t]
<1>1. p \in Thunks
  OBVIOUS
<1>2. t \in Lineage[t] /\ Closed(Lineage[t]) /\ Lineage[t] \in SUBSET Thunks
  BY LineageClosed
<1>3. p \in Lineage[p] /\ Closed(Lineage[p]) /\ Lineage[p] \in SUBSET Thunks
  BY <1>1, LineageClosed
<1>4. p \in Lineage[t]
  BY <1>2 DEF Closed
<1>5. Lineage[p] \subseteq Lineage[t]
  BY <1>1, <1>2, <1>4, LineageLeast
<1>6. Closed({t} \cup Lineage[p])
  BY <1>3 DEF Closed
<1>7. Lineage[t] \subseteq {t} \cup Lineage[p]
  BY <1>3, <1>6, LineageLeast
<1> QED BY <1>1, <1>2, <1>5, <1>7

(* TopOf has the equation that defines Topmost. *)
LEMMA TopOfRecursive ==
    ASSUME NEW t \in Thunks
    PROVE  TopOf(t) = IF t \notin Registered THEN None
                      ELSE IF Parent[t] = None THEN t ELSE TopOf(Parent[t])
<1>1. CASE t \notin Registered
  BY <1>1, LineageClosed DEF TopOf
<1>2. CASE t \in Registered /\ Parent[t] = None
  <2>1. Lineage[t] = {t}
    BY <1>2, LineageOfTop
  <2>2. Tops(t) = {t}
    BY <1>2, <2>1 DEF Tops
  <2>3. Pick(Tops(t)) = t
    BY <2>2 DEF Pick
  <2> QED BY <1>2, <2>1, <2>3 DEF TopOf
<1>3. CASE t \in Registered /\ Parent[t] # None
  <2>1. Parent[t] \in Thunks /\ Lineage[t] = {t} \cup Lineage[Parent[t]]
    BY <1>3, LineageOfNested
  <2>2. Tops(t) = Tops(Parent[t])
    BY <1>3, <2>1 DEF Tops
  <2>3. (Lineage[t] \subseteq Registered) <=> (Lineage[Parent[t]] \subseteq Registered)
    BY <1>3, <2>1
  <2> QED BY <1>3, <2>2, <2>3 DEF TopOf
<1> QED BY <1>1, <1>2, <1>3

(* The definition of Topmost, which is a CHOOSE, has its equation. *)
LEMMA TopmostRecursive ==
    ASSUME NEW t \in Thunks
    PROVE  Topmost[t] = IF t \notin Registered THEN None
                        ELSE IF Parent[t] = None THEN t ELSE Topmost[Parent[t]]
<1> DEFINE Step(f) ==
             [u \in Thunks |->
                IF u \notin Registered THEN None
                ELSE IF Parent[u] = None THEN u ELSE f[Parent[u]]]
           top == [u \in Thunks |-> TopOf(u)]
<1>1. top = Step(top)
  <2>1. ASSUME NEW u \in Thunks
        PROVE  top[u] = Step(top)[u]
    <3>1. Parent[u] # None => Parent[u] \in Thunks
      OBVIOUS
    <3> QED BY <3>1, TopOfRecursive
  <2> QED BY <2>1
<1>2. Topmost = CHOOSE f : f = Step(f)
  BY DEF Topmost
<1>3. \E f : f = Step(f)
  BY <1>1
<1>4. Topmost = Step(Topmost)
  <2> HIDE DEF Step
  <2> QED BY <1>2, <1>3
<1> QED BY <1>4

(* The topmost ancestor is one, is registered, and is dispatched in the same
   webview. *)
LEMMA TopmostRegistered ==
    ASSUME NEW t \in Thunks
    PROVE  Topmost[t] = None
           \/ (Topmost[t] \in Registered /\ Topmost[t] \in Thunks
               /\ LabelOf[Topmost[t]] = LabelOf[t] /\ Topmost[t] \in Lineage[t])
<1> DEFINE Good(u) == \/ Topmost[u] = None
                      \/ (Topmost[u] \in Registered /\ Topmost[u] \in Thunks
                          /\ LabelOf[Topmost[u]] = LabelOf[u] /\ Topmost[u] \in Lineage[u])
           bad == {u \in Thunks : ~Good(u)}
<1>1. SUFFICES ASSUME bad # {} PROVE FALSE
  OBVIOUS
<1>2. PICK u \in bad : Parent[u] \notin bad
  <2>1. bad \in SUBSET Thunks \ {{}}
    BY <1>1
  <2> HIDE DEF bad
  <2> QED BY <2>1
<1>3. u \in Thunks /\ ~Good(u)
  OBVIOUS
<1>4. Parent[u] # None => /\ Parent[u] \in Thunks /\ Good(Parent[u])
                          /\ Lineage[u] = {u} \cup Lineage[Parent[u]]
  BY <1>2, <1>3, LineageOfNested
<1>5. Parent[u] # None => LabelOf[u] = LabelOf[Parent[u]]
  BY <1>3
<1>6. Topmost[u] = IF u \notin Registered THEN None
                   ELSE IF Parent[u] = None THEN u ELSE Topmost[Parent[u]]
  BY <1>3, TopmostRecursive
<1>7. u \in Lineage[u]
  BY <1>3, LineageClosed
<1> QED BY <1>3, <1>4, <1>5, <1>6, <1>7

-----------------------------------------------------------------------------
(* The order of the queue. *)

(* Entries as the queue holds them: no two arrived together. *)
Sortable(S) ==
    /\ IsFiniteSet(S)
    /\ \A e \in S : e.priority \in Nat /\ e.at \in Nat
    /\ \A e, f \in S : e.at = f.at => e = f

Ahead(S, e) == {f \in S : Before(f, e)}

Rank(S, e) == Cardinality(Ahead(S, e))

LEMMA RankType ==
    ASSUME NEW S, Sortable(S), NEW e \in S
    PROVE  /\ Cardinality(S) \in Nat
           /\ Rank(S, e) \in 0..(Cardinality(S) - 1)
           /\ IsFiniteSet(Ahead(S, e)) /\ e \notin Ahead(S, e)
<1>1. e \notin Ahead(S, e)
  BY DEF Sortable, Ahead, Before
<1>2. IsFiniteSet(S \ {e}) /\ Cardinality(S \ {e}) = Cardinality(S) - 1
  BY FS_RemoveElement DEF Sortable
<1>3. Ahead(S, e) \in SUBSET (S \ {e})
  BY <1>1 DEF Ahead
<1>4. IsFiniteSet(Ahead(S, e)) /\ Cardinality(Ahead(S, e)) <= Cardinality(S) - 1
  BY <1>2, <1>3, FS_Subset
<1>5. Cardinality(Ahead(S, e)) \in Nat /\ Cardinality(S) \in Nat
  BY <1>4, FS_CardinalityType DEF Sortable
<1> QED BY <1>1, <1>4, <1>5 DEF Rank

(* Which of two entries comes first shows in the ranks. *)
LEMMA RankMonotone ==
    ASSUME NEW S, Sortable(S), NEW e \in S, NEW f \in S, Before(e, f)
    PROVE  Rank(S, e) < Rank(S, f)
<1>1. \A d \in S : d.priority \in Nat /\ d.at \in Nat
  BY DEF Sortable
<1>2. Ahead(S, e) \cup {e} \subseteq Ahead(S, f)
  <2>1. ASSUME NEW d \in S, Before(d, e)
        PROVE  Before(d, f)
    BY <1>1, <2>1 DEF Before
  <2> QED BY <2>1 DEF Ahead
<1>3. IsFiniteSet(Ahead(S, e)) /\ e \notin Ahead(S, e) /\ IsFiniteSet(Ahead(S, f))
  BY RankType
<1>4. Cardinality(Ahead(S, e) \cup {e}) = Cardinality(Ahead(S, e)) + 1
  BY <1>3, FS_AddElement
<1>5. Cardinality(Ahead(S, e) \cup {e}) <= Cardinality(Ahead(S, f))
  BY <1>2, <1>3, FS_Subset
<1>6. Cardinality(Ahead(S, e)) \in Nat /\ Cardinality(Ahead(S, f)) \in Nat
  BY <1>3, FS_CardinalityType
<1> QED BY <1>4, <1>5, <1>6 DEF Rank

LEMMA RankOne ==
    ASSUME NEW S, Sortable(S), NEW e \in S, NEW f \in S, Rank(S, e) = Rank(S, f)
    PROVE  e = f
<1>1. SUFFICES ASSUME e # f PROVE FALSE
  OBVIOUS
<1>2. Before(e, f) \/ Before(f, e)
  BY <1>1 DEF Sortable, Before
<1>3. Rank(S, e) < Rank(S, f) \/ Rank(S, f) < Rank(S, e)
  BY <1>2, RankMonotone
<1>4. Rank(S, e) \in Int /\ Rank(S, f) \in Int
  BY RankType
<1> QED BY <1>3, <1>4

(* Every place of the order is some entry's. *)
LEMMA RankOnto ==
    ASSUME NEW S, Sortable(S), NEW n \in 0..(Cardinality(S) - 1)
    PROVE  \E e \in S : Rank(S, e) = n
<1> DEFINE T == 0..(Cardinality(S) - 1)
           rank == [e \in S |-> Rank(S, e)]
<1>1. Cardinality(S) \in Nat /\ IsFiniteSet(S)
  BY FS_CardinalityType DEF Sortable
<1>2. IsFiniteSet(T) /\ Cardinality(T) = Cardinality(S)
  <2>1. 0 \in Int /\ Cardinality(S) - 1 \in Int
    BY <1>1
  <2>2. IsFiniteSet(T)
        /\ Cardinality(T) = IF 0 > Cardinality(S) - 1 THEN 0
                            ELSE (Cardinality(S) - 1) - 0 + 1
    BY <2>1, FS_Interval
  <2> QED BY <2>2, <1>1
<1>3. rank \in Injection(S, T)
  <2>1. rank \in [S -> T]
    BY RankType
  <2>2. \A e, f \in S : rank[e] = rank[f] => e = f
    BY RankOne
  <2> QED BY <2>1, <2>2 DEF Injection, IsInjective
<1>4. rank \in Surjection(S, T)
  BY <1>2, <1>3, FS_Injection
<1> QED BY <1>4 DEF Surjection

(* The order of the queue holds the action of each entry, and an entry
   before another in its place. *)
LEMMA InOrderSorts ==
    ASSUME NEW S, Sortable(S)
    PROVE  /\ InOrder(S) \in Seq({e.action : e \in S})
           /\ \A e \in S : \E i \in DOMAIN InOrder(S) : InOrder(S)[i] = e.action
           /\ \A e, f \in S : Before(e, f) =>
                 \E i, j \in DOMAIN InOrder(S) :
                    i < j /\ InOrder(S)[i] = e.action /\ InOrder(S)[j] = f.action
<1> DEFINE At(i) == CHOOSE e \in S : Rank(S, e) = i - 1
           order == [i \in 1..Cardinality(S) |-> At(i).action]
<1>1. Cardinality(S) \in Nat
  BY FS_CardinalityType DEF Sortable
<1>2. InOrder(S) = order
  BY DEF InOrder, Rank, Ahead
<1>3. ASSUME NEW i \in 1..Cardinality(S)
      PROVE  At(i) \in S
  <2>1. i - 1 \in 0..(Cardinality(S) - 1)
    BY <1>1
  <2> QED BY <2>1, RankOnto
<1>4. ASSUME NEW e \in S
      PROVE  /\ Rank(S, e) + 1 \in 1..Cardinality(S)
             /\ order[Rank(S, e) + 1] = e.action
  <2>1. Rank(S, e) \in 0..(Cardinality(S) - 1)
    BY RankType
  <2>2. Rank(S, e) + 1 \in 1..Cardinality(S) /\ (Rank(S, e) + 1) - 1 = Rank(S, e)
    BY <1>1, <2>1
  <2>3. At(Rank(S, e) + 1) = e
    BY <2>2, RankOne
  <2> QED BY <2>2, <2>3
<1>5. order \in Seq({e.action : e \in S})
  <2>1. \A i \in 1..Cardinality(S) : At(i).action \in {e.action : e \in S}
    BY <1>3
  <2> HIDE DEF At
  <2> QED BY <1>1, <2>1
<1>6. DOMAIN order = 1..Cardinality(S)
  OBVIOUS
<1>7. ASSUME NEW e \in S, NEW f \in S, Before(e, f)
      PROVE  \E i, j \in DOMAIN order :
                i < j /\ order[i] = e.action /\ order[j] = f.action
  <2>1. Rank(S, e) < Rank(S, f)
    BY <1>7, RankMonotone
  <2>2. Rank(S, e) \in Int /\ Rank(S, f) \in Int
    BY RankType
  <2>3. Rank(S, e) + 1 < Rank(S, f) + 1
    BY <2>1, <2>2
  <2> HIDE DEF order
  <2> QED BY <1>4, <1>6, <2>3
<1> HIDE DEF order
<1> QED BY <1>2, <1>4, <1>5, <1>6, <1>7

-----------------------------------------------------------------------------
(* The ThunkManager. *)

Record == [state : {"pending", "executing"}, root : Thunks \cup {None}]

Task == [id : TaskIds, thunk : Thunks, concurrent : BOOLEAN]

(* The ThunkManager refers to what is registered: of the thunks that were the
   root only the root itself is, so that no thunk registered below an earlier
   root is left. *)
Kept ==
    /\ ThunksTypeOK
    /\ records \in [Registered -> Record]
    /\ tasks \subseteq Task
    /\ Registered \subseteq begun /\ roots \subseteq begun
    /\ root # None => HasActiveRoot /\ root \in roots
    /\ roots \cap Registered \subseteq {root}
    /\ None \notin roots
    /\ \A k \in tasks : k.thunk \in Registered
    /\ \A t \in Registered :
          records[t].root # None => /\ records[t].root \notin roots \ Registered
                                    /\ LabelOf[records[t].root] = LabelOf[t]

LEMMA KeptInit ==
    ASSUME ThunksInit, begun = {}, roots = {}
    PROVE  Kept
  BY DEF ThunksInit, Kept, ThunksTypeOK, Registered, HasActiveRoot

LEMMA KeptStutter ==
    ASSUME Kept, UNCHANGED <<thunks, begun, roots>>
    PROVE  Kept'
  BY DEF thunks, Kept, ThunksTypeOK, Registered, HasActiveRoot

LEMMA RegisterKeeps ==
    ASSUME Kept, NEW t \in Thunks, t \notin begun, Register(t),
           begun' = begun \cup {t}, roots' = roots
    PROVE  Kept'
<1> DEFINE top == IF Parent[t] = None THEN None ELSE Topmost[Parent[t]]
<1>1. top = None \/ (top \in Registered /\ top \in Thunks /\ LabelOf[top] = LabelOf[t])
  <2>1. CASE Parent[t] # None
    <3>1. Parent[t] \in Thunks /\ LabelOf[t] = LabelOf[Parent[t]]
      BY <2>1
    <3> QED BY <3>1, TopmostRegistered
  <2> QED BY <2>1
<1>2. /\ records' = [u \in Registered \cup {t} |->
                        IF u = t THEN [state |-> "pending", root |-> top] ELSE records[u]]
      /\ root' = root /\ tasks' = tasks /\ t \notin Registered
  BY DEF Register, WithRecord, MayRegister
<1> HIDE DEF top
<1>3. Registered' = Registered \cup {t}
  BY <1>2 DEF Registered
<1>4. /\ \A u \in Registered : records'[u] = records[u]
      /\ records'[t] = [state |-> "pending", root |-> top]
  BY <1>2
<1>5. records' \in [Registered' -> Record] /\ ThunksTypeOK'
  <2>1. [state |-> "pending", root |-> top] \in Record
    BY <1>1 DEF Record
  <2>2. \A u \in Registered : records[u] \in Record
    BY DEF Kept
  <2>3. records' \in [Registered' -> Record]
    BY <1>2, <1>3, <2>1, <2>2
  <2> QED BY <1>2, <1>3, <2>3 DEF Kept, ThunksTypeOK, Record
<1>6. root # None => HasActiveRoot' /\ root \in roots
  BY <1>2, <1>3, <1>4 DEF Kept, HasActiveRoot
<1>7. roots \cap Registered' \subseteq {root} /\ t \notin roots
  BY <1>3 DEF Kept
<1>8. ASSUME NEW u \in Registered', records'[u].root # None
      PROVE  /\ records'[u].root \notin roots \ Registered'
             /\ LabelOf[records'[u].root] = LabelOf[u]
  <2>1. CASE u = t
    BY <1>1, <1>3, <1>4, <1>8, <2>1
  <2>2. CASE u # t
    BY <1>3, <1>4, <1>8, <2>2 DEF Kept
  <2> QED BY <2>1, <2>2
<1> QED BY <1>2, <1>3, <1>5, <1>6, <1>7, <1>8 DEF Kept

LEMMA ExecuteKeeps ==
    ASSUME Kept, NEW t \in Thunks, Execute(t),
           begun' = begun, roots' = roots \cup ({root'} \ {None})
    PROVE  /\ Kept'
           /\ root # None => root' = root
           /\ root = None => ~HasActiveRoot
           /\ tasks' = tasks
<1>1. /\ t \in Registered /\ records[t].state = "pending"
      /\ records' = [records EXCEPT ![t].state = "executing"]
      /\ root' = (IF root = None /\ Parent[t] = None THEN t ELSE root)
      /\ tasks' = tasks
  BY DEF Execute, RootWith
<1>2. Registered' = Registered
  BY <1>1 DEF Registered
<1>3. /\ records'[t].state = "executing" /\ records'[t].root = records[t].root
      /\ \A u \in Registered \ {t} : records'[u] = records[u]
      /\ records' \in [Registered -> Record]
  BY <1>1 DEF Kept, Record, Registered
<1>4. ThunksTypeOK'
  BY <1>1, <1>2, <1>3 DEF Kept, ThunksTypeOK, Record
<1>5. root' # None => HasActiveRoot' /\ root' \in roots'
  BY <1>1, <1>2, <1>3 DEF Kept, HasActiveRoot
<1>6. roots' \subseteq begun' /\ None \notin roots'
  BY <1>1 DEF Kept
<1>7. roots' \cap Registered' \subseteq {root'}
  BY <1>1, <1>2 DEF Kept
<1>8. \A u \in Registered : records'[u].root = records[u].root
  BY <1>3
<1>9. roots' \ Registered' = roots \ Registered
  <2>1. root' # None => root' \in Registered
    BY <1>1 DEF Kept, HasActiveRoot
  <2> QED BY <1>2, <2>1
<1>10. root = None => ~HasActiveRoot
  BY DEF Kept, ThunksTypeOK, HasActiveRoot
<1> QED BY <1>1, <1>2, <1>3, <1>4, <1>5, <1>6, <1>7, <1>8, <1>9, <1>10 DEF Kept

(* What removes thunks and, with it, the root if that is among them. *)
LEMMA RemovalKeeps ==
    ASSUME Kept, NEW gone,
           records' = Without(gone), tasks' = TasksWithout(gone),
           root' = IF root \in gone THEN None ELSE root,
           \A t \in Registered \ gone : records[t].root \notin roots \cap gone,
           begun' = begun, roots' = roots
    PROVE  Kept'
<1>1. /\ Registered' = Registered \ gone
      /\ \A t \in Registered \ gone : records'[t] = records[t]
      /\ records' \in [Registered \ gone -> Record]
  BY DEF Without, Registered, Restrict, Kept
<1>2. tasks' \subseteq tasks /\ \A k \in tasks' : k.thunk \notin gone
  BY DEF TasksWithout
<1>3. ThunksTypeOK'
  BY <1>1 DEF Kept, ThunksTypeOK, Record
<1>4. root' # None => HasActiveRoot' /\ root' \in roots'
  BY <1>1 DEF Kept, HasActiveRoot
<1>5. roots' \cap Registered' \subseteq {root'}
  BY <1>1 DEF Kept
<1>6. ASSUME NEW t \in Registered', records'[t].root # None
      PROVE  /\ records'[t].root \notin roots \ Registered'
             /\ LabelOf[records'[t].root] = LabelOf[t]
  BY <1>1, <1>6 DEF Kept
<1>7. /\ tasks' \subseteq Task /\ \A k \in tasks' : k.thunk \in Registered'
      /\ Registered' \subseteq begun'
  BY <1>1, <1>2 DEF Kept
<1> QED BY <1>1, <1>3, <1>4, <1>5, <1>6, <1>7 DEF Kept

LEMMA CompleteKeeps ==
    ASSUME Kept, NEW t \in Thunks, Complete(t), begun' = begun, roots' = roots
    PROVE  Kept'
<1> DEFINE gone == {t} \cup (IF root = t THEN Descendants(t) ELSE {})
<1>1. /\ t \in Registered /\ records' = Without(gone) /\ tasks' = TasksWithout(gone)
      /\ root' = IF root = t THEN None ELSE root
  BY DEF Complete
<1>2. root # t => root \notin gone
  OBVIOUS
<1>3. root' = IF root \in gone THEN None ELSE root
  BY <1>1, <1>2
<1>4. ASSUME NEW u \in Registered \ gone
      PROVE  records[u].root \notin roots \cap gone
  <2>1. CASE root # t
    BY <1>1, <2>1 DEF Kept
  <2>2. CASE root = t
    <3>1. roots \cap gone \subseteq {t}
      BY <2>2 DEF Kept, Descendants
    <3>2. records[u].root # t
      BY <1>4, <2>2 DEF Descendants
    <3> QED BY <3>1, <3>2
  <2> QED BY <2>1, <2>2
<1> HIDE DEF gone
<1> QED BY <1>1, <1>3, <1>4, RemovalKeeps

LEMMA DropLabelKeeps ==
    ASSUME Kept, NEW l, DropLabel(l), begun' = begun, roots' = roots
    PROVE  Kept'
<1> DEFINE gone == {t \in Registered : LabelOf[t] = l}
<1>1. /\ records' = Without(gone) /\ tasks' = TasksWithout(gone)
      /\ root' = IF root \in Registered \ gone THEN root ELSE None
  BY DEF DropLabel
<1>2. root' = IF root \in gone THEN None ELSE root
  BY <1>1 DEF Kept, HasActiveRoot
<1>3. ASSUME NEW u \in Registered \ gone
      PROVE  records[u].root \notin roots \cap gone
  BY <1>3 DEF Kept
<1> HIDE DEF gone
<1> QED BY <1>1, <1>2, <1>3, RemovalKeeps

LEMMA TasksKeep ==
    ASSUME Kept, begun' = begun, roots' = roots, records' = records, root' = root,
           \A k \in tasks' : k \in Task /\ k.thunk \in Registered
    PROVE  Kept'
  BY DEF Kept, ThunksTypeOK, Registered, HasActiveRoot

-----------------------------------------------------------------------------
(* The scheduler's queue. *)

Dispatched == {a \in Actions : outcome[a] # "new"}

ActionsOf(entries) == {e.action : e \in entries}

(* The queue holds one entry of each action that is queued, and no two that
   arrived together. *)
Queued ==
    /\ outcome \in [Actions -> Outcomes]
    /\ executed \in Seq(Actions)
    /\ \A e \in queue : e.action \in Actions /\ e.priority \in Priorities /\ e.at \in Nat
    /\ IsFiniteSet(queue) /\ Cardinality(queue) <= MaxQueueSize
    /\ IsFiniteSet(Dispatched)
    /\ ActionsOf(queue) = {a \in Actions : outcome[a] = "queued"}
    /\ ToSet(executed) = {a \in Actions : outcome[a] = "executed"}
    /\ \A e, f \in queue : e.action = f.action \/ e.at = f.at => e = f
    /\ \A e \in queue : e.at < Arrivals
    /\ neglected \subseteq Dispatched

LEMMA QueuedSortable ==
    ASSUME Queued, NEW S \in SUBSET queue
    PROVE  Sortable(S) /\ IsFiniteSet(S)
<1>1. IsFiniteSet(S)
  BY FS_Subset DEF Queued
<1>2. Priorities \subseteq Nat
  BY DEF Priorities
<1> QED BY <1>1, <1>2 DEF Queued, Sortable

LEMMA ArrivalsNat ==
    ASSUME Queued
    PROVE  Arrivals \in Nat /\ Arrivals = Cardinality(Dispatched)
  BY FS_CardinalityType DEF Queued, Arrivals, Dispatched

LEMMA ToSetElements ==
    ASSUME NEW S, NEW s \in Seq(S)
    PROVE  /\ \A i \in 1..Len(s) : s[i] \in ToSet(s)
           /\ \A x \in ToSet(s) : \E i \in 1..Len(s) : s[i] = x
  BY DEF ToSet

LEMMA ToSetConcat ==
    ASSUME NEW S, NEW s \in Seq(S), NEW t \in Seq(S)
    PROVE  ToSet(s \o t) = ToSet(s) \cup ToSet(t)
<1> DEFINE u == s \o t
<1>1. /\ Len(s) \in Nat /\ Len(t) \in Nat /\ Len(u) = Len(s) + Len(t)
      /\ u \in Seq(S)
      /\ \A i \in 1..Len(s) : u[i] = s[i]
      /\ \A i \in 1..Len(t) : u[Len(s) + i] = t[i]
  OBVIOUS
<1> HIDE DEF u
<1>2. ASSUME NEW x \in ToSet(u)
      PROVE  x \in ToSet(s) \cup ToSet(t)
  <2>1. PICK i \in 1..Len(u) : u[i] = x
    BY <1>1, ToSetElements
  <2>2. CASE i <= Len(s)
    <3>1. i \in 1..Len(s)
      BY <1>1, <2>2
    <3>2. s[i] = x
      BY <1>1, <2>1, <3>1
    <3> QED BY <3>1, <3>2, ToSetElements
  <2>3. CASE i > Len(s)
    <3>1. i - Len(s) \in 1..Len(t) /\ Len(s) + (i - Len(s)) = i
      BY <1>1, <2>3
    <3>2. t[i - Len(s)] = x
      BY <1>1, <2>1, <3>1
    <3> QED BY <3>1, <3>2, ToSetElements
  <2> QED BY <1>1, <2>2, <2>3
<1>3. ASSUME NEW x \in ToSet(s)
      PROVE  x \in ToSet(u)
  <2>1. PICK i \in 1..Len(s) : s[i] = x
    BY ToSetElements
  <2>2. i \in 1..Len(u) /\ u[i] = x
    BY <1>1, <2>1
  <2> QED BY <1>1, <2>2, ToSetElements
<1>4. ASSUME NEW x \in ToSet(t)
      PROVE  x \in ToSet(u)
  <2>1. PICK i \in 1..Len(t) : t[i] = x
    BY ToSetElements
  <2>2. Len(s) + i \in 1..Len(u)
    BY <1>1
  <2>3. u[Len(s) + i] = x
    BY <1>1, <2>1
  <2> QED BY <1>1, <2>2, <2>3, ToSetElements
<1>5. ToSet(u) = ToSet(s) \cup ToSet(t)
  BY <1>2, <1>3, <1>4
<1> QED BY <1>5 DEF u

(* What drain_queue runs. *)
LEMMA DrainRuns ==
    ASSUME Queued, NEW before \in Seq(Actions), NEW ready \in SUBSET queue
    PROVE  /\ InOrder(ready) \in Seq(Actions)
           /\ before \o InOrder(ready) \in Seq(Actions)
           /\ ToSet(before \o InOrder(ready)) = ToSet(before) \cup ActionsOf(ready)
<1> DEFINE order == InOrder(ready)
<1>1. /\ order \in Seq({e.action : e \in ready})
      /\ \A e \in ready : \E i \in DOMAIN order : order[i] = e.action
  <2>1. Sortable(ready)
    BY QueuedSortable
  <2> QED BY <2>1, InOrderSorts
<1>2. ActionsOf(ready) \subseteq Actions
  BY DEF ActionsOf, Queued
<1> HIDE DEF order
<1>3. order \in Seq(Actions) /\ before \o order \in Seq(Actions)
  BY <1>1, <1>2 DEF ActionsOf
<1>4. ToSet(order) = ActionsOf(ready)
  BY <1>1 DEF ActionsOf, ToSet
<1>5. ToSet(before \o order) = ToSet(before) \cup ToSet(order)
  BY <1>3, ToSetConcat
<1> QED BY <1>3, <1>4, <1>5 DEF order

LEMMA DrainKeeps ==
    ASSUME Queued, NEW before \in Seq(Actions), NEW ready \in SUBSET queue,
           IsFiniteSet(ToSet(before)), Drain(before, ready), neglected' \subseteq neglected,
           \A a \in ToSet(before) : outcome[a] = "new"
    PROVE  Queued'
<1> DEFINE run == before \o InOrder(ready)
           ran == ToSet(before) \cup ActionsOf(ready)
<1>1. run \in Seq(Actions) /\ ToSet(run) = ran
  BY DrainRuns
<1>2. /\ executed' = executed \o run
      /\ queue' = queue \ ready
      /\ outcome' = [a \in Actions |-> IF a \in ran THEN "executed" ELSE outcome[a]]
  BY <1>1 DEF Drain
<1>3. ran \subseteq Actions /\ ToSet(before) \subseteq Actions
  <2>1. ToSet(before) \subseteq Actions
    BY DEF ToSet
  <2> QED BY <2>1 DEF ActionsOf, Queued
<1> HIDE DEF run, ran
<1>4. /\ executed' \in Seq(Actions) /\ ToSet(executed') = ToSet(executed) \cup ran
      /\ outcome' \in [Actions -> Outcomes]
  <2>1. executed \in Seq(Actions)
    BY DEF Queued
  <2>2. ToSet(executed \o run) = ToSet(executed) \cup ToSet(run)
    BY <1>1, <2>1, ToSetConcat
  <2> QED BY <1>1, <1>2, <2>1, <2>2 DEF Queued, Outcomes
<1>5. IsFiniteSet(queue') /\ Cardinality(queue') <= MaxQueueSize
  <2>1. IsFiniteSet(queue') /\ Cardinality(queue') <= Cardinality(queue)
    BY <1>2, FS_Subset DEF Queued
  <2>2. Cardinality(queue') \in Nat /\ Cardinality(queue) \in Nat
    BY <2>1, FS_CardinalityType DEF Queued
  <2> QED BY <2>1, <2>2 DEF Queued
<1>6. Dispatched' = Dispatched \cup ToSet(before)
  <2>1. \A a \in ActionsOf(ready) : a \in Dispatched
    BY DEF ActionsOf, Queued, Dispatched
  <2> QED BY <1>2, <1>3, <2>1 DEF Dispatched, ran
<1>7. IsFiniteSet(Dispatched') /\ Arrivals' \in Nat /\ Arrivals <= Arrivals'
  <2>1. IsFiniteSet(Dispatched')
    BY <1>6, FS_Union DEF Queued
  <2>2. Cardinality(Dispatched) <= Cardinality(Dispatched')
    BY <1>6, <2>1, FS_Subset
  <2>3. Cardinality(Dispatched') \in Nat
    BY <2>1, FS_CardinalityType
  <2>4. Arrivals' = Cardinality(Dispatched')
    BY DEF Arrivals, Dispatched
  <2> QED BY <2>1, <2>2, <2>3, <2>4, ArrivalsNat
<1>8. ActionsOf(queue') = {a \in Actions : outcome'[a] = "queued"}
  <2>1. ASSUME NEW e \in queue \ ready
        PROVE  e.action \notin ran /\ outcome[e.action] = "queued" /\ e.action \in Actions
    <3>1. outcome[e.action] = "queued" /\ e.action \in Actions
      BY DEF Queued, ActionsOf
    <3>2. e.action \notin ActionsOf(ready)
      BY DEF Queued, ActionsOf
    <3> QED BY <3>1, <3>2 DEF ran
  <2>2. ASSUME NEW a \in Actions, a \notin ran, outcome[a] = "queued"
        PROVE  a \in ActionsOf(queue \ ready)
    <3>1. a \in ActionsOf(queue)
      BY <2>2 DEF Queued
    <3>2. PICK e \in queue : e.action = a
      BY <3>1 DEF ActionsOf
    <3> QED BY <2>2, <3>2 DEF ran, ActionsOf
  <2> QED BY <1>2, <2>1, <2>2 DEF ActionsOf
<1>9. ToSet(executed') = {a \in Actions : outcome'[a] = "executed"}
  BY <1>2, <1>3, <1>4 DEF Queued
<1>10. \A e \in queue' : e.at < Arrivals'
  <2>1. \A e \in queue : e.at < Arrivals /\ e.at \in Nat
    BY DEF Queued
  <2> QED BY <1>2, <1>7, <2>1, ArrivalsNat
<1>11. neglected' \subseteq Dispatched'
  BY <1>6 DEF Queued
<1>12. /\ \A e \in queue' : e.action \in Actions /\ e.priority \in Priorities /\ e.at \in Nat
       /\ \A e, f \in queue' : e.action = f.action \/ e.at = f.at => e = f
  BY <1>2 DEF Queued
<1> QED BY <1>4, <1>5, <1>7, <1>8, <1>9, <1>10, <1>11, <1>12 DEF Queued

(* An action enters the queue, and those of gone, an entry evicted for it or
   nothing, leave it. *)
LEMMA EnqueueKeeps ==
    ASSUME Queued, NEW a \in Actions, outcome[a] = "new", NEW gone \in SUBSET queue,
           Cardinality(queue \ gone) < MaxQueueSize,
           queue' = (queue \ gone) \cup {Entry(a)},
           outcome' = [b \in Actions |->
                          IF b = a THEN "queued"
                          ELSE IF b \in ActionsOf(gone) THEN "dropped" ELSE outcome[b]],
           executed' = executed, neglected' \subseteq neglected
    PROVE  Queued'
<1> DEFINE new == Entry(a)
           rest == queue \ gone
<1>1. /\ new.action = a /\ new.at = Arrivals
      /\ new.priority \in Priorities
  BY DEF Entry, PriorityOf, Priorities
<1> HIDE DEF new
<1>2. \A e \in queue : /\ outcome[e.action] = "queued" /\ e.action # a
                       /\ e.action \in Actions /\ e.at # Arrivals
  <2>1. \A e \in queue : e.action \in ActionsOf(queue) /\ e.at \in Nat /\ e.at < Arrivals
    BY DEF ActionsOf, Queued
  <2>2. \A e \in queue : outcome[e.action] = "queued" /\ e.action \in Actions
    BY <2>1 DEF Queued
  <2> QED BY <2>1, <2>2, ArrivalsNat
<1>3. IsFiniteSet(queue') /\ Cardinality(queue') <= MaxQueueSize
  <2>1. IsFiniteSet(rest)
    BY FS_Subset DEF Queued
  <2>2. IsFiniteSet(rest \cup {new}) /\ Cardinality(rest \cup {new}) <= Cardinality(rest) + 1
    <3>1. Cardinality(rest) \in Nat
      BY <2>1, FS_CardinalityType
    <3>2. /\ IsFiniteSet(rest \cup {new})
          /\ Cardinality(rest \cup {new}) =
                IF new \in rest THEN Cardinality(rest) ELSE Cardinality(rest) + 1
      BY <2>1, FS_AddElement
    <3> QED BY <3>1, <3>2
  <2>3. Cardinality(rest) \in Nat /\ Cardinality(rest \cup {new}) \in Nat
    BY <2>1, <2>2, FS_CardinalityType
  <2> QED BY <2>2, <2>3 DEF new
<1>4. Dispatched' = Dispatched \cup {a} /\ a \notin Dispatched
  <2>1. \A b \in ActionsOf(gone) : outcome[b] # "new"
    BY <1>2 DEF ActionsOf
  <2> QED BY <2>1 DEF Dispatched
<1>5. IsFiniteSet(Dispatched') /\ Arrivals' = Arrivals + 1
  <2>1. IsFiniteSet(Dispatched') /\ Cardinality(Dispatched') = Cardinality(Dispatched) + 1
    BY <1>4, FS_AddElement DEF Queued
  <2>2. Arrivals' = Cardinality(Dispatched')
    BY DEF Arrivals, Dispatched
  <2> QED BY <2>1, <2>2, ArrivalsNat
<1>6. outcome' \in [Actions -> Outcomes]
  BY DEF Queued, Outcomes
<1>7. queue' = rest \cup {new}
  BY DEF new
<1>8. \A e, f \in queue' : e.action = f.action \/ e.at = f.at => e = f
  BY <1>1, <1>2, <1>7 DEF Queued
<1>9. \A e \in queue' : /\ e.action \in Actions /\ e.priority \in Priorities
                        /\ e.at \in Nat /\ e.at < Arrivals'
  <2>1. \A e \in queue : e.at \in Nat /\ e.at < Arrivals
    BY DEF Queued
  <2> QED BY <1>1, <1>5, <1>7, <2>1, ArrivalsNat DEF Queued
<1>10. ActionsOf(queue') = {b \in Actions : outcome'[b] = "queued"}
  <2>1. \A e \in rest : e.action \in Actions /\ outcome'[e.action] = "queued"
    <3>1. \A e \in rest : e.action \notin ActionsOf(gone)
      BY DEF ActionsOf, Queued
    <3> QED BY <1>2, <3>1
  <2>2. ASSUME NEW b \in Actions, outcome'[b] = "queued", b # a
        PROVE  b \in ActionsOf(rest)
    <3>1. outcome[b] = "queued" /\ b \notin ActionsOf(gone)
      BY <2>2
    <3>2. b \in ActionsOf(queue)
      BY <3>1 DEF Queued
    <3>3. PICK e \in queue : e.action = b
      BY <3>2 DEF ActionsOf
    <3> QED BY <3>1, <3>3 DEF ActionsOf
  <2>3. outcome'[a] = "queued"
    OBVIOUS
  <2> QED BY <1>1, <1>7, <2>1, <2>2, <2>3 DEF ActionsOf
<1>11. ToSet(executed') = {b \in Actions : outcome'[b] = "executed"}
  <2>1. \A b \in Actions : outcome'[b] = "executed" <=> outcome[b] = "executed"
    BY <1>2 DEF ActionsOf
  <2>2. ToSet(executed') = ToSet(executed)
    OBVIOUS
  <2> QED BY <2>1, <2>2 DEF Queued
<1>12. neglected' \subseteq Dispatched' /\ executed' \in Seq(Actions)
  BY <1>4 DEF Queued
<1> QED BY <1>3, <1>5, <1>6, <1>8, <1>9, <1>10, <1>11, <1>12 DEF Queued

LEMMA RejectKeeps ==
    ASSUME Queued, NEW a \in Actions, outcome[a] = "new",
           outcome' = [outcome EXCEPT ![a] = "rejected"],
           UNCHANGED <<queue, executed>>, neglected' \subseteq neglected
    PROVE  Queued'
<1>1. Dispatched' = Dispatched \cup {a} /\ a \notin Dispatched
  BY DEF Dispatched, Queued
<1>2. IsFiniteSet(Dispatched') /\ Arrivals' = Arrivals + 1
  <2>1. IsFiniteSet(Dispatched') /\ Cardinality(Dispatched') = Cardinality(Dispatched) + 1
    BY <1>1, FS_AddElement DEF Queued
  <2>2. Arrivals' = Cardinality(Dispatched')
    BY DEF Arrivals, Dispatched
  <2> QED BY <2>1, <2>2, ArrivalsNat
<1>3. /\ outcome' \in [Actions -> Outcomes]
      /\ \A b \in Actions : b # a => outcome'[b] = outcome[b]
      /\ outcome'[a] = "rejected"
  BY DEF Queued, Outcomes
<1>4. /\ ActionsOf(queue') = {b \in Actions : outcome'[b] = "queued"}
      /\ ToSet(executed') = {b \in Actions : outcome'[b] = "executed"}
  <2>1. /\ \A b \in Actions : outcome'[b] = "queued" <=> outcome[b] = "queued"
        /\ \A b \in Actions : outcome'[b] = "executed" <=> outcome[b] = "executed"
    BY <1>3
  <2>2. ActionsOf(queue') = ActionsOf(queue) /\ ToSet(executed') = ToSet(executed)
    BY DEF ActionsOf
  <2> QED BY <2>1, <2>2 DEF Queued
<1>5. \A e \in queue' : e.at \in Nat /\ e.at < Arrivals'
  <2>1. \A e \in queue : e.at \in Nat /\ e.at < Arrivals
    BY DEF Queued
  <2> QED BY <1>2, <2>1, ArrivalsNat
<1>6. neglected' \subseteq Dispatched'
  BY <1>1 DEF Queued
<1> QED BY <1>2, <1>3, <1>4, <1>5, <1>6 DEF Queued

(* Some of a set of naturals is the least. *)
LEMMA LeastOf ==
    ASSUME NEW S \in SUBSET Nat, S # {}
    PROVE  \E i \in S : \A j \in S : i <= j
<1>1. PICK i \in S : \A j \in S : <<j, i>> \notin OpToRel(<, Nat)
  BY NatLessThanWellFounded, WFMin
<1>2. ASSUME NEW j \in S
      PROVE  i <= j
  <2>1. <<j, i>> \in Nat \X Nat /\ ~(j < i)
    BY <1>1 DEF OpToRel
  <2> QED BY <2>1
<1> QED BY <1>2

LEMMA OldestOf ==
    ASSUME Queued, NEW S \in SUBSET queue, S # {}
    PROVE  \E e \in S : \A f \in S \ {e} : e.at < f.at
<1>1. \A e, f \in S : e.at \in Nat /\ (e.at = f.at => e = f)
  BY DEF Queued
<1>2. PICK i \in {e.at : e \in S} : \A j \in {e.at : e \in S} : i <= j
  BY <1>1, LeastOf
<1>3. PICK e \in S : e.at = i
  BY <1>2
<1>4. ASSUME NEW f \in S \ {e}
      PROVE  e.at < f.at
  <2>1. e.at <= f.at
    BY <1>2, <1>3
  <2>2. e.at # f.at /\ e.at \in Nat /\ f.at \in Nat
    BY <1>1
  <2> QED BY <2>1, <2>2
<1> QED BY <1>4

(* There is an entry to evict. *)
LEMMA VictimQueued ==
    ASSUME Queued, NEW a, queue # {}
    PROVE  Victim(a) \in queue
<1>1. CASE Droppable # {}
  <2>1. \A e \in Droppable : e.priority \in Nat
    BY DEF Queued, Priorities, Droppable
  <2>2. PICK p \in {e.priority : e \in Droppable} :
            \A q \in {e.priority : e \in Droppable} : p <= q
    BY <1>1, <2>1, LeastOf
  <2> DEFINE S == {e \in Droppable : e.priority = p}
  <2>3. S \in SUBSET queue /\ S # {}
    BY <2>2 DEF Droppable
  <2>4. PICK e \in S : \A f \in S \ {e} : e.at < f.at
    BY <2>3, OldestOf
  <2>5. \A f \in Droppable : p <= f.priority /\ f.priority \in Nat
    BY <2>1, <2>2
  <2>6. \A f \in Droppable \ {e} :
            e.priority < f.priority \/ (e.priority = f.priority /\ e.at < f.at)
    BY <2>1, <2>4, <2>5
  <2>7. Victim(a) \in Droppable
    BY <1>1, <2>4, <2>6 DEF Victim
  <2> QED BY <2>7 DEF Droppable
<1>2. CASE Droppable = {}
  <2>1. \E e \in queue : \A f \in queue \ {e} : e.at < f.at
    BY OldestOf
  <2> QED BY <1>2, <2>1 DEF Victim
<1> QED BY <1>1, <1>2

-----------------------------------------------------------------------------
(* What waits. *)

(* An action that nothing made wait in vain has the priority it would get
   now, and behind it waits no later action of its thunk that something did. *)
Patient ==
    /\ NothingEligibleWaits
    /\ \A e \in queue : e.action \notin neglected => e.priority = PriorityOf(e.action)
    /\ \A e, f \in queue :
          /\ ThunkOf[e.action] = ThunkOf[f.action] /\ f.action \notin ImmediateActions
          /\ e.at < f.at /\ f.action \in neglected
          => e.action \in neglected

(* What no root holds up can execute. *)
LEMMA CanWithoutRoot ==
    ASSUME Kept, NEW a, root = None
    PROVE  CanExecute(a)
  BY DEF Kept, ThunksTypeOK, CanExecute, HasActiveRoot

LEMMA CanWithoutRootNext ==
    ASSUME Kept', NEW a, root' = None
    PROVE  CanExecute(a)'
  BY DEF Kept, ThunksTypeOK, CanExecute, HasActiveRoot

(* Of two actions of one thunk both can execute, or neither. *)
LEMMA CanAlike ==
    ASSUME NEW a, NEW b, ThunkOf[a] = ThunkOf[b], b \notin ImmediateActions
    PROVE  /\ CanExecute(b) => CanExecute(a)
           /\ CanExecute(b)' => CanExecute(a)'
  BY DEF CanExecute

LEMMA SameContext ==
    ASSUME Kept, Kept', root' = root, tasks' = tasks, NEW a
    PROVE  /\ CanExecute(a)' <=> CanExecute(a)
           /\ PriorityOf(a)' = PriorityOf(a)
<1>1. HasActiveRoot' <=> HasActiveRoot
  BY DEF Kept, ThunksTypeOK, HasActiveRoot
<1>2. Busy' = Busy
  BY DEF Busy
<1> QED BY <1>1, <1>2 DEF CanExecute, PriorityOf

LEMMA SamePriority ==
    ASSUME Kept', root' \in {root, None}, NEW a, ~CanExecute(a)'
    PROVE  PriorityOf(a)' = PriorityOf(a)
<1>1. root' = root
  BY CanWithoutRootNext
<1> QED BY <1>1 DEF PriorityOf

(* What can execute in the next state. *)
Freed == {e \in queue : CanExecute(e.action)'}

LEMMA FreedRun ==
    ASSUME Kept', Patient, root' \in {root, None},
           queue' = queue \ Freed, neglected' \subseteq neglected,
           \A e \in queue' : e.action \in neglected => e.action \in neglected'
    PROVE  Patient'
<1>1. \A e \in queue' : e \in queue /\ ~CanExecute(e.action)'
  BY DEF Freed
<1>2. NothingEligibleWaits'
  BY <1>1 DEF NothingEligibleWaits, Ready
<1>3. \A e \in queue' : e.action \notin neglected' => e.priority = PriorityOf(e.action)'
  BY <1>1, SamePriority DEF Patient
<1> QED BY <1>1, <1>2, <1>3 DEF Patient

LEMMA FreedNeglected ==
    ASSUME Kept', Patient, root' \in {root, None}, queue' = queue, Neglect
    PROVE  Patient'
<1>1. neglected' = neglected \cup {e.action : e \in Freed}
  BY DEF Neglect, Freed
<1>2. NothingEligibleWaits'
  BY <1>1 DEF NothingEligibleWaits, Ready, Freed
<1>3. \A e \in queue : e.action \notin neglected' =>
            e.action \notin neglected /\ ~CanExecute(e.action)'
  BY <1>1 DEF Freed
<1>4. \A e \in queue : e.action \notin neglected' => e.priority = PriorityOf(e.action)'
  BY <1>3, SamePriority DEF Patient
<1>5. ASSUME NEW e \in queue, NEW f \in queue,
             ThunkOf[e.action] = ThunkOf[f.action], f.action \notin ImmediateActions,
             e.at < f.at, f.action \in neglected'
      PROVE  e.action \in neglected'
  <2>1. CASE f.action \in neglected
    BY <1>1, <1>5, <2>1 DEF Patient
  <2>2. CASE \E d \in Freed : d.action = f.action
    <3>1. CanExecute(f.action)'
      BY <2>2 DEF Freed
    <3>2. CanExecute(e.action)'
      BY <1>5, <3>1, CanAlike
    <3> QED BY <1>1, <3>2 DEF Freed
  <2> QED BY <1>1, <1>5, <2>1, <2>2
<1> QED BY <1>2, <1>4, <1>5 DEF Patient

(* The ghost keeps what is still in the queue. *)
LEMMA StillInQueue ==
    ASSUME Queued', StillNeglected
    PROVE  /\ neglected' \subseteq neglected
           /\ \A e \in queue' : e.action \in neglected => e.action \in neglected'
  BY DEF StillNeglected, Queued, ActionsOf

LEMMA SameQueue ==
    ASSUME Kept, Kept', Patient, root' = root, tasks' = tasks,
           queue' \subseteq queue, neglected' \subseteq neglected,
           \A e \in queue' : e.action \in neglected => e.action \in neglected'
    PROVE  Patient'
<1>1. \A e \in queue : /\ CanExecute(e.action)' <=> CanExecute(e.action)
                       /\ PriorityOf(e.action)' = PriorityOf(e.action)
  BY SameContext
<1>2. NothingEligibleWaits'
  BY <1>1 DEF Patient, NothingEligibleWaits, Ready
<1>3. \A e \in queue' : e.action \notin neglected' => e.priority = PriorityOf(e.action)'
  BY <1>1 DEF Patient
<1> QED BY <1>2, <1>3 DEF Patient

LEMMA EnqueuePatient ==
    ASSUME Kept, Kept', Queued, Patient, root' = root, tasks' = tasks,
           NEW a \in Actions, outcome[a] = "new", ~CanExecute(a),
           NEW gone \in SUBSET queue, queue' = (queue \ gone) \cup {Entry(a)},
           neglected' \subseteq neglected,
           \A e \in queue' : e.action \in neglected => e.action \in neglected'
    PROVE  Patient'
<1> DEFINE new == Entry(a)
<1>1. /\ new.action = a /\ new.at = Arrivals /\ new.priority = PriorityOf(a)
  BY DEF Entry
<1>2. queue' = (queue \ gone) \cup {new}
  OBVIOUS
<1> HIDE DEF new
<1>3. a \notin neglected
  BY DEF Queued, Dispatched
<1>4. \A b : /\ CanExecute(b)' <=> CanExecute(b)
             /\ PriorityOf(b)' = PriorityOf(b)
  BY SameContext
<1>5. NothingEligibleWaits'
  BY <1>1, <1>2, <1>4 DEF Patient, NothingEligibleWaits, Ready
<1>6. \A e \in queue' : e.action \notin neglected' => e.priority = PriorityOf(e.action)'
  BY <1>1, <1>2, <1>4 DEF Patient
<1>7. \A f \in queue : ~(new.at < f.at)
  <2>1. \A f \in queue : f.at \in Nat /\ f.at < Arrivals
    BY DEF Queued
  <2> QED BY <1>1, <2>1, ArrivalsNat
<1> QED BY <1>1, <1>2, <1>3, <1>5, <1>6, <1>7 DEF Patient

-----------------------------------------------------------------------------
(* The invariant. *)

CoreInv == Kept /\ Queued /\ Patient

LEMMA InitInv ==
    ASSUME QueueInit
    PROVE  CoreInv
<1>1. Kept
  BY KeptInit DEF QueueInit
<1>2. /\ queue = {} /\ executed = <<>> /\ outcome = [a \in Actions |-> "new"]
      /\ neglected = {}
  BY DEF QueueInit
<1>3. Dispatched = {} /\ ActionsOf(queue) = {} /\ ToSet(executed) = {}
  BY <1>2 DEF Dispatched, ActionsOf, ToSet
<1>4. Cardinality(queue) <= MaxQueueSize /\ IsFiniteSet(queue)
  BY <1>2, FS_EmptySet
<1>5. Queued
  BY <1>2, <1>3, <1>4, FS_EmptySet DEF Queued, Outcomes
<1>6. Patient
  BY <1>2 DEF Patient, NothingEligibleWaits, Ready
<1> QED BY <1>1, <1>5, <1>6 DEF CoreInv

LEMMA DispatchNowKeeps ==
    ASSUME CoreInv, NEW a \in Actions, DispatchNow(a)
    PROVE  CoreInv'
<1>1. /\ outcome[a] = "new" /\ CanExecute(a) /\ Drain(<<a>>, Ready)
      /\ StillNeglected
      /\ UNCHANGED <<thunks, begun, roots>>
  BY DEF DispatchNow, Drain
<1>2. Kept'
  BY <1>1, KeptStutter DEF CoreInv
<1>3. Queued'
  <2>1. <<a>> \in Seq(Actions) /\ ToSet(<<a>>) = {a}
    BY DEF ToSet
  <2>2. IsFiniteSet({a})
    BY FS_Singleton
  <2>3. Ready \in SUBSET queue
    BY DEF Ready
  <2>4. neglected' \subseteq neglected
    BY <1>1 DEF StillNeglected
  <2> QED BY <1>1, <2>1, <2>2, <2>3, <2>4, DrainKeeps DEF CoreInv
<1>4. Patient'
  <2>1. root' = root /\ tasks' = tasks
    BY <1>1 DEF thunks
  <2>2. Freed = Ready
    BY <1>2, <2>1, SameContext DEF CoreInv, Freed, Ready
  <2>3. queue' = queue \ Freed
    BY <1>1, <2>2 DEF Drain
  <2> QED BY <1>1, <1>2, <1>3, <2>1, <2>3, StillInQueue, FreedRun DEF CoreInv
<1> QED BY <1>2, <1>3, <1>4 DEF CoreInv

LEMMA DispatchLaterKeeps ==
    ASSUME CoreInv, NEW a \in Actions, DispatchLater(a)
    PROVE  CoreInv'
<1>1. /\ outcome[a] = "new" /\ ~CanExecute(a)
      /\ Cardinality(queue) < MaxQueueSize
      /\ queue' = queue \cup {Entry(a)}
      /\ outcome' = [outcome EXCEPT ![a] = "queued"]
      /\ UNCHANGED <<thunks, executed, begun, roots, neglected>>
  BY DEF DispatchLater
<1>2. Kept'
  BY <1>1, KeptStutter DEF CoreInv
<1>3. /\ queue \ {} = queue /\ {} \in SUBSET queue
      /\ queue' = (queue \ {}) \cup {Entry(a)}
      /\ Cardinality(queue \ {}) < MaxQueueSize
  BY <1>1
<1>4. Queued'
  <2>1. outcome' = [b \in Actions |->
                        IF b = a THEN "queued"
                        ELSE IF b \in ActionsOf({}) THEN "dropped" ELSE outcome[b]]
    BY <1>1 DEF CoreInv, Queued, ActionsOf
  <2> QED BY <1>1, <1>3, <2>1, EnqueueKeeps DEF CoreInv
<1>5. Patient'
  <2>1. root' = root /\ tasks' = tasks
    BY <1>1 DEF thunks
  <2> QED BY <1>1, <1>2, <1>3, <2>1, EnqueuePatient DEF CoreInv
<1> QED BY <1>2, <1>4, <1>5 DEF CoreInv

LEMMA DispatchOverflowsKeeps ==
    ASSUME CoreInv, NEW a \in Actions, DispatchOverflows(a)
    PROVE  CoreInv'
<1>1. /\ outcome[a] = "new" /\ ~CanExecute(a)
      /\ Cardinality(queue) = MaxQueueSize
      /\ StillNeglected /\ neglected' \subseteq neglected
      /\ UNCHANGED <<thunks, executed, begun, roots>>
  BY DEF DispatchOverflows, StillNeglected
<1>2. Kept' /\ root' = root /\ tasks' = tasks
  BY <1>1, KeptStutter DEF CoreInv, thunks
<1>3. CASE Droppable = {} /\ PriorityOf(a) <= Threshold
  <2>1. outcome' = [outcome EXCEPT ![a] = "rejected"] /\ queue' = queue
    BY <1>3 DEF DispatchOverflows
  <2>2. Queued'
    BY <1>1, <2>1, RejectKeeps DEF CoreInv
  <2>3. Patient'
    BY <1>1, <1>2, <2>1, <2>2, StillInQueue, SameQueue DEF CoreInv
  <2> QED BY <1>2, <2>2, <2>3 DEF CoreInv
<1>4. CASE ~(Droppable = {} /\ PriorityOf(a) <= Threshold)
  <2> DEFINE v == Victim(a)
  <2>1. /\ queue' = (queue \ {v}) \cup {Entry(a)}
        /\ outcome' = [outcome EXCEPT ![v.action] = "dropped", ![a] = "queued"]
    BY <1>4 DEF DispatchOverflows
  <2>2. v \in queue
    <3>1. queue # {}
      BY <1>1, FS_EmptySet
    <3> QED BY <3>1, VictimQueued DEF CoreInv
  <2> HIDE DEF v
  <2>3. Cardinality(queue \ {v}) < MaxQueueSize
    <3>1. Cardinality(queue \ {v}) = Cardinality(queue) - 1
      BY <2>2, FS_RemoveElement DEF CoreInv, Queued
    <3> QED BY <1>1, <3>1
  <2>4. outcome' = [b \in Actions |->
                        IF b = a THEN "queued"
                        ELSE IF b \in ActionsOf({v}) THEN "dropped" ELSE outcome[b]]
    <3>1. outcome \in [Actions -> Outcomes] /\ v.action \in Actions
      BY <2>2 DEF CoreInv, Queued
    <3>2. ActionsOf({v}) = {v.action}
      BY DEF ActionsOf
    <3> QED BY <2>1, <3>1, <3>2
  <2>5. {v} \in SUBSET queue
    BY <2>2
  <2>6. Queued'
    BY <1>1, <2>1, <2>3, <2>4, <2>5, EnqueueKeeps DEF CoreInv
  <2>7. Patient'
    BY <1>1, <1>2, <2>1, <2>5, <2>6, StillInQueue, EnqueuePatient DEF CoreInv
  <2> QED BY <1>2, <2>6, <2>7 DEF CoreInv
<1> QED BY <1>3, <1>4

LEMMA QueuedStutter ==
    ASSUME Queued, UNCHANGED scheduler, neglected' \subseteq Dispatched
    PROVE  Queued'
<1>1. /\ queue' = queue /\ executed' = executed /\ outcome' = outcome
      /\ Dispatched' = Dispatched /\ Arrivals' = Arrivals
  BY DEF scheduler, Dispatched, Arrivals
<1>2. ActionsOf(queue') = ActionsOf(queue)
  BY <1>1
<1> QED BY <1>1, <1>2 DEF Queued

LEMMA RegisterThunkKeeps ==
    ASSUME CoreInv, NEW t \in Thunks, OnRegisterThunk(t)
    PROVE  CoreInv'
<1>1. /\ t \notin begun /\ Register(t) /\ begun' = begun \cup {t}
      /\ UNCHANGED <<scheduler, roots, neglected>>
  BY DEF OnRegisterThunk
<1>2. Kept'
  BY <1>1, RegisterKeeps DEF CoreInv
<1>3. Queued'
  BY <1>1, QueuedStutter DEF CoreInv, Queued
<1>4. Patient'
  <2>1. root' = root /\ tasks' = tasks /\ queue' = queue
    BY <1>1 DEF Register, scheduler
  <2> QED BY <1>1, <1>2, <2>1, SameQueue DEF CoreInv
<1> QED BY <1>2, <1>3, <1>4 DEF CoreInv

(* When a thunk becomes the root there was none, and whatever waited waited
   in vain. *)
LEMMA ExecuteThunkKeeps ==
    ASSUME CoreInv, NEW t \in Thunks, OnExecuteThunk(t)
    PROVE  CoreInv'
<1>1. /\ Execute(t) /\ roots' = roots \cup ({root'} \ {None})
      /\ UNCHANGED <<scheduler, begun, neglected>>
  BY DEF OnExecuteThunk
<1>2. /\ Kept' /\ tasks' = tasks
      /\ root # None => root' = root
  BY <1>1, ExecuteKeeps DEF CoreInv
<1>3. Queued'
  BY <1>1, QueuedStutter DEF CoreInv, Queued
<1>4. queue' = queue
  BY <1>1 DEF scheduler
<1>5. Patient'
  <2>1. CASE root # None
    BY <1>1, <1>2, <1>4, <2>1, SameQueue DEF CoreInv
  <2>2. CASE root = None
    <3>1. \A e \in queue : CanExecute(e.action)
      BY <2>2, CanWithoutRoot DEF CoreInv
    <3>2. \A e \in queue : e.action \in neglected
      BY <3>1 DEF CoreInv, Patient, NothingEligibleWaits, Ready
    <3> QED BY <1>1, <1>4, <3>2 DEF Patient, NothingEligibleWaits, Ready
  <2> QED BY <2>1, <2>2
<1> QED BY <1>2, <1>3, <1>5 DEF CoreInv

LEMMA OnThunkCompleteKeeps ==
    ASSUME CoreInv, NEW t \in Thunks, OnThunkComplete(t)
    PROVE  CoreInv'
<1>1. /\ Complete(t) /\ Drain(<<>>, Freed)
      /\ StillNeglected
      /\ UNCHANGED <<begun, roots>>
  BY DEF OnThunkComplete, Freed, Drain
<1>2. Kept'
  BY <1>1, CompleteKeeps DEF CoreInv
<1>3. Queued'
  <2>1. <<>> \in Seq(Actions) /\ ToSet(<<>>) = {}
    BY DEF ToSet
  <2>2. IsFiniteSet({})
    BY FS_EmptySet
  <2>3. Freed \in SUBSET queue
    BY DEF Freed
  <2>4. neglected' \subseteq neglected
    BY <1>1 DEF StillNeglected
  <2> QED BY <1>1, <2>1, <2>2, <2>3, <2>4, DrainKeeps DEF CoreInv
<1>4. Patient'
  <2>1. root' \in {root, None}
    BY <1>1 DEF Complete
  <2>2. queue' = queue \ Freed
    BY <1>1 DEF Drain
  <2> QED BY <1>1, <1>2, <1>3, <2>1, <2>2, StillInQueue, FreedRun DEF CoreInv
<1> QED BY <1>2, <1>3, <1>4 DEF CoreInv

LEMMA NeglectKeeps ==
    ASSUME CoreInv, Kept', root' \in {root, None}, UNCHANGED scheduler, Neglect
    PROVE  CoreInv'
<1>1. queue' = queue
  BY DEF scheduler
<1>2. neglected' = neglected \cup ActionsOf(Freed)
  BY DEF Neglect, Freed, ActionsOf
<1>3. neglected' \subseteq Dispatched
  <2>1. \A e \in queue : e.action \in Dispatched
    BY DEF CoreInv, Queued, ActionsOf, Dispatched
  <2> QED BY <1>2, <2>1 DEF CoreInv, Queued, ActionsOf, Freed
<1>4. Queued'
  BY <1>3, QueuedStutter DEF CoreInv
<1>5. Patient'
  BY <1>1, FreedNeglected DEF CoreInv
<1> QED BY <1>4, <1>5 DEF CoreInv

LEMMA TaskStartsKeeps ==
    ASSUME CoreInv, TaskStarts
    PROVE  CoreInv'
<1>1. PICK k \in TaskIds, t \in Registered, concurrent \in BOOLEAN :
        /\ StartTask(k, t, concurrent) /\ Neglect
        /\ UNCHANGED <<scheduler, begun, roots>>
  BY DEF TaskStarts
<1>2. /\ tasks' = tasks \cup {[id |-> k, thunk |-> t, concurrent |-> concurrent]}
      /\ records' = records /\ root' = root
  BY <1>1 DEF StartTask
<1>3. t \in Thunks
  BY DEF CoreInv, Kept, ThunksTypeOK
<1>4. \A task \in tasks' : task \in Task /\ task.thunk \in Registered
  BY <1>2, <1>3 DEF CoreInv, Kept, Task
<1>5. Kept'
  BY <1>1, <1>2, <1>4, TasksKeep DEF CoreInv
<1> QED BY <1>1, <1>2, <1>5, NeglectKeeps

LEMMA TaskEndsKeeps ==
    ASSUME CoreInv, TaskEnds
    PROVE  CoreInv'
<1>1. PICK k \in {task.id : task \in tasks} :
        /\ CompleteTask(k) /\ Neglect
        /\ UNCHANGED <<scheduler, begun, roots>>
  BY DEF TaskEnds
<1>2. /\ tasks' \subseteq tasks
      /\ records' = records /\ root' = root
  BY <1>1 DEF CompleteTask
<1>3. \A task \in tasks' : task \in Task /\ task.thunk \in Registered
  BY <1>2 DEF CoreInv, Kept
<1>4. Kept'
  BY <1>1, <1>2, <1>3, TasksKeep DEF CoreInv
<1> QED BY <1>1, <1>2, <1>4, NeglectKeeps

LEMMA WindowClosedKeeps ==
    ASSUME CoreInv, WebviewClosed
    PROVE  CoreInv'
<1>1. PICK label \in {LabelOf[t] : t \in Registered} :
        /\ DropLabel(label) /\ Neglect
        /\ UNCHANGED <<scheduler, begun, roots>>
  BY DEF WebviewClosed
<1>2. root' \in {root, None}
  BY <1>1 DEF DropLabel
<1>3. Kept'
  BY <1>1, DropLabelKeeps DEF CoreInv
<1> QED BY <1>1, <1>2, <1>3, NeglectKeeps

LEMMA NextInv ==
    ASSUME CoreInv, [QueueNext]_queueVars
    PROVE  CoreInv'
<1>1. ASSUME NEW a \in Actions, DispatchNow(a) PROVE CoreInv'
  BY <1>1, DispatchNowKeeps
<1>2. ASSUME NEW a \in Actions, DispatchLater(a) PROVE CoreInv'
  BY <1>2, DispatchLaterKeeps
<1>3. ASSUME NEW a \in Actions, DispatchOverflows(a) PROVE CoreInv'
  BY <1>3, DispatchOverflowsKeeps
<1>4. ASSUME NEW t \in Thunks, OnRegisterThunk(t) PROVE CoreInv'
  BY <1>4, RegisterThunkKeeps
<1>5. ASSUME NEW t \in Thunks, OnExecuteThunk(t) PROVE CoreInv'
  BY <1>5, ExecuteThunkKeeps
<1>6. ASSUME NEW t \in Thunks, OnThunkComplete(t) PROVE CoreInv'
  BY <1>6, OnThunkCompleteKeeps
<1>7. ASSUME TaskStarts PROVE CoreInv'
  BY <1>7, TaskStartsKeeps
<1>8. ASSUME TaskEnds PROVE CoreInv'
  BY <1>8, TaskEndsKeeps
<1>9. ASSUME WebviewClosed PROVE CoreInv'
  BY <1>9, WindowClosedKeeps
<1>10. CASE UNCHANGED queueVars
  <2>1. /\ UNCHANGED <<thunks, begun, roots>>
        /\ UNCHANGED scheduler /\ neglected' = neglected
    BY <1>10 DEF queueVars
  <2>2. Kept'
    BY <2>1, KeptStutter DEF CoreInv
  <2>3. Queued'
    BY <2>1, QueuedStutter DEF CoreInv, Queued
  <2>4. root' = root /\ tasks' = tasks /\ queue' = queue
    BY <2>1 DEF thunks, scheduler
  <2>5. Patient'
    BY <2>1, <2>2, <2>4, SameQueue DEF CoreInv
  <2> QED BY <2>2, <2>3, <2>5 DEF CoreInv
<1> QED BY <1>1, <1>2, <1>3, <1>4, <1>5, <1>6, <1>7, <1>8, <1>9, <1>10 DEF QueueNext

(* The invariant holds in every state of every behaviour. *)
THEOREM CoreInvariant == QueueSpec => []CoreInv
<1>1. QueueInit => CoreInv
  BY InitInv
<1>2. CoreInv /\ [QueueNext]_queueVars => CoreInv'
  BY NextInv
<1> QED BY <1>1, <1>2, PTL DEF QueueSpec

(* An action that nothing blocks does not wait, but for those whose obstacle
   was taken away behind the scheduler. *)
THEOREM CoreEligible == QueueSpec => []NothingEligibleWaits
<1>1. CoreInv => NothingEligibleWaits
  BY DEF CoreInv, Patient
<1> QED BY <1>1, CoreInvariant, PTL

(* An unbroken chain ends in the one top of its thunk. *)
LEMMA TopmostIsTop ==
    ASSUME NEW t \in Thunks, Lineage[t] \subseteq Registered
    PROVE  Tops(t) = {Topmost[t]}
<1> DEFINE Good(u) == Lineage[u] \subseteq Registered => Tops(u) = {Topmost[u]}
           bad == {u \in Thunks : ~Good(u)}
<1>1. SUFFICES ASSUME bad # {} PROVE FALSE
  OBVIOUS
<1>2. PICK u \in bad : Parent[u] \notin bad
  <2>1. bad \in SUBSET Thunks \ {{}}
    BY <1>1
  <2> HIDE DEF bad
  <2> QED BY <2>1
<1>3. u \in Thunks /\ ~Good(u)
  OBVIOUS
<1>4. u \in Registered /\ Lineage[u] \subseteq Registered
  BY <1>3, LineageClosed
<1>5. CASE Parent[u] = None
  <2>1. Tops(u) = {u}
    BY <1>3, <1>5, LineageOfTop DEF Tops
  <2> QED BY <1>3, <1>4, <1>5, <2>1, TopmostRecursive
<1>6. CASE Parent[u] # None
  <2>1. /\ Parent[u] \in Thunks /\ Good(Parent[u])
        /\ Lineage[u] = {u} \cup Lineage[Parent[u]]
    BY <1>2, <1>3, <1>6, LineageOfNested
  <2>2. Tops(u) = Tops(Parent[u])
    BY <1>6, <2>1 DEF Tops
  <2>3. Topmost[u] = Topmost[Parent[u]]
    BY <1>3, <1>4, <1>6, TopmostRecursive
  <2> QED BY <1>3, <1>4, <2>1, <2>2, <2>3
<1> QED BY <1>5, <1>6

(* The stamp of a nested thunk is its top, whichever of its ancestors have
   ended since, but for those registered below a broken chain; and only a
   thunk without a parent is ever the root. *)
Linked ==
    /\ \A u \in roots : Parent[u] = None
    /\ \A t \in Registered \ unlinked :
          Parent[t] # None => Tops(t) = {records[t].root}

LEMMA LinkedFewer ==
    ASSUME Linked, Registered' \subseteq Registered, unlinked' = unlinked,
           \A t \in Registered' : records'[t].root = records[t].root,
           \A u \in roots' \ roots : Parent[u] = None
    PROVE  Linked'
<1>1. \A t \in Registered' \ unlinked' :
         Parent[t] # None => Tops(t) = {records'[t].root}
  BY DEF Linked
<1>2. \A u \in roots' : Parent[u] = None
  BY DEF Linked
<1> QED BY <1>1, <1>2 DEF Linked

LEMMA RemovalLinks ==
    ASSUME Linked, NEW gone, records' = Without(gone), unlinked' = unlinked, roots' = roots
    PROVE  Linked'
<1>1. Registered' = Registered \ gone /\ \A t \in Registered' : records'[t] = records[t]
  BY DEF Without, Restrict, Registered
<1> QED BY <1>1, LinkedFewer

LEMMA RegisterLinks ==
    ASSUME Linked, NEW t \in Thunks, OnRegisterThunk(t)
    PROVE  Linked'
<1> DEFINE top == IF Parent[t] = None THEN None ELSE Topmost[Parent[t]]
<1>1. /\ roots' = roots /\ t \notin Registered
      /\ records' = [u \in Registered \cup {t} |->
                        IF u = t THEN [state |-> "pending", root |-> top] ELSE records[u]]
      /\ unlinked' = IF Parent[t] # None /\ ~(Lineage[Parent[t]] \subseteq Registered)
                     THEN unlinked \cup {t} ELSE unlinked
  BY DEF OnRegisterThunk, Register, WithRecord, MayRegister
<1> HIDE DEF top
<1>2. /\ Registered' = Registered \cup {t}
      /\ \A u \in Registered : records'[u] = records[u]
      /\ records'[t].root = top
  BY <1>1 DEF Registered
<1>3. ASSUME t \notin unlinked', Parent[t] # None
      PROVE  Tops(t) = {top}
  <2>1. /\ Parent[t] \in Thunks /\ Lineage[Parent[t]] \subseteq Registered
        /\ Lineage[t] = {t} \cup Lineage[Parent[t]]
    BY <1>1, <1>3, LineageOfNested
  <2>2. Tops(t) = Tops(Parent[t])
    BY <1>3, <2>1 DEF Tops
  <2> QED BY <1>3, <2>1, <2>2, TopmostIsTop DEF top
<1>4. \A u \in Registered' \ unlinked' :
         Parent[u] # None => Tops(u) = {records'[u].root}
  BY <1>1, <1>2, <1>3 DEF Linked
<1>5. \A u \in roots' : Parent[u] = None
  BY <1>1 DEF Linked
<1> QED BY <1>4, <1>5 DEF Linked

LEMMA ExecuteLinks ==
    ASSUME CoreInv, Linked, NEW t \in Thunks, OnExecuteThunk(t)
    PROVE  Linked'
<1>1. /\ t \in Registered
      /\ records' = [records EXCEPT ![t].state = "executing"]
      /\ root' = (IF root = None /\ Parent[t] = None THEN t ELSE root)
      /\ roots' = roots \cup ({root'} \ {None})
      /\ unlinked' = unlinked
  BY DEF OnExecuteThunk, Execute, RootWith
<1>2. records \in [Registered -> Record] /\ (root = None \/ root \in roots)
  BY DEF CoreInv, Kept
<1>3. Registered' = Registered /\ \A u \in Registered' : records'[u].root = records[u].root
  BY <1>1, <1>2 DEF Registered, Record
<1>4. \A u \in roots' \ roots : Parent[u] = None
  BY <1>1, <1>2
<1> QED BY <1>1, <1>3, <1>4, LinkedFewer

LEMMA NextLinked ==
    ASSUME CoreInv, Linked, [QueueNext]_queueVars
    PROVE  Linked'
<1>1. ASSUME records' = records, roots' = roots, unlinked' = unlinked
      PROVE  Linked'
  BY <1>1, LinkedFewer DEF Registered
<1>2. ASSUME NEW a \in Actions, DispatchNow(a) \/ DispatchLater(a) \/ DispatchOverflows(a)
      PROVE  Linked'
  BY <1>1, <1>2 DEF DispatchNow, DispatchLater, DispatchOverflows, thunks
<1>3. ASSUME NEW t \in Thunks, OnRegisterThunk(t) PROVE Linked'
  BY <1>3, RegisterLinks
<1>4. ASSUME NEW t \in Thunks, OnExecuteThunk(t) PROVE Linked'
  BY <1>4, ExecuteLinks
<1>5. ASSUME NEW t \in Thunks, OnThunkComplete(t) PROVE Linked'
  <2>1. /\ records' = Without({t} \cup (IF root = t THEN Descendants(t) ELSE {}))
        /\ unlinked' = unlinked /\ roots' = roots
    BY <1>5 DEF OnThunkComplete, Complete
  <2> QED BY <2>1, RemovalLinks
<1>6. ASSUME TaskStarts \/ TaskEnds PROVE Linked'
  BY <1>1, <1>6 DEF TaskStarts, TaskEnds, StartTask, CompleteTask
<1>7. ASSUME WebviewClosed PROVE Linked'
  <2>1. PICK label \in {LabelOf[t] : t \in Registered} :
          DropLabel(label) /\ UNCHANGED <<roots, unlinked>>
    BY <1>7 DEF WebviewClosed
  <2>2. records' = Without({t \in Registered : LabelOf[t] = label})
    BY <2>1 DEF DropLabel
  <2> QED BY <2>1, <2>2, RemovalLinks
<1>8. CASE UNCHANGED queueVars
  BY <1>1, <1>8 DEF queueVars, thunks
<1> QED BY <1>2, <1>3, <1>4, <1>5, <1>6, <1>7, <1>8 DEF QueueNext

THEOREM CoreLinks == QueueSpec => []Linked
<1>1. QueueInit => Linked
  BY DEF QueueInit, ThunksInit, Linked, Registered
<1>2. CoreInv /\ Linked /\ [QueueNext]_queueVars => Linked'
  BY NextLinked
<1> QED BY <1>1, <1>2, CoreInvariant, PTL DEF QueueSpec

(* The root and the tasks refer to thunks that are registered, no thunk
   outlives an earlier root among its ancestors, but for those registered
   below a broken chain, and the state keeps its types. *)
THEOREM CoreRegistry == QueueSpec => []NothingDangling
<1>1. CoreInv => QueueTypeOK
  BY DEF CoreInv, Kept, Queued, ActionsOf, QueueTypeOK
<1>2. CoreInv => /\ root # None => HasActiveRoot
                 /\ \A k \in tasks : k.thunk \in Registered
  BY DEF CoreInv, Kept
<1>3. ASSUME CoreInv, Linked, NEW t \in Registered \ unlinked, NEW u \in Lineage[t] \cap roots
      PROVE  u \in Registered
  <2>1. t \in Thunks /\ None \notin roots
    BY <1>3 DEF CoreInv, Kept, ThunksTypeOK
  <2>2. CASE Parent[t] = None
    BY <1>3, <2>1, <2>2, LineageOfTop
  <2>3. CASE Parent[t] # None
    <3>1. u \in Tops(t)
      BY <1>3 DEF Linked, Tops
    <3>2. u = records[t].root
      BY <1>3, <2>3, <3>1 DEF Linked
    <3> QED BY <1>3, <2>1, <3>2 DEF CoreInv, Kept
  <2> QED BY <2>2, <2>3
<1>4. CoreInv /\ Linked => NothingDangling
  BY <1>1, <1>2, <1>3 DEF NothingDangling
<1> QED BY <1>4, CoreInvariant, CoreLinks, PTL

-----------------------------------------------------------------------------
(* The order of the actions of a thunk. *)

(* What a drain runs after another entry of the queue. *)
LEMMA DrainInOrder ==
    ASSUME Queued, NEW before \in Seq(Actions), NEW ready \in SUBSET queue,
           Drain(before, ready), NEW e \in ready, NEW f \in ready, Before(e, f)
    PROVE  RunsBefore(e.action, f.action)'
<1> DEFINE order == InOrder(ready)
           m == Len(executed)
           n == Len(before)
<1>1. PICK i \in DOMAIN order, j \in DOMAIN order :
        i < j /\ order[i] = e.action /\ order[j] = f.action
  <2>1. Sortable(ready)
    BY QueuedSortable
  <2>2. \E i, j \in DOMAIN order :
            i < j /\ order[i] = e.action /\ order[j] = f.action
    BY <2>1, InOrderSorts
  <2> QED BY <2>2
<1>2. executed' = executed \o (before \o order)
  BY DEF Drain
<1>3. order \in Seq(Actions) /\ before \o order \in Seq(Actions) /\ executed \in Seq(Actions)
  BY DrainRuns DEF Queued
<1> HIDE DEF order
<1>4. \A l \in 1..Len(order) : /\ n + l \in 1..Len(before \o order)
                               /\ (before \o order)[n + l] = order[l]
  BY <1>3
<1> DEFINE run == before \o order
<1>5. run \in Seq(Actions) /\ executed' = executed \o run
  BY <1>2, <1>3
<1> HIDE DEF run
<1>6. \A l \in 1..Len(run) : /\ m + l \in 1..Len(executed')
                             /\ executed'[m + l] = run[l]
  BY <1>3, <1>5
<1>7. executed' \in Seq(Actions)
  BY <1>3, <1>5
<1>8. i \in 1..Len(order) /\ j \in 1..Len(order) /\ m \in Nat /\ n \in Nat
  BY <1>1, <1>3
<1> HIDE DEF m, n
<1>9. n + i \in 1..Len(run) /\ n + j \in 1..Len(run)
      /\ run[n + i] = e.action /\ run[n + j] = f.action
  BY <1>1, <1>4, <1>8 DEF run
<1>10. m + (n + i) < m + (n + j)
  BY <1>1, <1>8
<1>11. m + (n + i) \in DOMAIN executed' /\ m + (n + j) \in DOMAIN executed'
       /\ executed'[m + (n + i)] = e.action /\ executed'[m + (n + j)] = f.action
  BY <1>6, <1>7, <1>9
<1> QED BY <1>10, <1>11 DEF RunsBefore

LEMMA StepInOrder ==
    ASSUME CoreInv, CoreInv', [QueueNext]_queueVars, NEW e \in queue, NEW b \in Actions,
           outcome[b] # "executed", outcome'[b] = "executed",
           Overtakes(b, e), e.action \notin neglected
    PROVE  RunsBefore(e.action, b)'
<1>1. /\ b # e.action /\ ThunkOf[b] = ThunkOf[e.action] /\ b \notin ImmediateActions
      /\ \A f \in queue : f.action = b => f.at > e.at
  BY DEF Overtakes
<1>2. ~CanExecute(e.action)
  BY DEF CoreInv, Patient, NothingEligibleWaits, Ready
<1>3. ~CanExecute(b)
  BY <1>1, <1>2, CanAlike
<1>4. ASSUME NEW before \in Seq(Actions), NEW ready \in SUBSET queue,
             Drain(before, ready)
      PROVE  b \in ToSet(before) \/ \E f \in ready : f.action = b
  <2>1. ToSet(before \o InOrder(ready)) = ToSet(before) \cup ActionsOf(ready)
    BY DrainRuns DEF CoreInv
  <2>2. outcome'[b] = IF b \in ToSet(before) \cup ActionsOf(ready)
                      THEN "executed" ELSE outcome[b]
    BY <1>4, <2>1 DEF Drain
  <2> QED BY <2>2 DEF ActionsOf
<1>5. ASSUME NEW a \in Actions, DispatchNow(a) PROVE FALSE
  <2>1. CanExecute(a) /\ Drain(<<a>>, Ready)
    BY <1>5 DEF DispatchNow
  <2>2. <<a>> \in Seq(Actions) /\ ToSet(<<a>>) = {a} /\ Ready \in SUBSET queue
    BY DEF ToSet, Ready
  <2>3. b = a \/ \E f \in Ready : f.action = b
    BY <1>4, <2>1, <2>2
  <2> QED BY <1>3, <2>1, <2>3 DEF Ready
<1>6. ASSUME NEW t \in Thunks, OnThunkComplete(t) PROVE RunsBefore(e.action, b)'
  <2>1. Drain(<<>>, Freed)
    BY <1>6 DEF OnThunkComplete, Freed
  <2>2. <<>> \in Seq(Actions) /\ ToSet(<<>>) = {} /\ Freed \in SUBSET queue
    BY DEF ToSet, Freed
  <2>3. PICK f \in Freed : f.action = b
    BY <1>4, <2>1, <2>2
  <2>4. f \in queue /\ CanExecute(b)' /\ e.at < f.at
    BY <1>1, <2>3 DEF Freed, CoreInv, Queued
  <2>5. e \in Freed
    BY <1>1, <2>4, CanAlike DEF Freed
  <2>6. b \notin neglected
    BY <1>1, <2>3, <2>4 DEF CoreInv, Patient
  <2>7. e.priority = PriorityOf(e.action) /\ f.priority = PriorityOf(b)
    BY <2>3, <2>4, <2>6 DEF CoreInv, Patient
  <2>8. e.action \notin ImmediateActions
    BY <1>2 DEF CanExecute
  <2>9. e.priority = f.priority
    BY <1>1, <2>7, <2>8 DEF PriorityOf
  <2>10. Before(e, f)
    BY <2>4, <2>9 DEF Before
  <2> QED BY <2>1, <2>2, <2>3, <2>5, <2>10, DrainInOrder DEF CoreInv
<1>7. ASSUME UNCHANGED outcome PROVE FALSE
  BY <1>7
<1>8. ASSUME NEW a \in Actions, DispatchLater(a) PROVE FALSE
  BY <1>8 DEF DispatchLater, CoreInv, Queued
<1>9. ASSUME NEW a \in Actions, DispatchOverflows(a) PROVE FALSE
  BY <1>9 DEF DispatchOverflows, CoreInv, Queued
<1>10. ASSUME NEW t \in Thunks, OnRegisterThunk(t) \/ OnExecuteThunk(t) PROVE FALSE
  BY <1>7, <1>10 DEF OnRegisterThunk, OnExecuteThunk, scheduler
<1>11. ASSUME TaskStarts \/ TaskEnds \/ WebviewClosed PROVE FALSE
  BY <1>7, <1>11 DEF TaskStarts, TaskEnds, WebviewClosed, scheduler
<1>12. CASE UNCHANGED queueVars
  BY <1>7, <1>12 DEF queueVars, scheduler
<1> QED BY <1>5, <1>6, <1>8, <1>9, <1>10, <1>11, <1>12 DEF QueueNext

(* An action of a thunk that runs while an earlier one of that thunk waits
   runs in the same drain, after it. *)
THEOREM CoreOrder == QueueSpec => NoOvertaking
<1>1. CoreInv /\ CoreInv' /\ [QueueNext]_queueVars
        => [\A e \in queue, b \in Actions :
              /\ outcome[b] # "executed" /\ outcome'[b] = "executed"
              /\ Overtakes(b, e) /\ e.action \notin neglected
              => RunsBefore(e.action, b)']_queueVars
  BY StepInOrder
<1> QED BY <1>1, CoreInvariant, PTL DEF QueueSpec, NoOvertaking

-----------------------------------------------------------------------------
(* Thunks of a Tauri application: programs and the registry. *)

(* Every thunk from t up is awaited by the one above it. *)
AwaitedLine(t) == \A u \in Lineage[t] : Parent[u] # None => u \in Awaited

LEMMA AwaitedLineRecursive ==
    ASSUME NEW t \in Thunks
    PROVE  AwaitedLine(t) <=> Parent[t] = None \/ (t \in Awaited /\ AwaitedLine(Parent[t]))
<1>1. CASE Parent[t] = None
  BY <1>1, LineageOfTop DEF AwaitedLine
<1>2. CASE Parent[t] # None
  BY <1>2, LineageOfNested DEF AwaitedLine
<1> QED BY <1>1, <1>2

LEMMA AwaitedChainRecursive ==
    ASSUME NEW t \in Thunks
    PROVE  InAwaitedChain[t] <=>
             Parent[t] = None \/ (t \in Awaited /\ InAwaitedChain[Parent[t]])
<1> DEFINE Step(f) ==
             [u \in Thunks |-> Parent[u] = None \/ (u \in Awaited /\ f[Parent[u]])]
           line == [u \in Thunks |-> AwaitedLine(u)]
<1>1. line = Step(line)
  <2>1. ASSUME NEW u \in Thunks
        PROVE  AwaitedLine(u) = (Parent[u] = None \/ (u \in Awaited /\ line[Parent[u]]))
    <3>1. CASE Parent[u] = None
      <4>1. AwaitedLine(u)
        BY <3>1, AwaitedLineRecursive
      <4> QED BY <3>1, <4>1
    <3>2. CASE Parent[u] # None
      <4>1. Parent[u] \in Thunks
        BY <3>2
      <4>2. line[Parent[u]] = AwaitedLine(Parent[u])
        BY <4>1
      <4>3. AwaitedLine(u) <=> u \in Awaited /\ AwaitedLine(Parent[u])
        BY <3>2, AwaitedLineRecursive
      <4>4. AwaitedLine(u) \in BOOLEAN
        BY DEF AwaitedLine
      <4> QED BY <3>2, <4>2, <4>3, <4>4
    <3> QED BY <3>1, <3>2
  <2> QED BY <2>1
<1>2. InAwaitedChain = CHOOSE f : f = Step(f)
  BY DEF InAwaitedChain
<1>3. \E f : f = Step(f)
  BY <1>1
<1>4. InAwaitedChain = Step(InAwaitedChain)
  <2> HIDE DEF Step
  <2> QED BY <1>2, <1>3
<1> QED BY <1>4

LEMMA AwaitedChainLine ==
    ASSUME NEW t \in Thunks, InAwaitedChain[t]
    PROVE  AwaitedLine(t)
<1> DEFINE bad == {u \in Thunks : InAwaitedChain[u] /\ ~AwaitedLine(u)}
<1>1. SUFFICES ASSUME bad # {} PROVE FALSE
  OBVIOUS
<1>2. PICK u \in bad : Parent[u] \notin bad
  <2>1. bad \in SUBSET Thunks \ {{}}
    BY <1>1
  <2> HIDE DEF bad
  <2> QED BY <2>1
<1>3. Parent[u] # None => Parent[u] \in Thunks
  OBVIOUS
<1> QED BY <1>2, <1>3, AwaitedChainRecursive, AwaitedLineRecursive

(* The messages of a thunk. *)
Asks(t) == Command("register", t) \in commands
Granted(t) == Command("registered", t) \in answers
Denied(t) == Command("refused", t) \in answers
Reports(t) == Command("complete", t) \in commands
Noted(t) == Command("completed", t) \in answers

LEMMA CommandsDiffer ==
    \A k1, x1, k2, x2 : Command(k1, x1) = Command(k2, x2) <=> k1 = k2 /\ x1 = x2
  BY DEF Command

(* A program, the registry and the messages between them are in step. *)
Thread(t) ==
    /\ Asks(t) => /\ body[t] \in {"registering", "gone"} /\ t \notin Registered
                  /\ ~Granted(t) /\ ~Denied(t)
                  /\ body[t] = "gone" => t \in deserted
    /\ Granted(t) => body[t] \in {"registering", "gone"} /\ ~Denied(t)
    /\ Denied(t) => body[t] \in {"registering", "gone"} /\ t \notin Registered
    /\ Reports(t) => body[t] \in {"completing", "gone"} /\ ~Noted(t)
    /\ Noted(t) => body[t] \in {"completing", "gone"}
    /\ Noted(t) /\ body[t] = "completing" => t \notin Registered
    /\ body[t] = "new" => t \notin Registered
    /\ t \in Registered \ deserted => body[t] \in Live
    /\ t \in Registered \ deserted /\ body[t] \in InBody => Up(LabelOf[t])
    /\ body[t] = "registering" /\ ~Up(LabelOf[t]) => t \in deserted
    /\ body[t] = "gone" <=> client[LabelOf[t]] = "gone"
    /\ t \in deserted => ~Up(LabelOf[t])

(* Who awaits a nested thunk stays in its body, and what is awaited down from
   the root is registered for as long as its own body lasts. *)
Chained(t) ==
    /\ Parent[t] # None /\ t \in Awaited /\ body[t] \in Live => body[Parent[t]] = "running"
    /\ InAwaitedChain[t] /\ t \notin deserted =>
          /\ body[t] # "refused"
          /\ body[t] = "registering" => ~Denied(t)
          /\ body[t] = "registering" /\ Granted(t) => t \in Registered
          /\ body[t] \in InBody /\ Up(LabelOf[t]) => t \in Registered

Bodies == Live \cup {"new", "ended", "refused", "gone"}

Threads ==
    /\ ThunksTypeOK
    /\ client \in [Windows -> {"up", "down", "gone"}]
    /\ body \in [Thunks -> Bodies]
    /\ records \in [Registered -> Record]
    /\ root # None => root \in Registered
    /\ \A t \in Registered : records[t].root # None => records[t].root \in Lineage[t]
    /\ \A t \in Thunks : Thread(t) /\ Chained(t)

LEMMA ParentDiffers ==
    ASSUME NEW t \in Thunks
    PROVE  Parent[t] # t /\ (Parent[t] # None => Parent[t] \in Thunks
                                                 /\ LabelOf[Parent[t]] = LabelOf[t])
<1>1. {t} \in SUBSET Thunks \ {{}}
  OBVIOUS
<1>2. \E u \in {t} : Parent[u] \notin {t}
  BY <1>1
<1> QED BY <1>2

LEMMA BodySets ==
    /\ InBody = {"running", "flushing"}
    /\ Live = {"registering", "completing", "running", "flushing"}
  BY DEF InBody, Live

(* Above a live thunk that is awaited down from the root every body runs. *)
LEMMA AncestorsRun ==
    ASSUME Threads, NEW t \in Thunks, InAwaitedChain[t], body[t] \in Live,
           NEW u \in Lineage[t], u # t
    PROVE  body[u] = "running"
<1> DEFINE S == {v \in Lineage[t] : v = t \/ body[v] = "running"}
<1>1. t \in Lineage[t] /\ Closed(Lineage[t]) /\ Lineage[t] \in SUBSET Thunks
  BY LineageClosed
<1>2. ASSUME NEW v \in S, Parent[v] # None
      PROVE  Parent[v] \in S
  <2>1. v \in Thunks /\ Parent[v] \in Lineage[t]
    BY <1>1, <1>2 DEF Closed
  <2>2. body[v] \in Live
    BY BodySets
  <2>3. v \in Awaited
    BY <1>2, AwaitedChainLine DEF AwaitedLine
  <2>4. body[Parent[v]] = "running"
    BY <1>2, <2>1, <2>2, <2>3 DEF Threads, Chained
  <2> QED BY <2>1, <2>4
<1>3. Closed(S) /\ S \in SUBSET Thunks /\ t \in S
  BY <1>1, <1>2 DEF Closed
<1>4. Lineage[t] \subseteq S
  <2> HIDE DEF S
  <2> QED BY <1>3, LineageLeast
<1> QED BY <1>4

(* The messages of a thunk, in a step. *)
SameMessages(t) ==
    /\ Asks(t)' <=> Asks(t)
    /\ Granted(t)' <=> Granted(t)
    /\ Denied(t)' <=> Denied(t)
    /\ Reports(t)' <=> Reports(t)
    /\ Noted(t)' <=> Noted(t)

(* What moves no program, but for one that awaits a flush, and sends none of
   their messages. *)
LEMMA ThreadsUnmoved ==
    ASSUME Threads, UNCHANGED <<thunks, client, deserted>>,
           body' \in [Thunks -> Bodies],
           \A t \in Thunks : SameMessages(t),
           \A t \in Thunks : body'[t] = body[t]
                             \/ (body[t] = "flushing" /\ body'[t] = "running")
    PROVE  Threads'
<1>1. records' = records /\ root' = root /\ tasks' = tasks /\ Registered' = Registered
  BY DEF thunks, Registered
<1>2. ASSUME NEW t \in Thunks
      PROVE  Thread(t)'
  <2>1. Thread(t) /\ Up(LabelOf[t])' = Up(LabelOf[t])
    BY DEF Threads, Up
  <2>2. CASE body'[t] = body[t]
    BY <1>1, <2>1, <2>2 DEF Thread, SameMessages
  <2>3. CASE body[t] = "flushing" /\ body'[t] = "running"
    BY <1>1, <2>1, <2>3, BodySets DEF Thread, SameMessages
  <2> QED BY <2>2, <2>3
<1>3. ASSUME NEW t \in Thunks
      PROVE  Chained(t)'
  <2>1. Chained(t) /\ Up(LabelOf[t])' = Up(LabelOf[t])
    BY DEF Threads, Up
  <2>2. Parent[t] # None => Parent[t] \in Thunks
    BY ParentDiffers
  <2>3. /\ body'[t] \in Live <=> body[t] \in Live
        /\ body'[t] \in InBody <=> body[t] \in InBody
        /\ body'[t] = "registering" <=> body[t] = "registering"
        /\ body'[t] = "refused" <=> body[t] = "refused"
        /\ Parent[t] # None /\ body[Parent[t]] = "running" => body'[Parent[t]] = "running"
    BY <2>2, BodySets
  <2> QED BY <1>1, <2>1, <2>3 DEF Chained, SameMessages
<1> QED BY <1>1, <1>2, <1>3 DEF Threads, ThunksTypeOK

(* What moves one program, which goes on only when it awaits nothing. *)
LEMMA ThreadMoves ==
    ASSUME Threads, UNCHANGED <<thunks, client, deserted>>,
           NEW t \in Thunks, NEW b \in Bodies, body' = [body EXCEPT ![t] = b],
           \A u \in Thunks \ {t} : SameMessages(u),
           body[t] = "running" => b = "running" \/ ~Blocked(t),
           Thread(t)', Chained(t)'
    PROVE  Threads'
<1>1. records' = records /\ root' = root /\ tasks' = tasks /\ Registered' = Registered
  BY DEF thunks, Registered
<1>2. /\ body' \in [Thunks -> Bodies] /\ body'[t] = b
      /\ \A u \in Thunks \ {t} : body'[u] = body[u]
  BY DEF Threads
<1>3. ASSUME NEW u \in Thunks \ {t}
      PROVE  Thread(u)'
  <2>1. Thread(u) /\ Up(LabelOf[u])' = Up(LabelOf[u])
    BY DEF Threads, Up
  <2> QED BY <1>1, <1>2, <2>1 DEF Thread, SameMessages
<1>4. ASSUME NEW u \in Thunks \ {t}
      PROVE  Chained(u)'
  <2>1. Chained(u) /\ Up(LabelOf[u])' = Up(LabelOf[u])
    BY DEF Threads, Up
  <2>2. Parent[u] # None => Parent[u] \in Thunks
    BY ParentDiffers
  <2>3. ASSUME Parent[u] # None, u \in Awaited, body[u] \in Live
        PROVE  body'[Parent[u]] = "running"
    <3>1. body[Parent[u]] = "running"
      BY <2>1, <2>3 DEF Chained
    <3>2. CASE Parent[u] = t
      <4>1. Blocked(t)
        BY <2>3, <3>2 DEF Blocked
      <4> QED BY <1>2, <3>1, <3>2, <4>1
    <3>3. CASE Parent[u] # t
      BY <1>2, <2>2, <2>3, <3>1, <3>3
    <3> QED BY <3>2, <3>3
  <2> QED BY <1>1, <1>2, <2>1, <2>3 DEF Chained, SameMessages
<1> QED BY <1>1, <1>2, <1>3, <1>4 DEF Threads, ThunksTypeOK


LEMMA ExecuteThunkThreads ==
    ASSUME Threads, NEW t \in Thunks, ExecuteThunk(t)
    PROVE  Threads'
<1>1. /\ body[t] = "new" /\ UNCHANGED <<thunks, client, answers, deserted>>
      /\ IF Parent[t] = None THEN Up(LabelOf[t]) ELSE Dispatching(Parent[t])
  BY DEF ExecuteThunk
<1>2. /\ Thread(t) /\ Chained(t) /\ body \in [Thunks -> Bodies]
      /\ Up(LabelOf[t])' = Up(LabelOf[t]) /\ Registered' = Registered
  BY <1>1 DEF Threads, Up, thunks, Registered
<1>3. /\ t \notin Registered /\ ~Asks(t) /\ ~Granted(t) /\ ~Denied(t)
      /\ ~Reports(t) /\ ~Noted(t) /\ client[LabelOf[t]] # "gone"
  BY <1>1, <1>2 DEF Thread
<1>4. Parent[t] # None => Parent[t] \in Thunks /\ body[Parent[t]] = "running"
  BY <1>1, ParentDiffers DEF Dispatching
<1>5. Parent[t] # t
  BY ParentDiffers
<1>6. CASE Up(LabelOf[t])
  <2>1. commands' = commands \cup {Command("register", t)}
        /\ body' = [body EXCEPT ![t] = "registering"]
    BY <1>6 DEF ExecuteThunk, RegisterThunk, Invoke
  <2>2. /\ body'[t] = "registering"
        /\ Parent[t] # None => body'[Parent[t]] = "running"
    BY <1>2, <1>4, <1>5, <2>1
  <2>3. /\ Asks(t)' /\ ~Granted(t)' /\ ~Denied(t)' /\ ~Reports(t)' /\ ~Noted(t)'
    BY <1>1, <1>3, <2>1, CommandsDiffer DEF Asks, Granted, Denied, Reports, Noted
  <2>4. Thread(t)'
    BY <1>1, <1>2, <1>3, <1>6, <2>2, <2>3, BodySets DEF Thread, Up
  <2>5. Chained(t)'
    BY <1>1, <1>2, <2>2, <2>3, BodySets DEF Chained
  <2>6. \A u \in Thunks \ {t} : SameMessages(u)
    BY <1>1, <2>1, CommandsDiffer DEF SameMessages, Asks, Granted, Denied, Reports, Noted
  <2>7. "registering" \in Bodies
    BY DEF Bodies, Live
  <2> QED BY <1>1, <2>1, <2>4, <2>5, <2>6, <2>7, ThreadMoves
<1>7. CASE ~Up(LabelOf[t])
  <2>1. commands' = commands /\ body' = [body EXCEPT ![t] = "running"]
    BY <1>7 DEF ExecuteThunk
  <2>2. /\ body'[t] = "running"
        /\ Parent[t] # None => body'[Parent[t]] = "running"
    BY <1>2, <1>4, <1>5, <2>1
  <2>3. \A u \in Thunks : SameMessages(u)
    BY <1>1, <2>1 DEF SameMessages, Asks, Granted, Denied, Reports, Noted
  <2>4. Thread(t)'
    BY <1>1, <1>2, <1>3, <2>2, <2>3, BodySets DEF Thread, SameMessages
  <2>5. Chained(t)'
    BY <1>1, <1>2, <1>7, <2>2, <2>3, BodySets DEF Chained, SameMessages
  <2>6. "running" \in Bodies
    BY DEF Bodies, Live, InBody
  <2> QED BY <1>1, <2>1, <2>3, <2>4, <2>5, <2>6, ThreadMoves
<1> QED BY <1>6, <1>7

LEMMA ThunkRegisteredThreads ==
    ASSUME Threads, NEW t \in Thunks, ThunkRegistered(t)
    PROVE  Threads'
<1>1. /\ Granted(t) /\ answers' = answers \ {Command("registered", t)}
      /\ body' = [body EXCEPT ![t] = IF @ = "registering" THEN "running" ELSE @]
      /\ UNCHANGED <<thunks, client, commands, deserted>>
  BY DEF ThunkRegistered, Answered, Granted
<1>2. /\ Thread(t) /\ Chained(t) /\ body \in [Thunks -> Bodies]
      /\ Up(LabelOf[t])' = Up(LabelOf[t]) /\ Registered' = Registered
  BY <1>1 DEF Threads, Up, thunks, Registered
<1> DEFINE b == IF body[t] = "registering" THEN "running" ELSE body[t]
<1>3. /\ body' = [body EXCEPT ![t] = b] /\ body'[t] = b
      /\ \A u \in Thunks \ {t} : body'[u] = body[u]
  BY <1>1, <1>2
<1>4. /\ body[t] \in {"registering", "gone"} /\ ~Asks(t) /\ ~Denied(t)
      /\ body[t] = "registering" => ~Reports(t) /\ ~Noted(t)
  BY <1>1, <1>2 DEF Thread
<1>5. /\ ~Asks(t)' /\ ~Granted(t)' /\ ~Denied(t)'
      /\ Reports(t)' <=> Reports(t)
      /\ Noted(t)' <=> Noted(t)
  BY <1>1, <1>4, CommandsDiffer DEF Asks, Granted, Denied, Reports, Noted
<1>6. \A u \in Thunks \ {t} : SameMessages(u)
  BY <1>1, CommandsDiffer DEF SameMessages, Asks, Granted, Denied, Reports, Noted
<1>7. b \in Bodies /\ (body[t] = "running" => b = "running")
  BY <1>4, BodySets DEF Bodies
<1>8. Thread(t)'
  BY <1>1, <1>2, <1>3, <1>4, <1>5, BodySets DEF Thread
<1>9. Chained(t)'
  <2>1. Parent[t] # None => Parent[t] \in Thunks \ {t}
    BY ParentDiffers
  <2> QED BY <1>1, <1>2, <1>3, <1>4, <1>5, <2>1, BodySets DEF Chained
<1> HIDE DEF b
<1> QED BY <1>1, <1>3, <1>6, <1>7, <1>8, <1>9, ThreadMoves

LEMMA ThunkRefusedThreads ==
    ASSUME Threads, NEW t \in Thunks, ThunkRefused(t)
    PROVE  Threads'
<1>1. /\ Denied(t) /\ answers' = answers \ {Command("refused", t)}
      /\ body' = [body EXCEPT ![t] = IF @ = "registering" THEN "refused" ELSE @]
      /\ UNCHANGED <<thunks, client, commands, deserted>>
  BY DEF ThunkRefused, Answered, Denied
<1>2. /\ Thread(t) /\ Chained(t) /\ body \in [Thunks -> Bodies]
      /\ Up(LabelOf[t])' = Up(LabelOf[t]) /\ Registered' = Registered
  BY <1>1 DEF Threads, Up, thunks, Registered
<1> DEFINE b == IF body[t] = "registering" THEN "refused" ELSE body[t]
<1>3. /\ body' = [body EXCEPT ![t] = b] /\ body'[t] = b
      /\ \A u \in Thunks \ {t} : body'[u] = body[u]
  BY <1>1, <1>2
<1>4. /\ body[t] \in {"registering", "gone"} /\ ~Asks(t) /\ ~Granted(t)
      /\ t \notin Registered
      /\ body[t] = "registering" => ~Reports(t) /\ ~Noted(t)
  BY <1>1, <1>2 DEF Thread
<1>5. /\ ~Asks(t)' /\ ~Granted(t)' /\ ~Denied(t)'
      /\ Reports(t)' <=> Reports(t)
      /\ Noted(t)' <=> Noted(t)
  BY <1>1, <1>4, CommandsDiffer DEF Asks, Granted, Denied, Reports, Noted
<1>6. \A u \in Thunks \ {t} : SameMessages(u)
  BY <1>1, CommandsDiffer DEF SameMessages, Asks, Granted, Denied, Reports, Noted
<1>7. b \in Bodies /\ body[t] # "running"
  BY <1>4, BodySets DEF Bodies
<1>8. Thread(t)'
  BY <1>1, <1>2, <1>3, <1>4, <1>5, BodySets DEF Thread
<1>9. Chained(t)'
  <2>1. Parent[t] # None => Parent[t] \in Thunks \ {t}
    BY ParentDiffers
  <2> QED BY <1>1, <1>2, <1>3, <1>4, <1>5, <2>1, BodySets DEF Chained
<1> HIDE DEF b
<1> QED BY <1>1, <1>3, <1>6, <1>7, <1>8, <1>9, ThreadMoves

LEMMA BodyEndsThreads ==
    ASSUME Threads, NEW t \in Thunks, BodyEnds(t)
    PROVE  Threads'
<1>1. /\ body[t] = "running" /\ ~Blocked(t)
      /\ UNCHANGED <<thunks, client, answers, deserted>>
  BY DEF BodyEnds, Dispatching
<1>2. /\ Thread(t) /\ Chained(t) /\ body \in [Thunks -> Bodies]
      /\ Up(LabelOf[t])' = Up(LabelOf[t]) /\ Registered' = Registered
  BY <1>1 DEF Threads, Up, thunks, Registered
<1>3. /\ ~Asks(t) /\ ~Granted(t) /\ ~Denied(t) /\ ~Reports(t) /\ ~Noted(t)
      /\ client[LabelOf[t]] # "gone"
  BY <1>1, <1>2 DEF Thread
<1>4. Parent[t] # None => Parent[t] \in Thunks \ {t}
  BY ParentDiffers
<1>5. CASE Up(LabelOf[t])
  <2>1. commands' = commands \cup {Command("complete", t)}
        /\ body' = [body EXCEPT ![t] = "completing"]
    BY <1>5 DEF BodyEnds, CompleteThunk, Invoke
  <2>2. /\ body'[t] = "completing"
        /\ Parent[t] # None => body'[Parent[t]] = body[Parent[t]]
    BY <1>2, <1>4, <2>1
  <2>3. /\ ~Asks(t)' /\ ~Granted(t)' /\ ~Denied(t)' /\ Reports(t)' /\ ~Noted(t)'
    BY <1>1, <1>3, <2>1, CommandsDiffer DEF Asks, Granted, Denied, Reports, Noted
  <2>4. Thread(t)'
    BY <1>1, <1>2, <1>3, <2>2, <2>3, BodySets DEF Thread
  <2>5. Chained(t)'
    BY <1>1, <1>2, <2>2, <2>3, BodySets DEF Chained
  <2>6. \A u \in Thunks \ {t} : SameMessages(u)
    BY <1>1, <2>1, CommandsDiffer DEF SameMessages, Asks, Granted, Denied, Reports, Noted
  <2>7. "completing" \in Bodies
    BY BodySets DEF Bodies
  <2> QED BY <1>1, <2>1, <2>4, <2>5, <2>6, <2>7, ThreadMoves
<1>6. CASE ~Up(LabelOf[t])
  <2>1. commands' = commands /\ body' = [body EXCEPT ![t] = "ended"]
    BY <1>6 DEF BodyEnds
  <2>2. /\ body'[t] = "ended"
        /\ Parent[t] # None => body'[Parent[t]] = body[Parent[t]]
    BY <1>2, <1>4, <2>1
  <2>3. \A u \in Thunks : SameMessages(u)
    BY <1>1, <2>1 DEF SameMessages, Asks, Granted, Denied, Reports, Noted
  <2>4. Thread(t)'
    BY <1>1, <1>2, <1>3, <1>6, <2>2, <2>3, BodySets DEF Thread, SameMessages
  <2>5. Chained(t)'
    BY <1>1, <1>2, <2>2, <2>3, BodySets DEF Chained, SameMessages
  <2>6. "ended" \in Bodies
    BY DEF Bodies
  <2> QED BY <1>1, <2>1, <2>3, <2>4, <2>5, <2>6, ThreadMoves
<1> QED BY <1>5, <1>6

LEMMA ThunkCompletedThreads ==
    ASSUME Threads, NEW t \in Thunks, ThunkCompleted(t)
    PROVE  Threads'
<1>1. /\ Noted(t) /\ answers' = answers \ {Command("completed", t)}
      /\ body' = [body EXCEPT ![t] = IF @ = "completing" THEN "ended" ELSE @]
      /\ UNCHANGED <<thunks, client, commands, deserted>>
  BY DEF ThunkCompleted, Answered, Noted
<1>2. /\ Thread(t) /\ Chained(t) /\ body \in [Thunks -> Bodies]
      /\ Up(LabelOf[t])' = Up(LabelOf[t]) /\ Registered' = Registered
  BY <1>1 DEF Threads, Up, thunks, Registered
<1> DEFINE b == IF body[t] = "completing" THEN "ended" ELSE body[t]
<1>3. /\ body' = [body EXCEPT ![t] = b] /\ body'[t] = b
      /\ \A u \in Thunks \ {t} : body'[u] = body[u]
  BY <1>1, <1>2
<1>4. /\ body[t] \in {"completing", "gone"} /\ ~Reports(t)
      /\ body[t] = "completing" => t \notin Registered /\ ~Asks(t) /\ ~Granted(t) /\ ~Denied(t)
  BY <1>1, <1>2 DEF Thread
<1>5. /\ Asks(t)' <=> Asks(t)
      /\ Granted(t)' <=> Granted(t)
      /\ Denied(t)' <=> Denied(t)
      /\ ~Reports(t)' /\ ~Noted(t)'
  BY <1>1, <1>4, CommandsDiffer DEF Asks, Granted, Denied, Reports, Noted
<1>6. \A u \in Thunks \ {t} : SameMessages(u)
  BY <1>1, CommandsDiffer DEF SameMessages, Asks, Granted, Denied, Reports, Noted
<1>7. b \in Bodies /\ body[t] # "running"
  BY <1>4, BodySets DEF Bodies
<1>8. Thread(t)'
  BY <1>1, <1>2, <1>3, <1>4, <1>5, BodySets DEF Thread
<1>9. Chained(t)'
  <2>1. Parent[t] # None => Parent[t] \in Thunks \ {t}
    BY ParentDiffers
  <2> QED BY <1>1, <1>2, <1>3, <1>4, <1>5, <2>1, BodySets DEF Chained
<1> HIDE DEF b
<1> QED BY <1>1, <1>3, <1>6, <1>7, <1>8, <1>9, ThreadMoves

LEMMA BodyFlushThreads ==
    ASSUME Threads, NEW t \in Thunks, BodyFlush(t)
    PROVE  Threads'
<1>1. /\ body[t] = "running" /\ ~Blocked(t) /\ Up(LabelOf[t])
      /\ body' = [body EXCEPT ![t] = "flushing"]
      /\ UNCHANGED <<thunks, client, answers, deserted>>
      /\ FlushWithResult(LabelOf[t])
  BY DEF BodyFlush, Dispatching
<1>2. \/ commands' = commands
      \/ \E S : commands' = commands \cup {Command("batch", S)}
  BY <1>1 DEF FlushWithResult, StartFlush, Invoke
<1>3. \A u \in Thunks : SameMessages(u)
  BY <1>1, <1>2, CommandsDiffer DEF SameMessages, Asks, Granted, Denied, Reports, Noted
<1>4. /\ Thread(t) /\ Chained(t) /\ body \in [Thunks -> Bodies]
      /\ Up(LabelOf[t])' = Up(LabelOf[t]) /\ Registered' = Registered
  BY <1>1 DEF Threads, Up, thunks, Registered
<1>5. /\ body'[t] = "flushing"
      /\ \A u \in Thunks \ {t} : body'[u] = body[u]
  BY <1>1, <1>4
<1>6. Thread(t)'
  BY <1>1, <1>3, <1>4, <1>5, BodySets DEF Thread, SameMessages
<1>7. Chained(t)'
  <2>1. Parent[t] # None => Parent[t] \in Thunks \ {t}
    BY ParentDiffers
  <2> QED BY <1>1, <1>3, <1>4, <1>5, <2>1, BodySets DEF Chained, SameMessages
<1>8. "flushing" \in Bodies
  BY BodySets DEF Bodies
<1> QED BY <1>1, <1>3, <1>6, <1>7, <1>8, ThreadMoves

-----------------------------------------------------------------------------
(* The commands, the end of a client and of a window. *)

LEMMA RunRegisterThreads ==
    ASSUME Threads, NEW t \in Thunks, RunRegister(t)
    PROVE  Threads'
<1> DEFINE top == IF Parent[t] = None THEN None ELSE Topmost[Parent[t]]
<1>1. /\ Asks(t) /\ MayRegister(t)
      /\ commands' = commands \ {Command("register", t)}
      /\ answers' = answers \cup {Command("registered", t)}
      /\ records' = [u \in Registered \cup {t} |->
                        IF u = t THEN [state |-> "executing", root |-> top] ELSE records[u]]
      /\ root' = RootWith(t) /\ tasks' = tasks
      /\ body' = body /\ client' = client /\ deserted' = deserted
  BY DEF RunRegister, Run, Asks, WithRecord
<1>2. top = None \/ (top \in Registered /\ top \in Thunks /\ top \in Lineage[t])
  <2>1. CASE Parent[t] # None
    BY <2>1, TopmostRegistered, LineageOfNested
  <2> QED BY <2>1
<1> HIDE DEF top
<1>3. /\ Registered' = Registered \cup {t}
      /\ \A u \in Registered \ {t} : records'[u] = records[u]
      /\ records'[t] = [state |-> "executing", root |-> top]
      /\ records' \in [Registered' -> Record]
  <2>1. Registered' = Registered \cup {t}
    BY <1>1 DEF Registered
  <2>2. [state |-> "executing", root |-> top] \in Record
    BY <1>2 DEF Record
  <2>3. \A u \in Registered : records[u] \in Record
    BY DEF Threads
  <2> QED BY <1>1, <2>1, <2>2, <2>3
<1>4. ThunksTypeOK'
  BY <1>1, <1>3 DEF Threads, ThunksTypeOK, Record, RootWith
<1>5. root' # None => root' \in Registered'
  BY <1>1, <1>3 DEF Threads, RootWith
<1>6. \A u \in Registered' : records'[u].root # None => records'[u].root \in Lineage[u]
  BY <1>2, <1>3 DEF Threads
<1>7. /\ ~Asks(t)' /\ Granted(t)'
      /\ Denied(t)' <=> Denied(t)
      /\ Reports(t)' <=> Reports(t)
      /\ Noted(t)' <=> Noted(t)
  BY <1>1, CommandsDiffer DEF Asks, Granted, Denied, Reports, Noted
<1>8. \A u \in Thunks \ {t} : SameMessages(u)
  BY <1>1, CommandsDiffer DEF SameMessages, Asks, Granted, Denied, Reports, Noted
<1>9. \A u \in Thunks : Thread(u) /\ Chained(u) /\ Up(LabelOf[u])' = Up(LabelOf[u])
  BY <1>1 DEF Threads, Up
<1>10. Thread(t)'
  BY <1>1, <1>3, <1>7, <1>9, BodySets DEF Thread
<1>11. Chained(t)'
  BY <1>1, <1>3, <1>7, <1>9 DEF Chained, Thread
<1>12. ASSUME NEW u \in Thunks \ {t}
       PROVE  Thread(u)' /\ Chained(u)'
  <2>1. u \in Registered' <=> u \in Registered
    BY <1>3
  <2>2. Thread(u)'
    BY <1>1, <1>8, <1>9, <2>1 DEF Thread, SameMessages
  <2>3. Chained(u)'
    BY <1>1, <1>8, <1>9, <2>1 DEF Chained, SameMessages
  <2> QED BY <2>2, <2>3
<1> QED BY <1>1, <1>3, <1>4, <1>5, <1>6, <1>10, <1>11, <1>12 DEF Threads

(* What is awaited down from the root is not refused: the thunk above it runs
   its body, and is registered. *)
LEMMA RunRegisterFailsThreads ==
    ASSUME Threads, NEW t \in Thunks, RunRegisterFails(t)
    PROVE  Threads'
<1>1. /\ Asks(t) /\ ~MayRegister(t)
      /\ commands' = commands \ {Command("register", t)}
      /\ answers' = answers \cup {Command("refused", t)}
      /\ UNCHANGED <<thunks, body, client, deserted>>
  BY DEF RunRegisterFails, Run, Asks
<1>2. records' = records /\ root' = root /\ tasks' = tasks /\ Registered' = Registered
  BY <1>1 DEF thunks, Registered
<1>3. /\ ~Asks(t)' /\ Denied(t)'
      /\ Granted(t)' <=> Granted(t)
      /\ Reports(t)' <=> Reports(t)
      /\ Noted(t)' <=> Noted(t)
  BY <1>1, CommandsDiffer DEF Asks, Granted, Denied, Reports, Noted
<1>4. \A u \in Thunks \ {t} : SameMessages(u)
  BY <1>1, CommandsDiffer DEF SameMessages, Asks, Granted, Denied, Reports, Noted
<1>5. \A u \in Thunks : Thread(u) /\ Chained(u) /\ Up(LabelOf[u])' = Up(LabelOf[u])
  BY <1>1 DEF Threads, Up
<1>6. Thread(t)'
  BY <1>1, <1>2, <1>3, <1>5, BodySets DEF Thread
<1>7. ASSUME InAwaitedChain[t], t \notin deserted, body[t] = "registering"
      PROVE  FALSE
  <2>1. t \notin Registered /\ Up(LabelOf[t])
    BY <1>1, <1>5, <1>7 DEF Thread
  <2>2. Parent[t] # None /\ Parent[t] \notin Registered
    BY <1>1, <2>1 DEF MayRegister
  <2>3. Parent[t] \in Thunks /\ LabelOf[Parent[t]] = LabelOf[t]
    BY <2>2, ParentDiffers
  <2>4. t \in Awaited /\ InAwaitedChain[Parent[t]]
    BY <1>7, <2>2, AwaitedChainRecursive
  <2>5. body[Parent[t]] = "running"
    BY <1>5, <1>7, <2>2, <2>4, BodySets DEF Chained
  <2>6. Parent[t] \notin deserted
    BY <1>5, <2>1, <2>3 DEF Thread
  <2> QED BY <1>5, <2>1, <2>2, <2>3, <2>4, <2>5, <2>6, BodySets DEF Chained
<1>8. Chained(t)'
  BY <1>1, <1>2, <1>3, <1>5, <1>7 DEF Chained
<1>9. ASSUME NEW u \in Thunks \ {t}
      PROVE  Thread(u)' /\ Chained(u)'
  <2>1. Thread(u)'
    BY <1>1, <1>2, <1>4, <1>5 DEF Thread, SameMessages
  <2>2. Chained(u)'
    BY <1>1, <1>2, <1>4, <1>5 DEF Chained, SameMessages
  <2> QED BY <2>1, <2>2
<1> QED BY <1>1, <1>2, <1>6, <1>8, <1>9 DEF Threads, ThunksTypeOK

(* The end of a thunk takes none that is awaited down from the root: above it
   every body runs. *)
LEMMA RunCompleteThreads ==
    ASSUME Threads, NEW t \in Thunks, RunComplete(t)
    PROVE  Threads'
<1> DEFINE gone == IF t \notin Registered THEN {}
                   ELSE {t} \cup (IF root = t THEN Descendants(t) ELSE {})
<1>1. /\ Reports(t)
      /\ commands' = commands \ {Command("complete", t)}
      /\ answers' = answers \cup {Command("completed", t)}
      /\ body' = body /\ client' = client /\ deserted' = deserted
  BY DEF RunComplete, Run, Reports
<1>2. /\ Registered' = Registered \ gone
      /\ \A u \in Registered \ gone : records'[u] = records[u]
      /\ records' \in [Registered \ gone -> Record]
      /\ root' = IF root \in gone THEN None ELSE root
  <2>1. CASE t \notin Registered
    <3>1. records' = records /\ root' = root
      BY <2>1 DEF RunComplete, thunks
    <3>2. gone = {}
      BY <2>1
    <3> HIDE DEF gone
    <3> QED BY <3>1, <3>2 DEF Registered, Threads
  <2>2. CASE t \in Registered
    <3>1. /\ records' = Without(gone)
          /\ root' = IF root = t THEN None ELSE root
      BY <2>2 DEF RunComplete, Complete
    <3>2. root \in gone <=> root = t
      BY <2>2
    <3> HIDE DEF gone
    <3> QED BY <3>1, <3>2 DEF Without, Registered, Restrict, Threads
  <2> QED BY <2>1, <2>2
<1>3. /\ t \notin Registered'
      /\ gone \subseteq Registered
      /\ \A u \in gone : u = t \/ (records[u].root = t /\ root = t)
  BY <1>2 DEF Descendants
<1> HIDE DEF gone
<1>4. /\ ~Reports(t)' /\ Noted(t)'
      /\ Asks(t)' <=> Asks(t)
      /\ Granted(t)' <=> Granted(t)
      /\ Denied(t)' <=> Denied(t)
  BY <1>1, CommandsDiffer DEF Asks, Granted, Denied, Reports, Noted
<1>5. \A u \in Thunks \ {t} : SameMessages(u)
  BY <1>1, CommandsDiffer DEF SameMessages, Asks, Granted, Denied, Reports, Noted
<1>6. \A u \in Thunks : Thread(u) /\ Chained(u) /\ Up(LabelOf[u])' = Up(LabelOf[u])
  BY <1>1 DEF Threads, Up
<1>7. ThunksTypeOK' /\ records' \in [Registered' -> Record]
  BY <1>2 DEF Threads, ThunksTypeOK, Record
<1>8. /\ root' # None => root' \in Registered'
      /\ \A u \in Registered' : records'[u].root # None => records'[u].root \in Lineage[u]
  BY <1>2 DEF Threads
<1>9. body[t] \in {"completing", "gone"}
  BY <1>1, <1>6 DEF Thread
<1>10. ASSUME NEW u \in gone, InAwaitedChain[u], u \notin deserted,
              body[u] \in {"registering"} \cup InBody, Up(LabelOf[u])
       PROVE  FALSE
  <2>1. u \in Thunks
    BY <1>3 DEF Threads, ThunksTypeOK
  <2>2. u # t
    BY <1>9, <1>10, BodySets
  <2>3. t \in Lineage[u]
    BY <1>3, <1>10, <2>2 DEF Threads
  <2>4. body[t] = "running"
    BY <1>10, <2>1, <2>2, <2>3, AncestorsRun, BodySets
  <2> QED BY <1>9, <2>4
<1>11. Thread(t)'
  BY <1>1, <1>3, <1>4, <1>6, <1>9 DEF Thread
<1>12. ASSUME NEW u \in Thunks \ {t}
       PROVE  Thread(u)'
  BY <1>1, <1>2, <1>5, <1>6 DEF Thread, SameMessages
<1>13. ASSUME NEW u \in Thunks
       PROVE  Chained(u)'
  <2>1. SUFFICES ASSUME InAwaitedChain[u], u \notin deserted
                 PROVE  /\ body[u] # "refused"
                        /\ body[u] = "registering" => ~Denied(u)'
                        /\ body[u] = "registering" /\ Granted(u)' => u \in Registered'
                        /\ body[u] \in InBody /\ Up(LabelOf[u]) => u \in Registered'
    BY <1>1, <1>6 DEF Chained
  <2>2. /\ Denied(u)' <=> Denied(u)
        /\ Granted(u)' <=> Granted(u)
    BY <1>4, <1>5 DEF SameMessages
  <2>3. body[u] = "registering" => Up(LabelOf[u])
    BY <1>6, <2>1 DEF Thread
  <2>4. body[u] \in {"registering"} \cup InBody /\ Up(LabelOf[u]) => u \notin gone
    BY <1>10, <2>1
  <2>5. u \in Registered \ gone => u \in Registered'
    BY <1>2
  <2> QED BY <1>6, <2>1, <2>2, <2>3, <2>4, <2>5 DEF Chained
<1> QED BY <1>1, <1>7, <1>8, <1>11, <1>12, <1>13 DEF Threads

LEMMA ClientDestroyedThreads ==
    ASSUME Threads, NEW w \in Windows, ClientDestroyed(w)
    PROVE  Threads'
<1>1. /\ Up(w) /\ client' = [client EXCEPT ![w] = "down"]
      /\ body' = WaitersAnswered(w)
      /\ deserted' = deserted \cup ProgramsOf(w)
      /\ UNCHANGED <<thunks, commands, answers>>
  BY DEF ClientDestroyed, DestroyBatcher
<1>2. records' = records /\ root' = root /\ tasks' = tasks /\ Registered' = Registered
  BY <1>1 DEF thunks, Registered
<1>3. \A u \in Thunks : LabelOf[u] \in Windows
  BY DEF Windows
<1>4. /\ client' \in [Windows -> {"up", "down", "gone"}]
      /\ client'[w] = "down"
      /\ \A v \in Windows \ {w} : client'[v] = client[v]
  BY <1>1 DEF Threads
<1>5. /\ body' \in [Thunks -> Bodies]
      /\ \A u \in Thunks : /\ body'[u] = body[u]
                              \/ (body[u] = "flushing" /\ body'[u] = "running")
                           /\ LabelOf[u] = w => body'[u] # "flushing"
  BY <1>1, BodySets DEF WaitersAnswered, Threads, Bodies
<1>6. \A u \in Thunks : SameMessages(u)
  BY <1>1 DEF SameMessages, Asks, Granted, Denied, Reports, Noted
<1>7. \A u \in Thunks : /\ body'[u] \in Live <=> body[u] \in Live
                        /\ body'[u] \in InBody <=> body[u] \in InBody
                        /\ \A b \in Bodies \ InBody : body'[u] = b <=> body[u] = b
                        /\ body[u] = "running" => body'[u] = "running"
  BY <1>5, BodySets
<1>8. /\ \A u \in Thunks : LabelOf[u] = w /\ body[u] \in {"registering"} \cup InBody
                              => u \in deserted'
      /\ \A u \in Thunks : LabelOf[u] # w => (u \in deserted' <=> u \in deserted)
      /\ deserted \subseteq deserted'
      /\ \A u \in Thunks : u \in deserted' => u \in deserted \/ LabelOf[u] = w
  BY <1>1 DEF ProgramsOf
<1>9. \A u \in Thunks : Thread(u) /\ Chained(u)
  BY DEF Threads
<1>10. ASSUME NEW u \in Thunks, LabelOf[u] # w
       PROVE  Thread(u)' /\ Chained(u)'
  <2>1. /\ Up(LabelOf[u])' = Up(LabelOf[u]) /\ client'[LabelOf[u]] = client[LabelOf[u]]
        /\ (u \in deserted' <=> u \in deserted)
    BY <1>3, <1>4, <1>8, <1>10 DEF Up
  <2>2. /\ body'[u] \in Live <=> body[u] \in Live
        /\ body'[u] \in InBody <=> body[u] \in InBody
        /\ body'[u] = "registering" <=> body[u] = "registering"
        /\ body'[u] = "completing" <=> body[u] = "completing"
        /\ body'[u] = "new" <=> body[u] = "new"
        /\ body'[u] = "refused" <=> body[u] = "refused"
        /\ body'[u] = "gone" <=> body[u] = "gone"
    BY <1>5, BodySets
  <2>3. Thread(u)'
    BY <1>2, <1>6, <1>9, <2>1, <2>2 DEF Thread, SameMessages
  <2>4. Parent[u] # None => Parent[u] \in Thunks
    BY ParentDiffers
  <2>5. Chained(u)'
    BY <1>2, <1>6, <1>7, <1>9, <2>1, <2>2, <2>4 DEF Chained, SameMessages
  <2> QED BY <2>3, <2>5
<1>11. ASSUME NEW u \in Thunks, LabelOf[u] = w
       PROVE  Thread(u)' /\ Chained(u)'
  <2>1. /\ ~Up(LabelOf[u])' /\ client'[LabelOf[u]] = "down"
        /\ client[LabelOf[u]] = "up"
    BY <1>1, <1>4, <1>11 DEF Up
  <2>2. /\ body'[u] \in Live <=> body[u] \in Live
        /\ body'[u] \in InBody <=> body[u] \in InBody
        /\ body'[u] = "registering" <=> body[u] = "registering"
        /\ body'[u] = "completing" <=> body[u] = "completing"
        /\ body'[u] = "new" <=> body[u] = "new"
        /\ body'[u] = "refused" <=> body[u] = "refused"
        /\ body'[u] = "gone" <=> body[u] = "gone"
    BY <1>5, BodySets
  <2>3. body[u] \in {"registering"} \cup InBody => u \in deserted'
    BY <1>8, <1>11
  <2>4. deserted \subseteq deserted'
    BY <1>8
  <2>5. Thread(u)'
    BY <1>2, <1>6, <1>9, <2>1, <2>2, <2>3, <2>4 DEF Thread, SameMessages
  <2>6. Parent[u] # None => Parent[u] \in Thunks
    BY ParentDiffers
  <2>7. Chained(u)'
    BY <1>2, <1>6, <1>7, <1>9, <2>1, <2>2, <2>3, <2>4, <2>6 DEF Chained, SameMessages
  <2> QED BY <2>5, <2>7
<1> QED BY <1>2, <1>4, <1>5, <1>10, <1>11 DEF Threads, ThunksTypeOK

LEMMA WindowClosedThreads ==
    ASSUME Threads, NEW w \in Windows, WindowClosed(w)
    PROVE  Threads'
<1> DEFINE gone == {t \in Registered : LabelOf[t] = w}
<1>1. /\ client' = [client EXCEPT ![w] = "gone"]
      /\ body' = [t \in Thunks |-> IF LabelOf[t] = w THEN "gone" ELSE body[t]]
      /\ answers' = {m \in answers : m.of \in Thunks => LabelOf[m.of] # w}
      /\ commands' = commands
      /\ deserted' = deserted \cup
             {t \in Thunks : Command("register", t) \in commands /\ LabelOf[t] = w}
      /\ records' = Without(gone)
      /\ root' = IF root \in Registered \ gone THEN root ELSE None
      /\ client[w] # "gone"
  BY DEF WindowClosed, DropLabel
<1>2. /\ Registered' = Registered \ gone
      /\ \A u \in Registered \ gone : records'[u] = records[u]
      /\ records' \in [Registered \ gone -> Record]
  BY <1>1 DEF Without, Registered, Restrict, Threads
<1>3. \A u \in Thunks : LabelOf[u] \in Windows
  BY DEF Windows
<1>4. /\ client' \in [Windows -> {"up", "down", "gone"}]
      /\ client'[w] = "gone"
      /\ \A v \in Windows \ {w} : client'[v] = client[v]
  BY <1>1 DEF Threads
<1>5. body' \in [Thunks -> Bodies]
  BY <1>1 DEF Threads, Bodies
<1>6. ThunksTypeOK' /\ records' \in [Registered' -> Record]
  BY <1>1, <1>2 DEF Threads, ThunksTypeOK, Record
<1>7. /\ root' # None => root' \in Registered'
      /\ \A u \in Registered' : records'[u].root # None => records'[u].root \in Lineage[u]
  BY <1>1, <1>2 DEF Threads
<1>8. \A u \in Thunks : Thread(u) /\ Chained(u)
  BY DEF Threads
<1>9. \A k, u : Command(k, u).of = u
  BY DEF Command
<1>10. ASSUME NEW u \in Thunks, LabelOf[u] # w
       PROVE  Thread(u)' /\ Chained(u)'
  <2>1. /\ Up(LabelOf[u])' = Up(LabelOf[u]) /\ client'[LabelOf[u]] = client[LabelOf[u]]
        /\ (u \in deserted' <=> u \in deserted)
        /\ body'[u] = body[u]
        /\ (u \in Registered' <=> u \in Registered)
    BY <1>1, <1>2, <1>3, <1>4, <1>10 DEF Up
  <2>2. SameMessages(u)
    BY <1>1, <1>9, <1>10 DEF SameMessages, Asks, Granted, Denied, Reports, Noted
  <2>3. Thread(u)'
    BY <1>8, <2>1, <2>2 DEF Thread, SameMessages
  <2>4. Parent[u] # None => /\ Parent[u] \in Thunks /\ LabelOf[Parent[u]] # w
                            /\ body'[Parent[u]] = body[Parent[u]]
    BY <1>1, <1>10, ParentDiffers
  <2>5. Chained(u)'
    BY <1>8, <2>1, <2>2, <2>4 DEF Chained, SameMessages
  <2> QED BY <2>3, <2>5
<1>11. ASSUME NEW u \in Thunks, LabelOf[u] = w
       PROVE  Thread(u)' /\ Chained(u)'
  <2>1. /\ ~Up(LabelOf[u])' /\ client'[LabelOf[u]] = "gone"
        /\ body'[u] = "gone" /\ u \notin Registered'
    BY <1>1, <1>2, <1>4, <1>11 DEF Up
  <2>2. /\ Asks(u)' => Asks(u) /\ u \in deserted'
        /\ Reports(u)' => Reports(u)
    BY <1>1, <1>11 DEF Asks, Reports
  <2>3. ~Granted(u)' /\ ~Denied(u)' /\ ~Noted(u)'
    BY <1>1, <1>9, <1>11 DEF Granted, Denied, Noted
  <2>4. Thread(u)'
    BY <2>1, <2>2, <2>3 DEF Thread
  <2>5. Chained(u)'
    BY <2>1, BodySets DEF Chained
  <2> QED BY <2>4, <2>5
<1> QED BY <1>4, <1>5, <1>6, <1>7, <1>10, <1>11 DEF Threads

-----------------------------------------------------------------------------
(* The tables of the processors. *)

Calls == {"new", "sending", "waiting", "settled", "gone"}

Tables ==
    /\ call \in [Actions -> Calls]
    /\ dispatches = callbacks /\ dispatches \subseteq Actions /\ IsFiniteSet(dispatches)
    /\ \A w \in Windows : Cardinality(Of(w, dispatches)) <= MaxPending

LEMMA TablesShrink ==
    ASSUME Tables, call' \in [Actions -> Calls],
           dispatches' \subseteq dispatches, callbacks' = dispatches'
    PROVE  Tables'
<1>1. IsFiniteSet(dispatches')
  BY FS_Subset DEF Tables
<1>2. ASSUME NEW w \in Windows
      PROVE  Cardinality(Of(w, dispatches')) <= MaxPending
  <2>1. IsFiniteSet(Of(w, dispatches)) /\ Of(w, dispatches) \subseteq dispatches
    BY FS_Subset DEF Tables, Of
  <2>2. Of(w, dispatches') \in SUBSET Of(w, dispatches)
    BY DEF Of
  <2>3. /\ IsFiniteSet(Of(w, dispatches'))
        /\ Cardinality(Of(w, dispatches')) <= Cardinality(Of(w, dispatches))
    BY <2>1, <2>2, FS_Subset
  <2>4. Cardinality(Of(w, dispatches')) \in Nat /\ Cardinality(Of(w, dispatches)) \in Nat
    BY <2>1, <2>3, FS_CardinalityType
  <2> QED BY <2>3, <2>4, TauriThunksAssumption DEF Tables
<1> QED BY <1>1, <1>2 DEF Tables

LEMMA BodyDispatchTables ==
    ASSUME Tables, NEW a \in Actions, BodyDispatch(a)
    PROVE  Tables'
<1>1. CASE Up(WindowOf(a)) /\ HasCapacity(WindowOf(a))
  <2>1. /\ callbacks' = callbacks \cup {a} /\ dispatches' = dispatches \cup {a}
        /\ call' = [call EXCEPT ![a] = "sending"]
    BY <1>1 DEF BodyDispatch, SetupCompletion, SendAction
  <2>2. IsFiniteSet(dispatches')
    BY <2>1, FS_AddElement DEF Tables
  <2>3. ASSUME NEW w \in Windows
        PROVE  Cardinality(Of(w, dispatches')) <= MaxPending
    <3>1. IsFiniteSet(Of(w, dispatches))
      BY FS_Subset DEF Tables, Of
    <3>2. Cardinality(Of(w, dispatches)) \in Nat
      BY <3>1, FS_CardinalityType
    <3>3. CASE w = WindowOf(a)
      <4>1. Of(w, dispatches') = Of(w, dispatches) \cup {a}
        BY <2>1, <3>3 DEF Of
      <4>2. Cardinality(Of(w, dispatches')) = IF a \in Of(w, dispatches)
                THEN Cardinality(Of(w, dispatches)) ELSE Cardinality(Of(w, dispatches)) + 1
        BY <3>1, <4>1, FS_AddElement
      <4>3. Cardinality(Of(w, dispatches)) < MaxPending
        BY <1>1, <3>3 DEF HasCapacity
      <4> QED BY <3>2, <4>2, <4>3, TauriThunksAssumption
    <3>4. CASE w # WindowOf(a)
      <4>1. Of(w, dispatches') = Of(w, dispatches)
        BY <2>1, <3>4 DEF Of
      <4> QED BY <4>1 DEF Tables
    <3> QED BY <3>3, <3>4
  <2>4. call' \in [Actions -> Calls]
    BY <2>1 DEF Tables, Calls
  <2> QED BY <2>1, <2>2, <2>3, <2>4 DEF Tables
<1>2. CASE ~(Up(WindowOf(a)) /\ HasCapacity(WindowOf(a)))
  <2>1. /\ call' = [call EXCEPT ![a] = "settled"]
        /\ callbacks' = callbacks /\ dispatches' = dispatches
    BY <1>2 DEF BodyDispatch
  <2>2. call' \in [Actions -> Calls]
    BY <2>1 DEF Tables, Calls
  <2> QED BY <2>1, <2>2, TablesShrink DEF Tables
<1> QED BY <1>1, <1>2

LEMMA SendersSettleTables ==
    ASSUME Tables, NEW S, SendersSettle(S)
    PROVE  Tables'
<1>1. dispatches' \subseteq dispatches /\ callbacks' = dispatches'
  BY DEF SendersSettle, CompleteActions, Tables
<1>2. call' \in [Actions -> Calls]
  BY DEF SendersSettle, Tables, Calls
<1> QED BY <1>1, <1>2, TablesShrink

LEMMA TablesSame ==
    ASSUME Tables, UNCHANGED <<call, processor>>
    PROVE  Tables'
<1>1. call' = call /\ dispatches' = dispatches /\ callbacks' = callbacks
  BY DEF processor
<1> QED BY <1>1, TablesShrink DEF Tables

-----------------------------------------------------------------------------
(* The invariant of the Tauri thunks. *)

TauriInv == Threads /\ Tables

LEMMA TauriInit ==
    ASSUME Init
    PROVE  TauriInv
<1>1. /\ Registered = {} /\ records = [t \in {} |-> 0] /\ root = None
      /\ client = [w \in Windows |-> "up"]
      /\ body = [t \in Thunks |-> "new"] /\ call = [a \in Actions |-> "new"]
      /\ fulfilled = {} /\ callbacks = {} /\ dispatches = {}
      /\ commands = {} /\ answers = {} /\ deserted = {}
  BY DEF Init, ThunksInit, ProcessorInit, Registered
<1>2. ASSUME NEW t \in Thunks
      PROVE  Thread(t) /\ Chained(t)
  <2>1. LabelOf[t] \in Windows /\ body[t] = "new" /\ client[LabelOf[t]] = "up"
    BY <1>1 DEF Windows
  <2>2. Thread(t)
    BY <1>1, <2>1, BodySets DEF Thread, Asks, Granted, Denied, Reports, Noted
  <2>3. Chained(t)
    BY <1>1, <2>1, BodySets DEF Chained
  <2> QED BY <2>2, <2>3
<1>3. Threads
  BY <1>1, <1>2 DEF Threads, ThunksTypeOK, Bodies
<1>4. Tables
  <2>1. \A w \in Windows : Of(w, dispatches) = {}
    BY <1>1 DEF Of
  <2>2. \A w \in Windows : Cardinality(Of(w, dispatches)) <= MaxPending
    BY <2>1, FS_EmptySet, TauriThunksAssumption
  <2> QED BY <1>1, <2>2, FS_EmptySet DEF Tables, Calls
<1> QED BY <1>3, <1>4 DEF TauriInv

(* What concerns the actions only. *)
LEMMA ActionsThreads ==
    ASSUME Threads, UNCHANGED <<thunks, client, deserted, body>>,
           \A m \in commands' : m \in commands \/ m.kind \in {"dispatch", "batch"},
           \A m \in commands : m \in commands' \/ m.kind \in {"dispatch", "batch"},
           \A m \in answers' : m \in answers \/ m.kind \in {"dispatch", "batch"},
           \A m \in answers : m \in answers' \/ m.kind \in {"dispatch", "batch"}
    PROVE  Threads'
<1>1. \A k, t : Command(k, t).kind = k
  BY DEF Command
<1>2. \A t \in Thunks : SameMessages(t)
  BY <1>1 DEF SameMessages, Asks, Granted, Denied, Reports, Noted
<1>3. body' \in [Thunks -> Bodies]
  BY DEF Threads
<1> QED BY <1>2, <1>3, ThreadsUnmoved

LEMMA TauriProgress ==
    ASSUME TauriInv, Progress
    PROVE  TauriInv'
<1> USE DEF TauriInv
<1>1. ASSUME NEW t \in Thunks, ThunkRegistered(t) PROVE TauriInv'
  BY <1>1, ThunkRegisteredThreads, TablesSame DEF ThunkRegistered
<1>2. ASSUME NEW t \in Thunks, ThunkRefused(t) PROVE TauriInv'
  BY <1>2, ThunkRefusedThreads, TablesSame DEF ThunkRefused
<1>3. ASSUME NEW t \in Thunks, BodyEnds(t) PROVE TauriInv'
  BY <1>3, BodyEndsThreads, TablesSame DEF BodyEnds
<1>4. ASSUME NEW t \in Thunks, ThunkCompleted(t) PROVE TauriInv'
  BY <1>4, ThunkCompletedThreads, TablesSame DEF ThunkCompleted
<1>5. ASSUME NEW t \in Thunks, RunRegister(t) PROVE TauriInv'
  BY <1>5, RunRegisterThreads, TablesSame DEF RunRegister, Run
<1>6. ASSUME NEW t \in Thunks, RunRegisterFails(t) PROVE TauriInv'
  BY <1>6, RunRegisterFailsThreads, TablesSame DEF RunRegisterFails, Run
<1>7. ASSUME NEW t \in Thunks, RunComplete(t) PROVE TauriInv'
  BY <1>7, RunCompleteThreads, TablesSame DEF RunComplete, Run
<1>8. ASSUME NEW a \in Actions, DispatchAnswered(a) PROVE TauriInv'
  <2>1. /\ answers' = answers \ {Command("dispatch", a)}
        /\ UNCHANGED <<thunks, client, body, commands, deserted>>
        /\ SendersSettle({a})
    BY <1>8 DEF DispatchAnswered, Answered
  <2>2. Threads'
    BY <2>1, ActionsThreads DEF Command
  <2> QED BY <2>1, <2>2, SendersSettleTables
<1>9. ASSUME NEW a \in Actions, RunDispatch(a) PROVE TauriInv'
  <2>1. /\ answers' = answers \cup {Command("dispatch", a)}
        /\ commands' = commands \ {Command("dispatch", a)}
        /\ UNCHANGED <<thunks, client, body, deserted>>
        /\ UNCHANGED <<call, processor>>
    BY <1>9 DEF RunDispatch, Run
  <2>2. Threads'
    BY <2>1, ActionsThreads DEF Command
  <2> QED BY <2>1, <2>2, TablesSame
<1>10. ASSUME NEW S \in SUBSET OptedIn, BatchAnswered(S) PROVE TauriInv'
  <2>1. /\ answers' = answers \ {Command("batch", S)}
        /\ SendersSettle(S \cap inFlight)
        /\ UNCHANGED <<thunks, client, commands, deserted>>
    BY <1>10 DEF BatchAnswered, Answered
  <2>2. \A t \in Thunks : SameMessages(t)
    BY <2>1, CommandsDiffer DEF SameMessages, Asks, Granted, Denied, Reports, Noted
  <2>3. body' = body \/ \E w : body' = WaitersAnswered(w)
    BY <1>10 DEF BatchAnswered
  <2>4. /\ body' \in [Thunks -> Bodies]
        /\ \A t \in Thunks : body'[t] = body[t]
                             \/ (body[t] = "flushing" /\ body'[t] = "running")
    BY <2>3, BodySets DEF WaitersAnswered, Threads, Bodies
  <2>5. Threads'
    BY <2>1, <2>2, <2>4, ThreadsUnmoved
  <2> QED BY <2>1, <2>5, SendersSettleTables
<1>11. ASSUME NEW S \in SUBSET OptedIn, RunBatch(S) PROVE TauriInv'
  <2>1. /\ answers' = answers \cup {Command("batch", S)}
        /\ commands' = commands \ {Command("batch", S)}
        /\ UNCHANGED <<thunks, client, body, deserted>>
        /\ UNCHANGED <<call, processor>>
    BY <1>11 DEF RunBatch, Run
  <2>2. Threads'
    BY <2>1, ActionsThreads DEF Command
  <2> QED BY <2>1, <2>2, TablesSame
<1>12. ASSUME NEW w \in Windows, Flush(w) PROVE TauriInv'
  <2>1. PICK S : commands' = commands \cup {Command("batch", S)}
    BY <1>12 DEF Flush, StartFlush, Invoke
  <2>2. UNCHANGED <<thunks, client, body, answers, deserted>> /\ UNCHANGED <<call, processor>>
    BY <1>12 DEF Flush
  <2>3. Threads'
    BY <2>1, <2>2, ActionsThreads DEF Command
  <2> QED BY <2>2, <2>3, TablesSame
<1> QED BY <1>1, <1>2, <1>3, <1>4, <1>5, <1>6, <1>7, <1>8, <1>9, <1>10, <1>11, <1>12
        DEF Progress

LEMMA TauriNext ==
    ASSUME TauriInv, [Next]_vars
    PROVE  TauriInv'
<1> USE DEF TauriInv
<1>1. ASSUME NEW t \in Thunks, ExecuteThunk(t) PROVE TauriInv'
  BY <1>1, ExecuteThunkThreads, TablesSame DEF ExecuteThunk
<1>2. ASSUME NEW t \in Thunks, BodyFlush(t) PROVE TauriInv'
  BY <1>2, BodyFlushThreads, TablesSame DEF BodyFlush
<1>3. ASSUME NEW a \in Actions, BodyDispatch(a) PROVE TauriInv'
  <2>1. /\ commands' = commands \/ commands' = commands \cup {Command("dispatch", a)}
        /\ UNCHANGED <<thunks, client, body, answers, deserted>>
    BY <1>3 DEF BodyDispatch, SendAction, Invoke
  <2>2. Threads'
    BY <2>1, ActionsThreads DEF Command
  <2> QED BY <1>3, <2>2, BodyDispatchTables
<1>4. ASSUME NEW a \in Actions, AppDispatch(a) PROVE TauriInv'
  <2>1. /\ commands' = commands \/ commands' = commands \cup {Command("dispatch", a)}
        /\ UNCHANGED <<thunks, client, body, answers, deserted>>
        /\ UNCHANGED processor
        /\ \E c \in Calls : call' = [call EXCEPT ![a] = c]
    BY <1>4 DEF AppDispatch, SendAction, Invoke, Calls
  <2>2. Threads'
    BY <2>1, ActionsThreads DEF Command
  <2>3. call' \in [Actions -> Calls] /\ dispatches' = dispatches /\ callbacks' = callbacks
    BY <2>1 DEF Tables, processor
  <2> QED BY <2>2, <2>3, TablesShrink DEF Tables
<1>5. ASSUME NEW a \in Actions, SafetyTimeout(a) PROVE TauriInv'
  <2>1. /\ UNCHANGED <<thunks, client, body, commands, answers, deserted>>
        /\ CompleteActions({a}) /\ call' = call
    BY <1>5 DEF SafetyTimeout
  <2>2. Threads'
    BY <2>1, ActionsThreads
  <2>3. dispatches' \subseteq dispatches /\ callbacks' = dispatches'
    BY <2>1 DEF CompleteActions, Tables
  <2> QED BY <2>1, <2>2, <2>3, TablesShrink DEF Tables
<1>6. ASSUME NEW w \in Windows, ClientDestroyed(w) PROVE TauriInv'
  <2>1. dispatches' \subseteq dispatches /\ callbacks' = dispatches'
    BY <1>6 DEF ClientDestroyed, DestroyProcessor, ForceCleanup, Tables
  <2>2. call' \in [Actions -> Calls]
    BY <1>6 DEF ClientDestroyed, DestroyBatcher, Tables, Calls
  <2> QED BY <1>6, <2>1, <2>2, ClientDestroyedThreads, TablesShrink
<1>7. ASSUME NEW w \in Windows, WindowClosed(w) PROVE TauriInv'
  <2>1. dispatches' \subseteq dispatches /\ callbacks' = dispatches'
    BY <1>7 DEF WindowClosed, ForceCleanup, Tables
  <2>2. call' \in [Actions -> Calls]
    BY <1>7 DEF WindowClosed, Tables, Calls
  <2> QED BY <1>7, <2>1, <2>2, WindowClosedThreads, TablesShrink
<1>8. CASE UNCHANGED vars
  <2>1. /\ UNCHANGED <<thunks, client, body, commands, answers, deserted>>
        /\ UNCHANGED <<call, processor>>
    BY <1>8 DEF vars
  <2>2. Threads'
    BY <2>1, ActionsThreads
  <2> QED BY <2>1, <2>2, TablesSame
<1> QED BY <1>1, <1>2, <1>3, <1>4, <1>5, <1>6, <1>7, <1>8, TauriProgress DEF Next

(* The invariant holds in every state of every behaviour. *)
THEOREM TauriThunksInvariant == Spec => []TauriInv
<1>1. Init => TauriInv
  BY TauriInit
<1>2. TauriInv /\ [Next]_vars => TauriInv'
  BY TauriNext
<1> QED BY <1>1, <1>2, PTL DEF Spec

(* A thunk that is awaited down from its root is registered as long as its
   body lasts, whatever else ends. *)
THEOREM TauriAwaited == Spec => []AwaitedIsRegistered
<1>1. TauriInv => AwaitedIsRegistered
  BY DEF TauriInv, Threads, Chained, AwaitedIsRegistered
<1> QED BY <1>1, TauriThunksInvariant, PTL

(* No thunk stays registered without a program that will report its end. *)
THEOREM TauriNothingLeft == Spec => []NothingLeft
<1>1. TauriInv => TypeOK
  BY DEF TauriInv, Threads, Tables, TypeOK, Bodies, Calls
<1>2. TauriInv => \A t \in Registered \ deserted : body[t] \in Live
  BY DEF TauriInv, Threads, ThunksTypeOK, Thread
<1>3. TauriInv => (root # None => root \in Registered)
  BY DEF TauriInv, Threads
<1> QED BY <1>1, <1>2, <1>3, TauriThunksInvariant, PTL DEF NothingLeft
=============================================================================
