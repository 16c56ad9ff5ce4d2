-------------------------- MODULE StateSyncProofs ---------------------------
(***************************************************************************)
(* First what the delta functions guarantee for every state and every set  *)
(* of keys: a delta brings a cache that agreed with the baseline to agree  *)
(* with the new state, touches nothing outside the keys it was computed    *)
(* for, and is empty exactly if nothing in them changed.  Then StateSync,  *)
(* for any keys and any bounds: it has its types, and the window's copy    *)
(* is the store whenever nothing is on its way.                            *)
(***************************************************************************)
EXTENDS StateSync, FunctionTheorems, FiniteSetTheorems, SequenceTheorems, TLAPS

-----------------------------------------------------------------------------
(* Deltas *)

(* Two states agree on a set of keys. *)
Agree(s, t, keys) == \A k \in keys : ~Differ(s, t, k)

(* The keys of a delta. *)
LEMMA DeltaDomains ==
    ASSUME NEW prev, NEW next, NEW keys
    PROVE  /\ DOMAIN Delta(prev, next, keys).changed
                = {k \in keys \cap DOMAIN next : Differ(prev, next, k)}
           /\ Delta(prev, next, keys).removed
                = {k \in keys \cap DOMAIN prev : k \notin DOMAIN next}
           /\ \A k \in DOMAIN Delta(prev, next, keys).changed :
                 Delta(prev, next, keys).changed[k] = next[k]
BY DEF Delta, Pick

(* DeltaCalculator and DeltaMerger fit: a cache that agrees with the baseline
   on the keys of a subscription agrees with the new state after the merge of
   the delta. (DeltaCalculator.ts:41-105, DeltaMerger.ts:4-47) *)
THEOREM MergeOfDelta ==
    ASSUME NEW cache, NEW prev, NEW next, NEW keys,
           Agree(cache, prev, keys)
    PROVE  Agree(Merge(cache, Delta(prev, next, keys)), next, keys)
<1> DEFINE d == Delta(prev, next, keys)
           merged == Merge(cache, d)
<1>1. SUFFICES ASSUME NEW k \in keys PROVE ~Differ(merged, next, k)
  BY DEF Agree
<1>2. ~Differ(cache, prev, k)
  BY DEF Agree
<1>3. /\ DOMAIN merged = (DOMAIN cache \cup DOMAIN d.changed) \ d.removed
      /\ \A j \in DOMAIN merged :
            merged[j] = IF j \in DOMAIN d.changed THEN d.changed[j] ELSE cache[j]
  BY DEF Merge
<1> HIDE DEF d, merged
<1>4. /\ DOMAIN d.changed = {j \in keys \cap DOMAIN next : Differ(prev, next, j)}
      /\ d.removed = {j \in keys \cap DOMAIN prev : j \notin DOMAIN next}
      /\ \A j \in DOMAIN d.changed : d.changed[j] = next[j]
  BY DeltaDomains DEF d
<1>5. CASE k \notin DOMAIN next
  <2>1. k \notin DOMAIN d.changed
    BY <1>4, <1>5
  <2>2. k \notin DOMAIN merged
    BY <1>2, <1>3, <1>4, <1>5, <2>1 DEF Differ
  <2> QED BY <1>5, <2>2 DEF Differ
<1>6. CASE k \in DOMAIN next /\ Differ(prev, next, k)
  <2>1. k \in DOMAIN d.changed /\ k \notin d.removed /\ d.changed[k] = next[k]
    BY <1>4, <1>6
  <2>2. k \in DOMAIN merged /\ merged[k] = next[k]
    BY <1>3, <2>1
  <2> QED BY <1>6, <2>2 DEF Differ
<1>7. CASE k \in DOMAIN next /\ ~Differ(prev, next, k)
  <2>1. k \notin DOMAIN d.changed /\ k \notin d.removed
    BY <1>4, <1>7
  <2>2. k \in DOMAIN cache /\ cache[k] = next[k]
    BY <1>2, <1>7 DEF Differ
  <2>3. k \in DOMAIN merged /\ merged[k] = next[k]
    BY <1>3, <2>1, <2>2
  <2> QED BY <1>7, <2>3 DEF Differ
<1> QED BY <1>5, <1>6, <1>7

(* Subscriptions of one window do not disturb each other: the delta of one
   leaves every key alone that is not among its own.
   (SubscriptionHandler.ts:113-125) *)
THEOREM MergeIsLocal ==
    ASSUME NEW cache, NEW prev, NEW next, NEW keys, NEW k, k \notin keys
    PROVE  ~Differ(Merge(cache, Delta(prev, next, keys)), cache, k)
<1>1. k \notin DOMAIN Delta(prev, next, keys).changed
      /\ k \notin Delta(prev, next, keys).removed
  BY DeltaDomains
<1> QED BY <1>1 DEF Merge, Differ

(* The update that calculate leaves out, for a delta without content, is one
   that would change nothing. (DeltaCalculator.ts:93-98) *)
THEOREM EmptyDelta ==
    ASSUME NEW prev, NEW next, NEW keys
    PROVE  IsEmpty(Delta(prev, next, keys)) <=> Agree(prev, next, keys)
<1>1. /\ DOMAIN Delta(prev, next, keys).changed
           = {k \in keys \cap DOMAIN next : Differ(prev, next, k)}
      /\ Delta(prev, next, keys).removed
           = {k \in keys \cap DOMAIN prev : k \notin DOMAIN next}
  BY DeltaDomains
<1>2. ASSUME IsEmpty(Delta(prev, next, keys)) PROVE Agree(prev, next, keys)
  BY <1>1, <1>2 DEF IsEmpty, Agree, Differ
<1>3. ASSUME Agree(prev, next, keys) PROVE IsEmpty(Delta(prev, next, keys))
  BY <1>1, <1>3 DEF IsEmpty, Agree, Differ
<1> QED BY <1>2, <1>3

-----------------------------------------------------------------------------
(* Selections *)

(* A selection has exactly the elements at its positions. *)
LEMMA SelectedElements ==
    ASSUME NEW s, NEW I \in SUBSET Nat, IsFiniteSet(I)
    PROVE  /\ Cardinality(I) \in Nat
           /\ DOMAIN Selected(s, I) = 1..Cardinality(I)
           /\ \A n \in 1..Cardinality(I) : \E i \in I : Selected(s, I)[n] = s[i]
           /\ \A i \in I : \E n \in 1..Cardinality(I) : Selected(s, I)[n] = s[i]
<1> DEFINE UpTo(i) == {j \in I : j <= i}
           R == 1..Cardinality(I)
           f == [i \in I |-> Rank(I, i)]
<1>1. Cardinality(I) \in Nat
  BY FS_CardinalityType
<1>2. \A i \in I : IsFiniteSet(UpTo(i)) /\ Cardinality(UpTo(i)) <= Cardinality(I)
  BY FS_Subset
<1>3. \A i \in I : Rank(I, i) \in R
  <2>1. TAKE i \in I
  <2>2. UpTo(i) # {}
    BY DEF UpTo
  <2>3. Cardinality(UpTo(i)) \in Nat /\ Cardinality(UpTo(i)) # 0
    BY <1>2, <2>2, FS_CardinalityType, FS_EmptySet
  <2> QED BY <1>1, <1>2, <2>3 DEF Rank, R
<1>4. \A i, k \in I : i < k => Rank(I, i) # Rank(I, k)
  <2>1. TAKE i, k \in I
  <2>2. HAVE i < k
  <2>3. UpTo(i) \in SUBSET UpTo(k) /\ k \in UpTo(k) /\ k \notin UpTo(i)
    <3>1. \A j \in I : j \in Nat
      OBVIOUS
    <3>2. \A j \in I : j <= i => j <= k
      BY <2>2, <3>1
    <3>3. k <= k /\ ~(k <= i)
      BY <2>2, <3>1
    <3> QED BY <3>2, <3>3 DEF UpTo
  <2>4. Cardinality(UpTo(k)) # Cardinality(UpTo(i))
    BY <1>2, <2>3, FS_Subset
  <2> QED BY <2>4 DEF Rank, UpTo
<1>5. f \in Injection(I, R)
  <2>1. f \in [I -> R]
    BY <1>3
  <2>2. \A i, k \in I : f[i] = f[k] => i = k
    BY <1>4
  <2> QED BY <2>1, <2>2 DEF Injection, IsInjective
<1>6. IsFiniteSet(R) /\ Cardinality(R) = Cardinality(I)
  BY <1>1, FS_Interval
<1>7. f \in Surjection(I, R)
  BY <1>5, <1>6, FS_Injection
<1>8. \A n \in R : \E i \in I : Rank(I, i) = n
  BY <1>7 DEF Surjection
<1> DEFINE At(n) == CHOOSE i \in I : Rank(I, i) = n
<1>9. \A n \in R : At(n) \in I /\ Rank(I, At(n)) = n
  BY <1>8
<1>10. \A i \in I : At(Rank(I, i)) = i
  <2>1. TAKE i \in I
  <2>2. At(Rank(I, i)) \in I /\ Rank(I, At(Rank(I, i))) = Rank(I, i)
    BY <1>3, <1>9
  <2> QED BY <1>4, <2>2
<1>11. /\ DOMAIN Selected(s, I) = R
       /\ \A n \in R : Selected(s, I)[n] = s[At(n)]
  BY DEF Selected
<1> HIDE DEF At
<1> QED BY <1>1, <1>3, <1>9, <1>10, <1>11

LEMMA SelectedSeq ==
    ASSUME NEW S, NEW s \in Seq(S), NEW I \in SUBSET DOMAIN s
    PROVE  /\ Selected(s, I) \in Seq(S)
           /\ Len(Selected(s, I)) <= Len(s)
           /\ DOMAIN Selected(s, I) = 1..Len(Selected(s, I))
           /\ \A n \in DOMAIN Selected(s, I) : \E i \in I : Selected(s, I)[n] = s[i]
           /\ \A i \in I : \E n \in DOMAIN Selected(s, I) : Selected(s, I)[n] = s[i]
<1>1. DOMAIN s = 1..Len(s) /\ Len(s) \in Nat
  BY LenProperties
<1>2. IsFiniteSet(1..Len(s)) /\ Cardinality(1..Len(s)) = Len(s)
  <2>1. Len(s) \in Int /\ (IF 1 > Len(s) THEN 0 ELSE Len(s) - 1 + 1) = Len(s)
    BY <1>1
  <2> QED BY <2>1, FS_Interval
<1>3. IsFiniteSet(I) /\ Cardinality(I) <= Len(s) /\ I \in SUBSET Nat
  BY <1>1, <1>2, FS_Subset
<1> DEFINE sel == Selected(s, I)
           n == Cardinality(I)
<1>4. /\ n \in Nat /\ DOMAIN sel = 1..n
      /\ \A m \in 1..n : \E i \in I : sel[m] = s[i]
      /\ \A i \in I : \E m \in 1..n : sel[m] = s[i]
  BY <1>3, SelectedElements
<1>5. sel = [m \in 1..n |-> sel[m]]
  BY DEF Selected
<1>6. \A i \in I : s[i] \in S
  BY <1>1
<1> HIDE DEF sel
<1>7. \A m \in 1..n : sel[m] \in S
  BY <1>4, <1>6
<1>8. sel \in [1..n -> S]
  BY <1>5, <1>7
<1>9. sel \in Seq(S) /\ Len(sel) = n
  BY <1>4, <1>8
<1> QED BY <1>3, <1>4, <1>9 DEF sel
-----------------------------------------------------------------------------
(* Messages *)

(* A message says what a state t has for k ... *)
Tells(m, t, k) ==
    IF m.type = "state" THEN ~Differ(m.state, t, k)
    ELSE IF m.full THEN DOMAIN m.changed # {} /\ ~Differ(m.changed, t, k)
    ELSE \/ k \in m.removed /\ k \notin DOMAIN t
         \/ k \notin m.removed /\ k \in DOMAIN m.changed /\ ~Differ(m.changed, t, k)

(* ... or nothing about k. *)
Silent(m, k) ==
    /\ m.type = "update"
    /\ IF m.full THEN DOMAIN m.changed = {}
       ELSE k \notin m.removed /\ k \notin DOMAIN m.changed

Fine(m, t, k) == Tells(m, t, k) \/ Silent(m, k)

(* A copy that has content c before the messages after position j has the
   value of t for k after them: it has it already and none of them takes it
   away, or one of them says it and none of the later ones takes it away. *)
Settled(ms, j, c, t, k) ==
    \/ /\ ~Differ(c, t, k)
       /\ \A i \in DOMAIN ms : i > j => Fine(ms[i], t, k)
    \/ \E n \in DOMAIN ms :
          /\ n > j /\ Tells(ms[n], t, k)
          /\ \A i \in DOMAIN ms : i >= n => Fine(ms[i], t, k)

(* A message whose content a copy takes whatever it had before: a snapshot,
   or the first update of an epoch, which only a window without a copy uses. *)
Base(m) == m.type = "state" \/ m.seq = 1

BaseContent(m) == IF m.type = "state" THEN m.state ELSE Apply(m, Nothing)

StartsSettle(ms, K, t) ==
    \A j \in DOMAIN ms :
        Base(ms[j]) => \A k \in K : Settled(ms, j, BaseContent(ms[j]), t, k)

LEMMA SameTwice ==
    ASSUME NEW s, NEW t, NEW u, NEW k, ~Differ(s, t, k), ~Differ(t, u, k)
    PROVE  ~Differ(s, u, k)
BY DEF Differ

LEMMA SameTells ==
    ASSUME NEW m, NEW t, NEW u, NEW k, ~Differ(t, u, k)
    PROVE  (Tells(m, t, k) => Tells(m, u, k)) /\ (Fine(m, t, k) => Fine(m, u, k))
<1>1. Tells(m, t, k) => Tells(m, u, k)
  <2>1. k \in DOMAIN t <=> k \in DOMAIN u
    BY DEF Differ
  <2>2. \A s : ~Differ(s, t, k) => ~Differ(s, u, k)
    BY SameTwice
  <2> QED BY <2>1, <2>2 DEF Tells
<1> QED BY <1>1 DEF Fine

LEMMA ToldIsApplied ==
    ASSUME NEW m, NEW c, NEW t, NEW k, m.type = "update", Tells(m, t, k)
    PROVE  ~Differ(Apply(m, c), t, k)
<1>1. CASE m.full
  BY <1>1 DEF Tells, Apply, Replace
<1>2. CASE ~m.full
  <2>1. Apply(m, c) = Merge(c, m)
    BY <1>2 DEF Apply
  <2>2. CASE k \in m.removed /\ k \notin DOMAIN t
    BY <2>1, <2>2 DEF Merge, Differ
  <2>3. CASE k \notin m.removed /\ k \in DOMAIN m.changed /\ ~Differ(m.changed, t, k)
    <3>1. k \in DOMAIN Merge(c, m) /\ Merge(c, m)[k] = m.changed[k]
      BY <2>3 DEF Merge
    <3> QED BY <2>1, <2>3, <3>1 DEF Differ
  <2> QED BY <1>2, <2>2, <2>3 DEF Tells
<1> QED BY <1>1, <1>2

LEMMA SilentKeeps ==
    ASSUME NEW m, NEW c, NEW t, NEW k, Silent(m, k), ~Differ(c, t, k)
    PROVE  ~Differ(Apply(m, c), t, k)
<1>1. CASE m.full
  BY <1>1 DEF Silent, Apply, Replace
<1>2. CASE ~m.full
  <2>1. Apply(m, c) = Merge(c, m)
    BY <1>2 DEF Apply
  <2>2. k \in DOMAIN Merge(c, m) <=> k \in DOMAIN c
    BY <1>2 DEF Silent, Merge
  <2>3. k \in DOMAIN c => Merge(c, m)[k] = c[k]
    BY <1>2 DEF Silent, Merge
  <2> QED BY <2>1, <2>2, <2>3 DEF Differ
<1> QED BY <1>1, <1>2

LEMMA SettledSame ==
    ASSUME NEW ms, NEW j, NEW c, NEW t, NEW u, NEW k,
           ~Differ(t, u, k), Settled(ms, j, c, t, k)
    PROVE  Settled(ms, j, c, u, k)
<1>1. \A m : (Tells(m, t, k) => Tells(m, u, k)) /\ (Fine(m, t, k) => Fine(m, u, k))
  BY SameTells
<1>2. ~Differ(c, t, k) => ~Differ(c, u, k)
  BY SameTwice
<1> QED BY <1>1, <1>2 DEF Settled

(* Messages that are fine may follow ... *)
LEMMA SettledAppend ==
    ASSUME NEW S, NEW ms \in Seq(S), NEW new \in Seq(S), NEW j,
           NEW c, NEW t, NEW k, Settled(ms, j, c, t, k),
           \A i \in DOMAIN new : Fine(new[i], t, k)
    PROVE  Settled(ms \o new, j, c, t, k)
<1> DEFINE all == ms \o new
<1>1. /\ all \in Seq(S) /\ Len(all) = Len(ms) + Len(new)
      /\ \A i \in 1..(Len(ms) + Len(new)) :
            all[i] = IF i <= Len(ms) THEN ms[i] ELSE new[i - Len(ms)]
  BY ConcatProperties
<1>2. /\ DOMAIN ms = 1..Len(ms) /\ DOMAIN new = 1..Len(new)
      /\ Len(ms) \in Nat /\ Len(new) \in Nat
      /\ DOMAIN all = 1..(Len(ms) + Len(new))
  BY <1>1, LenProperties
<1> HIDE DEF all
<1>3. \A i \in DOMAIN ms : i \in DOMAIN all /\ all[i] = ms[i]
  BY <1>1, <1>2
<1>4. \A i \in DOMAIN all : i \in DOMAIN ms \/ Fine(all[i], t, k)
  <2>1. TAKE i \in DOMAIN all
  <2>2. CASE i > Len(ms)
    <3>1. i - Len(ms) \in DOMAIN new /\ all[i] = new[i - Len(ms)]
      BY <1>1, <1>2, <2>2
    <3> QED BY <3>1
  <2> QED BY <1>2, <2>2
<1>5. CASE ~Differ(c, t, k) /\ \A i \in DOMAIN ms : i > j => Fine(ms[i], t, k)
  BY <1>3, <1>4, <1>5 DEF Settled, all
<1>6. CASE \E n \in DOMAIN ms :
              /\ n > j /\ Tells(ms[n], t, k)
              /\ \A i \in DOMAIN ms : i >= n => Fine(ms[i], t, k)
  <2>1. PICK n \in DOMAIN ms :
              /\ n > j /\ Tells(ms[n], t, k)
              /\ \A i \in DOMAIN ms : i >= n => Fine(ms[i], t, k)
    BY <1>6
  <2>2. n \in DOMAIN all /\ Tells(all[n], t, k)
    BY <1>3, <2>1
  <2>3. \A i \in DOMAIN all : i >= n => Fine(all[i], t, k)
    BY <1>3, <1>4, <2>1
  <2> QED BY <2>1, <2>2, <2>3 DEF Settled, all
<1> QED BY <1>5, <1>6 DEF Settled

(* ... and settle k themselves if one of them tells it. *)
LEMMA SettledTold ==
    ASSUME NEW S, NEW ms \in Seq(S), NEW new \in Seq(S), NEW j \in 0..Len(ms),
           NEW c, NEW t, NEW k, NEW n \in DOMAIN new, Tells(new[n], t, k),
           \A i \in DOMAIN new : Fine(new[i], t, k)
    PROVE  Settled(ms \o new, j, c, t, k)
<1> DEFINE all == ms \o new
<1>1. /\ all \in Seq(S) /\ Len(all) = Len(ms) + Len(new)
      /\ \A i \in 1..(Len(ms) + Len(new)) :
            all[i] = IF i <= Len(ms) THEN ms[i] ELSE new[i - Len(ms)]
  BY ConcatProperties
<1>2. /\ DOMAIN ms = 1..Len(ms) /\ DOMAIN new = 1..Len(new)
      /\ Len(ms) \in Nat /\ Len(new) \in Nat
      /\ DOMAIN all = 1..(Len(ms) + Len(new))
  BY <1>1, LenProperties
<1> HIDE DEF all
<1> DEFINE p == Len(ms) + n
<1>3. p \in DOMAIN all /\ all[p] = new[n] /\ p > j
  BY <1>1, <1>2
<1>4. \A i \in DOMAIN all : i >= p => Fine(all[i], t, k)
  <2>1. TAKE i \in DOMAIN all
  <2>2. HAVE i >= p
  <2>3. i - Len(ms) \in DOMAIN new /\ all[i] = new[i - Len(ms)]
    BY <1>1, <1>2, <2>2
  <2> QED BY <2>3
<1> HIDE DEF p
<1> QED BY <1>3, <1>4 DEF Settled, all

(* The messages from a later position on. *)
LEMMA SettledRest ==
    ASSUME NEW ms, NEW rest, NEW len \in Nat, NEW d \in Nat,
           DOMAIN rest = 1..len, DOMAIN ms = 1..(len + d),
           \A i \in 1..len : rest[i] = ms[i + d],
           NEW j \in Nat, NEW c, NEW t, NEW k, Settled(ms, j + d, c, t, k)
    PROVE  Settled(rest, j, c, t, k)
<1>1. \A i \in DOMAIN rest : i + d \in DOMAIN ms
  OBVIOUS
<1>2. CASE ~Differ(c, t, k) /\ \A i \in DOMAIN ms : i > j + d => Fine(ms[i], t, k)
  BY <1>1, <1>2 DEF Settled
<1>3. CASE \E n \in DOMAIN ms :
              /\ n > j + d /\ Tells(ms[n], t, k)
              /\ \A i \in DOMAIN ms : i >= n => Fine(ms[i], t, k)
  <2>1. PICK n \in DOMAIN ms :
              /\ n > j + d /\ Tells(ms[n], t, k)
              /\ \A i \in DOMAIN ms : i >= n => Fine(ms[i], t, k)
    BY <1>3
  <2>2. n - d \in DOMAIN rest /\ n - d > j /\ rest[n - d] = ms[n]
    BY <2>1
  <2>3. \A i \in DOMAIN rest : i >= n - d => Fine(rest[i], t, k)
    BY <1>1, <2>1
  <2> QED BY <2>1, <2>2, <2>3 DEF Settled
<1> QED BY <1>2, <1>3 DEF Settled

LEMMA TailShift ==
    ASSUME NEW S, NEW ms \in Seq(S), ms # <<>>
    PROVE  /\ Len(ms) - 1 \in Nat /\ DOMAIN ms = 1..(Len(ms) - 1 + 1)
           /\ Tail(ms) \in Seq(S) /\ DOMAIN Tail(ms) = 1..(Len(ms) - 1)
           /\ \A i \in 1..(Len(ms) - 1) : Tail(ms)[i] = ms[i + 1]
           /\ 1 \in DOMAIN ms /\ Head(ms) = ms[1]
  OBVIOUS

(* The copy uses the first message. *)
LEMMA SettledApplied ==
    ASSUME NEW S, NEW ms \in Seq(S), ms # <<>>, Head(ms).type = "update",
           NEW c, NEW t, NEW k, Settled(ms, 0, c, t, k)
    PROVE  Settled(Tail(ms), 0, Apply(Head(ms), c), t, k)
<1> DEFINE len == Len(ms) - 1
           a == Apply(Head(ms), c)
<1>1. /\ len \in Nat /\ DOMAIN ms = 1..(len + 1)
      /\ DOMAIN Tail(ms) = 1..len
      /\ \A i \in 1..len : Tail(ms)[i] = ms[i + 1]
      /\ 1 \in DOMAIN ms /\ Head(ms) = ms[1]
  BY TailShift
<1> HIDE DEF len
<1>2. SUFFICES Settled(ms, 0 + 1, a, t, k)
  BY <1>1, SettledRest DEF a
<1>3. Fine(ms[1], t, k) /\ ~Differ(c, t, k) => ~Differ(a, t, k)
  BY <1>1, ToldIsApplied, SilentKeeps DEF Fine, a
<1>4. Tells(ms[1], t, k) => ~Differ(a, t, k)
  BY <1>1, ToldIsApplied DEF a
<1> HIDE DEF a
<1>5. CASE ~Differ(c, t, k) /\ \A i \in DOMAIN ms : i > 0 => Fine(ms[i], t, k)
  BY <1>1, <1>3, <1>5 DEF Settled
<1>6. CASE \E n \in DOMAIN ms :
              /\ n > 0 /\ Tells(ms[n], t, k)
              /\ \A i \in DOMAIN ms : i >= n => Fine(ms[i], t, k)
  <2>1. PICK n \in DOMAIN ms :
              /\ n > 0 /\ Tells(ms[n], t, k)
              /\ \A i \in DOMAIN ms : i >= n => Fine(ms[i], t, k)
    BY <1>6
  <2>2. CASE n = 1
    BY <1>1, <1>4, <2>1, <2>2 DEF Settled
  <2>3. CASE n > 1
    BY <2>1, <2>3 DEF Settled
  <2> QED BY <1>1, <2>1, <2>2, <2>3
<1> QED BY <1>5, <1>6 DEF Settled

LEMMA SettledEnd ==
    ASSUME NEW c, NEW t, NEW k, Settled(<<>>, 0, c, t, k)
    PROVE  ~Differ(c, t, k)
BY DEF Settled

LEMMA SettledAfter ==
    ASSUME NEW S, NEW ms \in Seq(S), NEW new \in Seq(S), NEW j \in Nat,
           NEW c, NEW t, NEW k, Settled(new, j, c, t, k)
    PROVE  Settled(ms \o new, Len(ms) + j, c, t, k)
<1> DEFINE all == ms \o new
           d == Len(ms)
<1>1. /\ Len(all) = d + Len(new)
      /\ \A i \in 1..(d + Len(new)) : all[i] = IF i <= d THEN ms[i] ELSE new[i - d]
  BY ConcatProperties
<1>2. /\ DOMAIN new = 1..Len(new) /\ d \in Nat /\ Len(new) \in Nat
      /\ DOMAIN all = 1..(d + Len(new))
  BY <1>1, LenProperties
<1> HIDE DEF all, d
<1>3. \A i \in DOMAIN all : i > d => i - d \in DOMAIN new /\ all[i] = new[i - d]
  BY <1>1, <1>2
<1>4. \A i \in DOMAIN new : i + d \in DOMAIN all /\ all[i + d] = new[i]
  <2>1. TAKE i \in DOMAIN new
  <2>2. i + d \in 1..(d + Len(new)) /\ ~(i + d <= d) /\ (i + d) - d = i
    BY <1>2
  <2> QED BY <1>1, <1>2, <2>2
<1>5. CASE ~Differ(c, t, k) /\ \A i \in DOMAIN new : i > j => Fine(new[i], t, k)
  <2>1. \A i \in DOMAIN all : i > d + j => Fine(all[i], t, k)
    <3>1. TAKE i \in DOMAIN all
    <3>2. HAVE i > d + j
    <3>3. i > d /\ i - d > j
      BY <1>2, <3>2
    <3> QED BY <1>3, <1>5, <3>3
  <2> QED BY <1>5, <2>1 DEF Settled, all, d
<1>6. CASE \E n \in DOMAIN new :
              /\ n > j /\ Tells(new[n], t, k)
              /\ \A i \in DOMAIN new : i >= n => Fine(new[i], t, k)
  <2>1. PICK n \in DOMAIN new :
              /\ n > j /\ Tells(new[n], t, k)
              /\ \A i \in DOMAIN new : i >= n => Fine(new[i], t, k)
    BY <1>6
  <2> DEFINE p == n + d
  <2>2. p \in DOMAIN all /\ Tells(all[p], t, k) /\ p > d + j
    BY <1>2, <1>4, <2>1
  <2>3. \A i \in DOMAIN all : i >= p => Fine(all[i], t, k)
    <3>1. TAKE i \in DOMAIN all
    <3>2. HAVE i >= p
    <3>3. i > d /\ i - d >= n
      BY <1>2, <2>1, <3>2
    <3> QED BY <1>3, <2>1, <3>3
  <2> HIDE DEF p
  <2> QED BY <2>2, <2>3 DEF Settled, all, d
<1> QED BY <1>5, <1>6 DEF Settled

(* Messages that are fine follow, when t becomes u: a key that was settled
   and did not change stays so, another one is told. *)
LEMMA StartsAppend ==
    ASSUME NEW S, NEW ms \in Seq(S), NEW new \in Seq(S), NEW K, NEW L, NEW t, NEW u,
           StartsSettle(ms, K, t), StartsSettle(new, L, u),
           \A k \in L : \A i \in DOMAIN new : Fine(new[i], u, k),
           \A k \in L : \/ ms = <<>>
                        \/ k \in K /\ ~Differ(t, u, k)
                        \/ \E n \in DOMAIN new : Tells(new[n], u, k)
    PROVE  StartsSettle(ms \o new, L, u)
<1> DEFINE all == ms \o new
<1>1. /\ Len(all) = Len(ms) + Len(new)
      /\ \A i \in 1..(Len(ms) + Len(new)) :
            all[i] = IF i <= Len(ms) THEN ms[i] ELSE new[i - Len(ms)]
      /\ all \in Seq(S)
  BY ConcatProperties
<1>2. /\ DOMAIN ms = 1..Len(ms) /\ DOMAIN new = 1..Len(new)
      /\ Len(ms) \in Nat /\ Len(new) \in Nat
      /\ DOMAIN all = 1..(Len(ms) + Len(new))
  BY <1>1, LenProperties
<1> HIDE DEF all
<1>3. SUFFICES ASSUME NEW j \in DOMAIN all, Base(all[j]), NEW k \in L
               PROVE  Settled(ms \o new, j, BaseContent(all[j]), u, k)
  BY DEF StartsSettle, all
<1>4. CASE j <= Len(ms)
  <2>1. j \in DOMAIN ms /\ all[j] = ms[j] /\ j \in 0..Len(ms) /\ ms # <<>>
    BY <1>1, <1>2, <1>4
  <2>2. CASE k \in K /\ ~Differ(t, u, k)
    <3>1. Settled(ms, j, BaseContent(all[j]), t, k)
      BY <1>3, <2>1, <2>2 DEF StartsSettle
    <3>2. Settled(ms, j, BaseContent(all[j]), u, k)
      BY <2>2, <3>1, SettledSame
    <3> QED BY <3>2, SettledAppend
  <2>3. CASE \E n \in DOMAIN new : Tells(new[n], u, k)
    BY <2>1, <2>3, SettledTold
  <2> QED BY <2>1, <2>2, <2>3
<1>5. CASE j > Len(ms)
  <2> DEFINE i == j - Len(ms)
  <2>1. i \in DOMAIN new /\ all[j] = new[i] /\ i \in Nat /\ Len(ms) + i = j
    BY <1>1, <1>2, <1>5
  <2> HIDE DEF i
  <2>2. Settled(new, i, BaseContent(all[j]), u, k)
    BY <1>3, <2>1 DEF StartsSettle
  <2>3. Settled(ms \o new, Len(ms) + i, BaseContent(all[j]), u, k)
    BY <2>1, <2>2, SettledAfter
  <2> QED BY <2>1, <2>3
<1> QED BY <1>2, <1>4, <1>5

LEMMA StartsRest ==
    ASSUME NEW ms, NEW rest, NEW len \in Nat, NEW d \in Nat,
           DOMAIN rest = 1..len, DOMAIN ms = 1..(len + d),
           \A i \in 1..len : rest[i] = ms[i + d],
           NEW K, NEW t, StartsSettle(ms, K, t)
    PROVE  StartsSettle(rest, K, t)
<1>1. SUFFICES ASSUME NEW j \in DOMAIN rest, Base(rest[j]), NEW k \in K
               PROVE  Settled(rest, j, BaseContent(rest[j]), t, k)
  BY DEF StartsSettle
<1>2. j + d \in DOMAIN ms /\ rest[j] = ms[j + d] /\ j \in Nat
  OBVIOUS
<1>3. Settled(ms, j + d, BaseContent(rest[j]), t, k)
  BY <1>1, <1>2 DEF StartsSettle
<1> QED BY <1>2, <1>3, SettledRest

LEMMA StartsTail ==
    ASSUME NEW S, NEW ms \in Seq(S), ms # <<>>, NEW K, NEW t, StartsSettle(ms, K, t)
    PROVE  StartsSettle(Tail(ms), K, t)
<1>1. /\ Len(ms) - 1 \in Nat /\ DOMAIN ms = 1..(Len(ms) - 1 + 1)
      /\ DOMAIN Tail(ms) = 1..(Len(ms) - 1)
      /\ \A i \in 1..(Len(ms) - 1) : Tail(ms)[i] = ms[i + 1]
  BY TailShift
<1> DEFINE len == Len(ms) - 1
<1> HIDE DEF len
<1>2. /\ len \in Nat /\ DOMAIN ms = 1..(len + 1) /\ DOMAIN Tail(ms) = 1..len
      /\ \A i \in 1..len : Tail(ms)[i] = ms[i + 1]
  BY <1>1 DEF len
<1> QED BY <1>2, StartsRest

(* What a loading window is not sent for want of space. *)
LEMMA StartsNewest ==
    ASSUME NEW S, NEW ms \in Seq(S)
    PROVE  /\ NewestOf(ms) \in Seq(S)
           /\ \A i \in DOMAIN NewestOf(ms) : \E n \in DOMAIN ms : NewestOf(ms)[i] = ms[n]
           /\ \A K, t : StartsSettle(ms, K, t) => StartsSettle(NewestOf(ms), K, t)
<1> DEFINE d == IF Len(ms) > MaxQueued THEN Len(ms) - MaxQueued ELSE 0
           len == Len(ms) - d
           rest == NewestOf(ms)
<1>1. Len(ms) \in Nat /\ DOMAIN ms = 1..Len(ms) /\ \A i \in 1..Len(ms) : ms[i] \in S
  BY LenProperties
<1>2. d \in 0..Len(ms) /\ len \in Nat /\ len + d = Len(ms)
  BY <1>1, SyncAssumption
<1>3. NewestOf(ms) = SubSeq(ms, d + 1, Len(ms))
  BY <1>1, SyncAssumption DEF NewestOf
<1> HIDE DEF d
<1>4. \A i \in (d + 1)..Len(ms) : ms[i] \in S
  BY <1>1, <1>2
<1>5. /\ rest \in Seq(S)
      /\ Len(rest) = IF d + 1 <= Len(ms) THEN Len(ms) - (d + 1) + 1 ELSE 0
      /\ \A i \in 1..(Len(ms) - (d + 1) + 1) : rest[i] = ms[d + 1 + i - 1]
  <2>1. d + 1 \in Int /\ Len(ms) \in Int
    BY <1>1, <1>2
  <2> QED BY <1>3, <1>4, <2>1, SubSeqProperties
<1>6. /\ DOMAIN rest = 1..len
      /\ DOMAIN ms = 1..(len + d)
      /\ \A i \in 1..len : rest[i] = ms[i + d]
  <2> HIDE DEF rest, len
  <2>1. DOMAIN rest = 1..Len(rest)
    BY <1>5, LenProperties
  <2>2. len = Len(ms) - d /\ d \in Nat
    BY <1>2 DEF len
  <2>3. Len(rest) = len
    <3>1. (IF d + 1 <= Len(ms) THEN Len(ms) - (d + 1) + 1 ELSE 0) = Len(ms) - d
      <4>1. \A a \in Nat : \A b \in 0..a :
               /\ b + 1 <= a => a - (b + 1) + 1 = a - b
               /\ ~(b + 1 <= a) => a - b = 0
        OBVIOUS
      <4> QED BY <1>1, <1>2, <4>1
    <3> QED BY <1>5, <2>2, <3>1
  <2>4. ASSUME NEW i \in 1..len PROVE rest[i] = ms[i + d]
    <3>1. i \in 1..(Len(ms) - (d + 1) + 1) /\ d + 1 + i - 1 = i + d
      BY <1>1, <2>2
    <3> QED BY <1>5, <3>1
  <2> QED BY <1>1, <1>2, <2>1, <2>3, <2>4
<1> HIDE DEF rest, len
<1>7. \A i \in DOMAIN rest : i + d \in DOMAIN ms
  BY <1>2, <1>6
<1>8. \A K, t : StartsSettle(ms, K, t) => StartsSettle(rest, K, t)
  BY <1>2, <1>6, StartsRest
<1> QED BY <1>5, <1>6, <1>7, <1>8 DEF rest

LEMMA StartsOne ==
    ASSUME NEW m, NEW K, NEW t,
           Base(m) => \A k \in K : ~Differ(BaseContent(m), t, k)
    PROVE  StartsSettle(<<m>>, K, t)
<1>1. DOMAIN <<m>> = {1} /\ <<m>>[1] = m
  OBVIOUS
<1> DEFINE ms == <<m>>
<1> HIDE DEF ms
<1>2. ASSUME Base(m), NEW k \in K PROVE Settled(ms, 1, BaseContent(m), t, k)
  BY <1>1, <1>2 DEF Settled, ms
<1> QED BY <1>1, <1>2 DEF StartsSettle, ms
-----------------------------------------------------------------------------
(* States, subscriptions and their updates *)

LEMMA StateIntro ==
    ASSUME NEW ks \in SUBSET Keys, NEW f \in [ks -> 1..MaxChanges]
    PROVE  f \in States
BY DEF States

LEMMA StateElim ==
    ASSUME NEW s \in States
    PROVE  /\ DOMAIN s \in SUBSET Keys
           /\ s \in [DOMAIN s -> 1..MaxChanges]
BY DEF States

LEMMA NothingIs ==
    /\ Nothing \in States /\ DOMAIN Nothing = {}
    /\ \A s \in States : DOMAIN s = {} => s = Nothing
<1>1. DOMAIN Nothing = {} /\ Nothing \in [{} -> 1..MaxChanges]
  BY DEF Nothing
<1>2. Nothing \in States
  BY <1>1, StateIntro
<1>3. ASSUME NEW s \in States, DOMAIN s = {} PROVE s = Nothing
  <2>1. s \in [{} -> 1..MaxChanges]
    BY <1>3, StateElim
  <2> QED BY <2>1 DEF Nothing
<1> QED BY <1>1, <1>2, <1>3

LEMMA PickState ==
    ASSUME NEW s \in States, NEW keys
    PROVE  /\ Pick(s, keys) \in States
           /\ DOMAIN Pick(s, keys) = keys \cap DOMAIN s
           /\ \A k \in keys : ~Differ(Pick(s, keys), s, k)
<1>1. DOMAIN s \in SUBSET Keys /\ s \in [DOMAIN s -> 1..MaxChanges]
  BY StateElim
<1>2. /\ DOMAIN Pick(s, keys) = keys \cap DOMAIN s
      /\ \A k \in keys \cap DOMAIN s : Pick(s, keys)[k] = s[k]
      /\ Pick(s, keys) \in [keys \cap DOMAIN s -> 1..MaxChanges]
  BY <1>1 DEF Pick
<1>3. Pick(s, keys) \in States
  BY <1>1, <1>2, StateIntro
<1> QED BY <1>2, <1>3 DEF Differ

LEMMA ApplyState ==
    ASSUME NEW c \in States, NEW m, m.changed \in States
    PROVE  Apply(m, c) \in States
<1>1. /\ DOMAIN c \in SUBSET Keys /\ c \in [DOMAIN c -> 1..MaxChanges]
      /\ DOMAIN m.changed \in SUBSET Keys
      /\ m.changed \in [DOMAIN m.changed -> 1..MaxChanges]
  BY StateElim
<1>2. Replace(c, m.changed) \in States
  BY DEF Replace
<1> DEFINE ks == (DOMAIN c \cup DOMAIN m.changed) \ m.removed
<1>3. ks \in SUBSET Keys /\ Merge(c, m) \in [ks -> 1..MaxChanges]
  BY <1>1 DEF Merge
<1>4. Merge(c, m) \in States
  BY <1>3, StateIntro
<1> QED BY <1>2, <1>4 DEF Apply

(* The update that a subscription sends of a new state. *)
Message(s, n, next) ==
    Update(n, Content(s, next).full, Content(s, next).changed, Content(s, next).removed)

SentMessages == {m \in Messages : m.type = "update" => m.seq > 0}

(* A subscription that is in step with the store and with the keys that
   subscriptions have lost. *)
SubInv(s, st, lost) ==
    /\ s.keys # {} /\ s.keys \subseteq s.callbackKeys
    /\ s.callbackKeys \ s.keys \subseteq lost
    /\ DOMAIN s.prevState \subseteq s.callbackKeys
    /\ \A k \in s.keys : ~Differ(s.prevState, st, k)
    /\ s.star => s.keys = Keys

LEMMA ContentIs ==
    ASSUME NEW s \in Subscription, NEW next \in States, deltasEnabled \in BOOLEAN
    PROVE  /\ Content(s, next).full = (~deltasEnabled /\ s.star)
           /\ Content(s, next).changed
                = IF deltasEnabled
                  THEN Delta(s.prevState, Pick(next, s.keys), s.callbackKeys).changed
                  ELSE Pick(next, s.keys)
           /\ Content(s, next).removed
                = IF ~deltasEnabled /\ s.star THEN {}
                  ELSE Delta(s.prevState, Pick(next, s.keys), s.callbackKeys).removed
           /\ Content(s, next).changed \in States
           /\ Content(s, next).removed \in SUBSET Keys
<1>0. s.star \in BOOLEAN /\ s.callbackKeys \in SUBSET Keys /\ s.keys \in SUBSET Keys
  BY DEF Subscription
<1> DEFINE state == Pick(next, s.keys)
           delta == Delta(s.prevState, state, s.callbackKeys)
<1>1. /\ Content(s, next).full = (~deltasEnabled /\ s.star)
      /\ Content(s, next).changed = IF deltasEnabled THEN delta.changed ELSE state
      /\ Content(s, next).removed = IF ~deltasEnabled /\ s.star THEN {} ELSE delta.removed
  BY <1>0 DEF Content
<1>2. state \in States
  BY PickState
<1>3. delta.changed \in States /\ delta.removed \in SUBSET Keys
  BY <1>0, <1>2, PickState DEF Delta
<1> HIDE DEF state, delta
<1>4. Content(s, next).changed \in States /\ Content(s, next).removed \in SUBSET Keys
  BY <1>1, <1>2, <1>3
<1> QED BY <1>1, <1>4 DEF state, delta

LEMMA MessageIs ==
    ASSUME NEW s \in Subscription, NEW next \in States, NEW n \in Nat \ {0},
           deltasEnabled \in BOOLEAN
    PROVE  /\ Message(s, n, next) \in SentMessages
           /\ Message(s, n, next).type = "update" /\ Message(s, n, next).seq = n
           /\ Message(s, n, next).full = Content(s, next).full
           /\ Message(s, n, next).changed = Content(s, next).changed
           /\ Message(s, n, next).removed = Content(s, next).removed
<1>1. /\ Content(s, next).full \in BOOLEAN /\ Content(s, next).changed \in States
      /\ Content(s, next).removed \in SUBSET Keys
  BY ContentIs DEF Subscription
<1> QED BY <1>1 DEF Message, Update, SentMessages, Messages

(* What an update carries of a key of its subscription, with deltas. *)
LEMMA DeltaOfKey ==
    ASSUME NEW prev, NEW next, NEW keys, NEW all, NEW k \in all, k \in keys
    PROVE  LET d == Delta(prev, Pick(next, keys), all)
           IN  /\ k \in d.removed <=> k \in DOMAIN prev /\ k \notin DOMAIN next
               /\ k \in DOMAIN d.changed <=> k \in DOMAIN next /\ Differ(prev, next, k)
               /\ k \in DOMAIN d.changed => d.changed[k] = next[k]
BY DEF Delta, Pick, Differ

(* An update agrees with the state it was made of, on every key but those that
   its subscription has lost. (SubscriptionHandler.ts:113-125) *)
LEMMA ContentIsFine ==
    ASSUME NEW s \in Subscription, NEW next \in States, NEW n \in Nat \ {0},
           deltasEnabled \in BOOLEAN, NEW st, NEW lost, SubInv(s, st, lost),
           Sends(s, next), NEW k \in Keys \ lost
    PROVE  Fine(Message(s, n, next), next, k)
<1> DEFINE m == Message(s, n, next)
           d == Delta(s.prevState, Pick(next, s.keys), s.callbackKeys)
<1>1. /\ m.type = "update" /\ m.full = Content(s, next).full
      /\ m.changed = Content(s, next).changed /\ m.removed = Content(s, next).removed
  BY MessageIs
<1>2. /\ m.full = (~deltasEnabled /\ s.star)
      /\ m.changed = IF deltasEnabled THEN d.changed ELSE Pick(next, s.keys)
      /\ m.removed = IF ~deltasEnabled /\ s.star THEN {} ELSE d.removed
  BY <1>1, ContentIs
<1>3. DOMAIN m.changed # {} \/ m.removed # {}
  BY <1>1 DEF Sends, IsEmpty
<1>4. k \in s.keys \/ k \notin s.callbackKeys
  BY DEF SubInv
<1>5. s.keys \subseteq s.callbackKeys /\ (s.star => s.keys = Keys)
  BY DEF SubInv
<1>6. /\ DOMAIN Pick(next, s.keys) = s.keys \cap DOMAIN next
      /\ \A i \in s.keys : ~Differ(Pick(next, s.keys), next, i)
  BY PickState
<1>7. CASE ~deltasEnabled /\ s.star
  BY <1>1, <1>2, <1>3, <1>5, <1>6, <1>7 DEF Fine, Tells
<1>8. CASE ~(~deltasEnabled /\ s.star) /\ k \in s.keys
  <2>1. /\ k \in d.removed <=> k \in DOMAIN s.prevState /\ k \notin DOMAIN next
        /\ k \in DOMAIN d.changed <=> k \in DOMAIN next /\ Differ(s.prevState, next, k)
        /\ k \in DOMAIN d.changed => d.changed[k] = next[k]
    BY <1>5, <1>8, DeltaOfKey
  <2>2. k \in DOMAIN m.changed => k \in DOMAIN next /\ m.changed[k] = next[k]
    <3>1. CASE deltasEnabled
      BY <1>2, <2>1, <3>1
    <3>2. CASE ~deltasEnabled
      BY <1>2, <1>6, <1>8, <3>2 DEF Pick
    <3> QED BY <3>1, <3>2
  <2>3. k \in m.removed => k \notin DOMAIN next
    BY <1>2, <1>8, <2>1
  <2>4. k \in DOMAIN m.changed => ~Differ(m.changed, next, k)
    BY <2>2 DEF Differ
  <2> HIDE DEF m, d
  <2> QED BY <1>1, <1>2, <1>8, <2>2, <2>3, <2>4 DEF Fine, Tells, Silent, m
<1>9. CASE ~(~deltasEnabled /\ s.star) /\ k \notin s.keys
  <2>1. k \notin s.callbackKeys
    BY <1>4, <1>9
  <2>2. k \notin d.removed /\ k \notin DOMAIN d.changed
    BY <2>1 DEF Delta, Pick
  <2>3. k \notin DOMAIN m.changed /\ k \notin m.removed
    BY <1>2, <1>6, <1>9, <2>2
  <2> HIDE DEF m, d
  <2> QED BY <1>1, <1>2, <1>9, <2>3 DEF Fine, Silent, m
<1> QED BY <1>7, <1>8, <1>9

(* A key of a subscription that changes is sent, unless the subscription is '*',
   the new state empty and deltas are disabled. (SubscriptionHandler.ts:113-125) *)
LEMMA ContentTells ==
    ASSUME NEW s \in Subscription, NEW next \in States, NEW n \in Nat \ {0},
           deltasEnabled \in BOOLEAN, NEW lost, SubInv(s, store, lost),
           NEW k \in s.keys,
           \/ Differ(store, next, k) /\ (deltasEnabled \/ ~s.star \/ next # Nothing)
           \/ ~deltasEnabled /\ s.star /\ next # Nothing
    PROVE  Sends(s, next) /\ Tells(Message(s, n, next), next, k)
<1> DEFINE m == Message(s, n, next)
           d == Delta(s.prevState, Pick(next, s.keys), s.callbackKeys)
<1>1. /\ m.type = "update" /\ m.full = Content(s, next).full
      /\ m.changed = Content(s, next).changed /\ m.removed = Content(s, next).removed
  BY MessageIs
<1>2. /\ m.full = (~deltasEnabled /\ s.star)
      /\ m.changed = IF deltasEnabled THEN d.changed ELSE Pick(next, s.keys)
      /\ m.removed = IF ~deltasEnabled /\ s.star THEN {} ELSE d.removed
  BY <1>1, ContentIs
<1>3. Relevant(s, next)
  BY DEF Relevant
<1>4. Sends(s, next) <=> DOMAIN m.changed # {} \/ m.removed # {}
  BY <1>1, <1>3 DEF Sends, IsEmpty
<1>5. /\ DOMAIN Pick(next, s.keys) = s.keys \cap DOMAIN next
      /\ \A i \in s.keys : ~Differ(Pick(next, s.keys), next, i)
  BY PickState
<1>6. /\ s.keys \subseteq s.callbackKeys /\ (s.star => s.keys = Keys)
      /\ ~Differ(s.prevState, store, k)
  BY DEF SubInv
<1>7. CASE ~deltasEnabled /\ s.star
  <2>1. next # Nothing
    BY <1>7
  <2>2. DOMAIN next # {} /\ DOMAIN next \subseteq Keys
    BY <2>1, NothingIs, StateElim
  <2>3. DOMAIN m.changed # {} /\ m.changed = Pick(next, s.keys)
    BY <1>2, <1>5, <1>6, <1>7, <2>2
  <2> HIDE DEF m
  <2> QED BY <1>1, <1>2, <1>4, <1>5, <1>7, <2>3 DEF Tells, m
<1>8. CASE ~(~deltasEnabled /\ s.star)
  <2>1. Differ(store, next, k)
    BY <1>8
  <2>2. Differ(s.prevState, next, k)
    BY <1>6, <2>1 DEF Differ
  <2>3. /\ k \in d.removed <=> k \in DOMAIN s.prevState /\ k \notin DOMAIN next
        /\ k \in DOMAIN d.changed <=> k \in DOMAIN next /\ Differ(s.prevState, next, k)
        /\ k \in DOMAIN d.changed => d.changed[k] = next[k]
    BY <1>6, DeltaOfKey
  <2>4. CASE k \in DOMAIN next
    <3>1. k \notin m.removed
      BY <1>2, <1>8, <2>3, <2>4
    <3>2. k \in DOMAIN m.changed /\ m.changed[k] = next[k]
      <4>1. CASE deltasEnabled
        BY <1>2, <2>2, <2>3, <2>4, <4>1
      <4>2. CASE ~deltasEnabled
        BY <1>2, <1>5, <2>4, <4>2 DEF Pick
      <4> QED BY <4>1, <4>2
    <3>3. ~Differ(m.changed, next, k)
      BY <2>4, <3>2 DEF Differ
    <3> HIDE DEF m
    <3> QED BY <1>1, <1>2, <1>4, <1>8, <3>1, <3>2, <3>3 DEF Tells, m
  <2>5. CASE k \notin DOMAIN next
    <3>1. k \in DOMAIN s.prevState
      BY <2>2, <2>5 DEF Differ
    <3>2. k \in m.removed
      BY <1>2, <1>8, <2>3, <2>5, <3>1
    <3> HIDE DEF m
    <3> QED BY <1>1, <1>2, <1>4, <1>8, <2>5, <3>2 DEF Tells, m
  <2> QED BY <2>4, <2>5
<1> QED BY <1>7, <1>8

-----------------------------------------------------------------------------
(* The invariant *)

TypeInv ==
    /\ deltasEnabled \in BOOLEAN /\ notified \in BOOLEAN
    /\ store \in States /\ changes \in 1..MaxChanges
    /\ subs \in Seq(Subscription) /\ hasManager \in BOOLEAN /\ seq \in Nat
    /\ subscribes \in Nat /\ shrunk \in SUBSET Keys /\ unsent \in SUBSET Keys
    /\ loading \in BOOLEAN /\ reloads \in Nat
    /\ queued \in Seq(SentMessages) /\ channel \in Seq(SentMessages)
    /\ requests \in Seq(Nat) /\ listening \in BOOLEAN
    /\ cachedState \in States \cup {Null} /\ expectedSeq \in Nat /\ skipped \in BOOLEAN

(* A change of a key gives it a value it never had. *)
ValuesInv == \A k \in DOMAIN store : store[k] <= changes

SubsInv ==
    /\ \A i \in DOMAIN subs :
          SubInv(subs[i], store, shrunk) /\ (subs[i].star => Len(subs) = 1)
    /\ subs # <<>> => hasManager /\ seq > 0

(* Before the first subscription nothing is sent. *)
FirstInv ==
    subscribes = 0 =>
        /\ subs = <<>> /\ queued = <<>> /\ channel = <<>> /\ requests = <<>>
        /\ expectedSeq = 0

WindowInv ==
    /\ loading => /\ channel = <<>> /\ requests = <<>>
                  /\ expectedSeq = 0 /\ cachedState = Null
    /\ queued # <<>> => loading
    /\ expectedSeq # 0 => listening
    /\ expectedSeq = 0 /\ cachedState # Null => skipped

(* What is sent to the window and has not reached it. *)
Pipe == IF loading THEN queued ELSE channel

(* The keys for which the window's copy has to follow the store. *)
Claimed ==
    {k \in CurrentKeys \ (shrunk \cup unsent) :
        deltasEnabled \/ store # Nothing \/ ~HasStar}

BasesSettle == StartsSettle(Pipe, Claimed, store)

(* What the next update in order is applied to. *)
Held == IF cachedState = Null THEN Nothing ELSE cachedState

CopySettles ==
    expectedSeq > 0 /\ ~skipped /\ requests = <<>> =>
        \A k \in Claimed : Settled(Pipe, 0, Held, store, k)

ShapeInv == TypeInv /\ ValuesInv /\ SubsInv /\ FirstInv /\ WindowInv

SyncInv == ShapeInv /\ BasesSettle /\ CopySettles

LEMMA KeysOfSubs ==
    /\ CurrentKeys = UNION {subs[i].keys : i \in DOMAIN subs}
    /\ HasStar <=> \E i \in DOMAIN subs : subs[i].star
BY DEF CurrentKeys, HasStar, ToSet

LEMMA KeysOfSubsNext ==
    /\ CurrentKeys' = UNION {subs'[i].keys : i \in DOMAIN subs'}
    /\ HasStar' <=> \E i \in DOMAIN subs' : subs'[i].star
BY DEF CurrentKeys, HasStar, ToSet

LEMMA KeysAreKeys ==
    ASSUME TypeInv
    PROVE  CurrentKeys \in SUBSET Keys /\ \A i \in DOMAIN subs : subs[i] \in Subscription
<1>1. \A i \in DOMAIN subs : subs[i] \in Subscription
  BY DEF TypeInv
<1> QED BY <1>1, KeysOfSubs DEF Subscription

LEMMA InitInv ==
    ASSUME Init
    PROVE  SyncInv
<1>1. PICK ks \in Initial : store = [k \in ks |-> 1]
  BY DEF Init
<1>2. ks \in SUBSET Keys /\ 1 \in 1..MaxChanges
  BY SyncAssumption
<1>3. store \in States
  BY <1>1, <1>2, StateIntro
<1>4. TypeInv
  <2>1. <<>> \in Seq(Subscription) /\ <<>> \in Seq(SentMessages) /\ <<>> \in Seq(Nat)
    BY EmptySeq
  <2> QED BY <1>2, <1>3, <2>1 DEF Init, TypeInv
<1>5. ValuesInv
  BY <1>1 DEF Init, ValuesInv
<1>6. SubsInv /\ FirstInv /\ WindowInv
  BY DEF Init, SubsInv, FirstInv, WindowInv
<1>7. BasesSettle
  BY DEF Init, BasesSettle, StartsSettle, Pipe
<1>8. CopySettles
  BY DEF Init, CopySettles
<1> QED BY <1>4, <1>5, <1>6, <1>7, <1>8 DEF SyncInv, ShapeInv

(* What the window is sent, and where it goes. *)
LEMMA SentTo ==
    ASSUME TypeInv, WindowInv, NEW msgs \in Seq(SentMessages), SendToWindow(msgs),
           UNCHANGED loading
    PROVE  /\ queued' \in Seq(SentMessages) /\ channel' \in Seq(SentMessages)
           /\ queued' # <<>> => loading
           /\ loading => channel' = channel
           /\ Pipe' = IF loading THEN NewestOf(Pipe \o msgs) ELSE Pipe \o msgs
<1>1. /\ queued \in Seq(SentMessages) /\ channel \in Seq(SentMessages)
      /\ loading \in BOOLEAN /\ (queued # <<>> => loading)
  BY DEF TypeInv, WindowInv
<1>2. NewestOf(queued \o msgs) \in Seq(SentMessages)
  BY <1>1, ConcatProperties, StartsNewest
<1>3. channel \o msgs \in Seq(SentMessages)
  BY <1>1, ConcatProperties
<1>4. CASE loading
  BY <1>1, <1>2, <1>4 DEF SendToWindow, Pipe
<1>5. CASE ~loading
  BY <1>1, <1>3, <1>5 DEF SendToWindow, Pipe
<1> QED BY <1>4, <1>5

LEMMA SentSettles ==
    ASSUME SyncInv, NEW msgs \in Seq(SentMessages), SendToWindow(msgs),
           UNCHANGED <<loading, preload>>,
           StartsSettle(msgs, Claimed', store'),
           \A k \in Claimed' : \A i \in DOMAIN msgs : Fine(msgs[i], store', k),
           \A k \in Claimed' : \/ subscribes = 0
                               \/ k \in Claimed /\ ~Differ(store, store', k)
                               \/ \E n \in DOMAIN msgs : Tells(msgs[n], store', k)
    PROVE  BasesSettle' /\ CopySettles'
<1>1. TypeInv /\ FirstInv /\ WindowInv /\ BasesSettle /\ CopySettles
  BY DEF SyncInv, ShapeInv
<1>2. /\ Pipe \in Seq(SentMessages)
      /\ Pipe' = IF loading THEN NewestOf(Pipe \o msgs) ELSE Pipe \o msgs
  BY <1>1, SentTo DEF TypeInv, Pipe
<1>3. subscribes = 0 => Pipe = <<>> /\ expectedSeq = 0
  BY <1>1 DEF FirstInv, Pipe
<1>4. StartsSettle(Pipe, Claimed, store)
  BY <1>1 DEF BasesSettle
<1>5. StartsSettle(Pipe \o msgs, Claimed', store')
  BY <1>2, <1>3, <1>4, StartsAppend
<1>6. Pipe \o msgs \in Seq(SentMessages)
  BY <1>2, ConcatProperties
<1>7. BasesSettle'
  <2>1. StartsSettle(NewestOf(Pipe \o msgs), Claimed', store')
    BY <1>5, <1>6, StartsNewest
  <2> QED BY <1>2, <1>5, <2>1 DEF BasesSettle
<1>8. CopySettles'
  <2>1. SUFFICES ASSUME expectedSeq > 0, ~skipped, requests = <<>>,
                        NEW k \in Claimed'
                 PROVE  Settled(Pipe', 0, Held, store', k)
    BY DEF CopySettles, Held, preload
  <2>2. ~loading /\ subscribes # 0
    BY <1>1, <1>3, <2>1 DEF WindowInv
  <2>3. Pipe' = Pipe \o msgs
    BY <1>2, <2>2
  <2>4. CASE k \in Claimed /\ ~Differ(store, store', k)
    <3>1. Settled(Pipe, 0, Held, store, k)
      BY <1>1, <2>1, <2>4 DEF CopySettles
    <3>2. Settled(Pipe, 0, Held, store', k)
      BY <2>4, <3>1, SettledSame
    <3> QED BY <1>2, <2>3, <3>2, SettledAppend
  <2>5. CASE \E n \in DOMAIN msgs : Tells(msgs[n], store', k)
    <3>1. 0 \in 0..Len(Pipe)
      BY <1>2
    <3> QED BY <1>2, <2>3, <2>5, <3>1, SettledTold
  <2> QED BY <2>2, <2>4, <2>5
<1> QED BY <1>7, <1>8

(* Nothing is sent, and no key is claimed that was not. *)
LEMMA FewerSettle ==
    ASSUME SyncInv, Claimed' \subseteq Claimed, UNCHANGED <<store, transport, preload>>
    PROVE  BasesSettle' /\ CopySettles'
<1>1. BasesSettle /\ CopySettles /\ Pipe' = Pipe
  BY DEF SyncInv, Pipe, transport
<1>2. BasesSettle'
  BY <1>1 DEF BasesSettle, StartsSettle
<1>3. CopySettles'
  BY <1>1 DEF CopySettles, Held, preload
<1> QED BY <1>2, <1>3

(* The updates of a new state: one of every subscription that has something to
   send. *)
LEMMA UpdatesAre ==
    ASSUME TypeInv, NEW next \in States
    PROVE  LET u == Updates(next)
           IN  /\ u \in Seq(SentMessages) /\ Len(u) \in Nat
               /\ \A i \in DOMAIN u :
                     /\ i \in Nat \ {0}
                     /\ \E p \in DOMAIN subs :
                           Sends(subs[p], next) /\ u[i] = Message(subs[p], seq + i, next)
               /\ \A p \in DOMAIN subs : Sends(subs[p], next) =>
                     \E i \in DOMAIN u :
                         i \in Nat \ {0} /\ u[i] = Message(subs[p], seq + i, next)
<1> DEFINE I == {i \in DOMAIN subs : Sends(subs[i], next)}
           sel == Selected(subs, I)
           u == Updates(next)
<1>1. /\ subs \in Seq(Subscription) /\ seq \in Nat /\ deltasEnabled \in BOOLEAN
  BY DEF TypeInv
<1>2. I \in SUBSET DOMAIN subs
  OBVIOUS
<1>3. /\ sel \in Seq(Subscription) /\ DOMAIN sel = 1..Len(sel) /\ Len(sel) \in Nat
      /\ \A n \in DOMAIN sel : \E i \in I : sel[n] = subs[i]
      /\ \A i \in I : \E n \in DOMAIN sel : sel[n] = subs[i]
  BY <1>1, <1>2, SelectedSeq, LenProperties
<1>4. /\ DOMAIN u = DOMAIN sel
      /\ u = [i \in DOMAIN sel |-> u[i]]
      /\ \A i \in DOMAIN sel : u[i] = Message(sel[i], seq + i, next)
  BY DEF Updates, Message
<1> HIDE DEF sel, u
<1>5. \A i \in DOMAIN sel : sel[i] \in Subscription /\ i \in Nat \ {0} /\ seq + i \in Nat \ {0}
  BY <1>1, <1>3
<1>6. \A i \in DOMAIN sel : u[i] \in SentMessages
  BY <1>1, <1>4, <1>5, MessageIs
<1>7. u \in [1..Len(sel) -> SentMessages]
  BY <1>3, <1>4, <1>6
<1>8. u \in Seq(SentMessages) /\ Len(u) \in Nat
  BY <1>3, <1>7
<1>9. \A i \in DOMAIN u :
         \E p \in DOMAIN subs :
            Sends(subs[p], next) /\ u[i] = Message(subs[p], seq + i, next)
  BY <1>3, <1>4
<1>10. \A p \in DOMAIN subs : Sends(subs[p], next) =>
          \E i \in DOMAIN u : u[i] = Message(subs[p], seq + i, next)
  BY <1>3, <1>4
<1> QED BY <1>4, <1>5, <1>8, <1>9, <1>10 DEF u

-----------------------------------------------------------------------------
(* The store changes *)

LEMMA SendNothing ==
    ASSUME queued = <<>>, channel = <<>>, SendToWindow(<<>>)
    PROVE  queued' = <<>> /\ channel' = <<>>
<1>1. <<>> \in Seq(SentMessages) /\ <<>> \o <<>> = <<>>
  BY EmptySeq, ConcatEmptySeq
<1>2. NewestOf(<<>>) \in Seq(SentMessages) /\ DOMAIN NewestOf(<<>>) = {}
  <2>1. DOMAIN <<>> = {}
    OBVIOUS
  <2>2. /\ NewestOf(<<>>) \in Seq(SentMessages)
        /\ \A i \in DOMAIN NewestOf(<<>>) : \E n \in DOMAIN <<>> :
              NewestOf(<<>>)[i] = <<>>[n]
    BY <1>1, StartsNewest
  <2> QED BY <2>1, <2>2
<1>3. NewestOf(<<>>) = <<>>
  BY <1>2, EmptySeq, LenProperties
<1> QED BY <1>1, <1>3 DEF SendToWindow

LEMMA RebasedIs ==
    ASSUME TypeInv, NEW s \in Subscription, SubInv(s, store, shrunk), NEW next \in States
    PROVE  /\ Rebased(s, next) \in Subscription
           /\ Rebased(s, next).star = s.star /\ Rebased(s, next).keys = s.keys
           /\ SubInv(Rebased(s, next), next, shrunk)
<1> DEFINE r == [s EXCEPT !.prevState = Pick(next, s.keys)]
<1>1. /\ Pick(next, s.keys) \in States
      /\ DOMAIN Pick(next, s.keys) = s.keys \cap DOMAIN next
      /\ \A k \in s.keys : ~Differ(Pick(next, s.keys), next, k)
  BY PickState
<1>2. /\ r \in Subscription /\ r.star = s.star /\ r.keys = s.keys
      /\ r.callbackKeys = s.callbackKeys /\ r.prevState = Pick(next, s.keys)
  BY <1>1 DEF Subscription
<1> HIDE DEF r
<1>3. CASE Relevant(s, next)
  <2>1. Rebased(s, next) = r
    BY <1>3 DEF Rebased, r
  <2> QED BY <1>1, <1>2, <2>1 DEF SubInv
<1>4. CASE ~Relevant(s, next)
  <2>1. Rebased(s, next) = s
    BY <1>4 DEF Rebased
  <2>2. \A k \in s.keys : ~Differ(store, next, k)
    BY <1>4 DEF Relevant
  <2>3. \A k \in s.keys : ~Differ(s.prevState, next, k)
    BY <2>2, SameTwice DEF SubInv
  <2> QED BY <2>1, <2>3 DEF SubInv
<1> QED BY <1>3, <1>4

LEMMA StoreChangesInv ==
    ASSUME SyncInv, StoreChanges
    PROVE  SyncInv'
<1>1. /\ TypeInv /\ ValuesInv /\ SubsInv /\ FirstInv /\ WindowInv
  BY DEF SyncInv, ShapeInv
<1>2. PICK set \in SUBSET Keys, removed \in SUBSET DOMAIN store :
         /\ set \cap removed = {}
         /\ LET next == [k \in (DOMAIN store \cup set) \ removed |->
                           IF k \in set THEN changes + 1 ELSE store[k]]
                msgs == Updates(next)
            IN  /\ store' = next
                /\ SendToWindow(msgs)
                /\ seq' = seq + Len(msgs)
                /\ subs' = [i \in DOMAIN subs |-> Rebased(subs[i], next)]
                /\ unsent' = unsent \ set
  BY DEF StoreChanges
<1> DEFINE next == [k \in (DOMAIN store \cup set) \ removed |->
                      IF k \in set THEN changes + 1 ELSE store[k]]
           msgs == Updates(next)
<1>3. /\ store' = next /\ SendToWindow(msgs) /\ seq' = seq + Len(msgs)
      /\ subs' = [i \in DOMAIN subs |-> Rebased(subs[i], next)]
      /\ unsent' = unsent \ set
  BY <1>2
<1>4. /\ changes < MaxChanges /\ notified' = TRUE /\ changes' = changes + 1
      /\ UNCHANGED <<deltasEnabled, hasManager, subscribes, shrunk, loading, reloads, preload>>
  BY DEF StoreChanges
<1>5. /\ DOMAIN store \in SUBSET Keys /\ store \in [DOMAIN store -> 1..MaxChanges]
      /\ changes \in 1..MaxChanges /\ MaxChanges \in Nat
  BY <1>1, StateElim, SyncAssumption DEF TypeInv
<1>6. /\ DOMAIN next = (DOMAIN store \cup set) \ removed
      /\ \A k \in DOMAIN next : next[k] = IF k \in set THEN changes + 1 ELSE store[k]
  OBVIOUS
<1>7. next \in States
  <2>1. \A k \in DOMAIN next : next[k] \in 1..MaxChanges
    BY <1>4, <1>5, <1>6
  <2>2. DOMAIN next \in SUBSET Keys /\ next \in [DOMAIN next -> 1..MaxChanges]
    BY <1>5, <2>1
  <2> QED BY <2>2, StateIntro
<1>8. \A k \in set : Differ(store, next, k)
  <2>1. TAKE k \in set
  <2>2. k \in DOMAIN next /\ next[k] = changes + 1
    BY <1>2, <1>6
  <2>3. k \in DOMAIN store => store[k] # changes + 1
    BY <1>1, <1>5 DEF ValuesInv
  <2> QED BY <2>2, <2>3 DEF Differ
<1>9. ValuesInv'
  <2>1. \A k \in DOMAIN next : next[k] <= changes + 1
    BY <1>1, <1>5, <1>6 DEF ValuesInv
  <2> QED BY <1>3, <1>4, <2>1 DEF ValuesInv
<1> HIDE DEF next, msgs
<1>10. /\ msgs \in Seq(SentMessages) /\ Len(msgs) \in Nat
       /\ \A i \in DOMAIN msgs :
             /\ i \in Nat \ {0}
             /\ \E p \in DOMAIN subs :
                   Sends(subs[p], next) /\ msgs[i] = Message(subs[p], seq + i, next)
       /\ \A p \in DOMAIN subs : Sends(subs[p], next) =>
             \E i \in DOMAIN msgs :
                 i \in Nat \ {0} /\ msgs[i] = Message(subs[p], seq + i, next)
  BY <1>1, <1>7, UpdatesAre DEF msgs
<1>11. /\ subs \in Seq(Subscription) /\ DOMAIN subs = 1..Len(subs)
       /\ seq \in Nat /\ deltasEnabled \in BOOLEAN
       /\ \A i \in DOMAIN subs : subs[i] \in Subscription
  BY <1>1, LenProperties DEF TypeInv
<1>12. /\ DOMAIN subs' = DOMAIN subs
       /\ \A i \in DOMAIN subs :
             /\ subs'[i] \in Subscription
             /\ subs'[i].star = subs[i].star /\ subs'[i].keys = subs[i].keys
             /\ SubInv(subs'[i], next, shrunk)
  BY <1>1, <1>3, <1>7, <1>11, RebasedIs DEF SubsInv
<1>13. subs' \in Seq(Subscription) /\ Len(subs') = Len(subs)
  <2>1. Len(subs) \in Nat /\ subs' \in [1..Len(subs) -> Subscription]
    BY <1>3, <1>11, <1>12
  <2> QED BY <2>1
<1>14. CurrentKeys' = CurrentKeys /\ HasStar' = HasStar
  BY <1>12, KeysOfSubs, KeysOfSubsNext DEF HasStar
<1>15. /\ queued' \in Seq(SentMessages) /\ channel' \in Seq(SentMessages)
       /\ queued' # <<>> => loading
       /\ loading => channel' = channel
  BY <1>1, <1>3, <1>4, <1>10, SentTo
<1>16. TypeInv'
  <2>1. seq' \in Nat /\ changes' \in 1..MaxChanges /\ unsent' \in SUBSET Keys
    BY <1>1, <1>3, <1>4, <1>5, <1>10 DEF TypeInv
  <2> QED BY <1>1, <1>3, <1>4, <1>7, <1>13, <1>15, <2>1 DEF TypeInv, preload
<1>17. SubsInv'
  <2>1. \A i \in DOMAIN subs' : SubInv(subs'[i], store', shrunk')
    BY <1>3, <1>4, <1>12
  <2>2. \A i \in DOMAIN subs' : subs'[i].star => Len(subs') = 1
    BY <1>1, <1>12, <1>13 DEF SubsInv
  <2>3. subs' # <<>> => hasManager' /\ seq' > 0
    <3>1. subs' # <<>> => subs # <<>>
      BY <1>11, <1>13
    <3> QED BY <1>1, <1>3, <1>4, <1>10, <1>11, <3>1 DEF SubsInv
  <2> QED BY <2>1, <2>2, <2>3 DEF SubsInv
<1>18. FirstInv'
  <2>1. SUFFICES ASSUME subscribes = 0
                 PROVE  /\ subs' = <<>> /\ queued' = <<>> /\ channel' = <<>>
                        /\ requests' = <<>> /\ expectedSeq' = 0
    BY <1>4 DEF FirstInv
  <2>2. /\ subs = <<>> /\ queued = <<>> /\ channel = <<>>
        /\ requests = <<>> /\ expectedSeq = 0
    BY <1>1, <2>1 DEF FirstInv
  <2>3. msgs = <<>>
    <3>1. DOMAIN subs = {}
      BY <2>2
    <3>2. DOMAIN msgs = {}
      BY <1>10, <3>1
    <3> QED BY <1>10, <3>2, EmptySeq, LenProperties
  <2>4. queued' = <<>> /\ channel' = <<>>
    BY <1>3, <2>2, <2>3, SendNothing
  <2>5. subs' = <<>>
    BY <1>13, <2>2
  <2> QED BY <1>4, <2>2, <2>4, <2>5 DEF preload
<1>19. WindowInv'
  BY <1>1, <1>4, <1>15 DEF WindowInv, preload
<1>20. StartsSettle(msgs, Claimed', store')
  <2>1. \A i \in DOMAIN msgs : ~Base(msgs[i])
    <3>1. TAKE i \in DOMAIN msgs
    <3>2. PICK p \in DOMAIN subs : msgs[i] = Message(subs[p], seq + i, next)
      BY <1>10
    <3>3. i \in Nat \ {0} /\ seq > 0 /\ seq + i \in Nat \ {0} /\ seq + i # 1
      <4>1. subs # <<>>
        BY <1>11, <3>2
      <4>2. seq > 0 /\ seq \in Nat
        BY <1>1, <1>11, <4>1 DEF SubsInv
      <4>3. i \in Nat \ {0}
        BY <1>10
      <4> QED BY <4>2, <4>3
    <3>4. msgs[i].type = "update" /\ msgs[i].seq = seq + i
      BY <1>7, <1>11, <3>2, <3>3, MessageIs
    <3> QED BY <3>3, <3>4 DEF Base
  <2> QED BY <2>1 DEF StartsSettle
<1>21. ASSUME NEW k \in Claimed' PROVE k \in Keys \ shrunk /\ k \in CurrentKeys
  <2>1. k \in CurrentKeys /\ k \notin shrunk
    BY <1>4, <1>14, <1>21 DEF Claimed
  <2> QED BY <1>1, <2>1, KeysAreKeys
<1>22. \A k \in Claimed' : \A i \in DOMAIN msgs : Fine(msgs[i], store', k)
  <2>1. TAKE k \in Claimed'
  <2>2. TAKE i \in DOMAIN msgs
  <2>3. PICK p \in DOMAIN subs :
           Sends(subs[p], next) /\ msgs[i] = Message(subs[p], seq + i, next)
    BY <1>10
  <2>4. seq + i \in Nat \ {0} /\ SubInv(subs[p], store, shrunk)
    <3>1. i \in Nat \ {0}
      BY <1>10
    <3>2. seq + i \in Nat \ {0}
      BY <1>11, <3>1
    <3> QED BY <1>1, <3>2 DEF SubsInv
  <2> QED BY <1>3, <1>7, <1>11, <1>21, <2>3, <2>4, ContentIsFine
<1>23. \A k \in Claimed' : \/ subscribes = 0
                           \/ k \in Claimed /\ ~Differ(store, store', k)
                           \/ \E n \in DOMAIN msgs : Tells(msgs[n], store', k)
  <2>1. TAKE k \in Claimed'
  <2>2. PICK p \in DOMAIN subs : k \in subs[p].keys
    BY <1>21, KeysOfSubs
  <2>3. SubInv(subs[p], store, shrunk) /\ subs[p] \in Subscription
    BY <1>1, <1>11 DEF SubsInv
  <2>4. /\ k \in CurrentKeys \ shrunk /\ k \notin unsent'
        /\ deltasEnabled \/ next # Nothing \/ ~HasStar
    BY <1>3, <1>4, <1>14 DEF Claimed
  <2>5. ASSUME \/ Differ(store, next, k) /\ (deltasEnabled \/ ~subs[p].star \/ next # Nothing)
               \/ ~deltasEnabled /\ subs[p].star /\ next # Nothing
        PROVE  \E n \in DOMAIN msgs : Tells(msgs[n], store', k)
    <3>1. \A n \in Nat \ {0} :
             Sends(subs[p], next) /\ Tells(Message(subs[p], n, next), next, k)
      BY <1>7, <1>11, <2>2, <2>3, <2>5, ContentTells
    <3>2. Sends(subs[p], next)
      BY <3>1
    <3>3. PICK i \in DOMAIN msgs :
             i \in Nat \ {0} /\ msgs[i] = Message(subs[p], seq + i, next)
      BY <1>10, <3>2
    <3>4. seq + i \in Nat \ {0}
      BY <1>11, <3>3
    <3> QED BY <1>3, <3>1, <3>3, <3>4
  <2>6. CASE Differ(store, next, k)
    <3>1. subs[p].star => HasStar
      BY KeysOfSubs
    <3> QED BY <2>4, <2>5, <2>6, <3>1
  <2>7. CASE ~Differ(store, next, k) /\ k \in Claimed
    BY <1>3, <2>7
  <2>8. CASE ~Differ(store, next, k) /\ k \notin Claimed
    <3>1. k \notin unsent
      BY <1>3, <1>8, <2>4, <2>8
    <3>2. ~deltasEnabled /\ store = Nothing /\ HasStar
      BY <2>4, <2>8, <3>1 DEF Claimed
    <3>3. subs[p].star
      <4>1. PICK q \in DOMAIN subs : subs[q].star
        BY <3>2, KeysOfSubs
      <4>2. Len(subs) = 1
        BY <1>1, <4>1 DEF SubsInv
      <4>3. p = q
        BY <1>11, <4>2
      <4> QED BY <4>1, <4>3
    <3>4. next # Nothing
      BY <2>4, <3>2
    <3> QED BY <2>5, <3>2, <3>3, <3>4
  <2> QED BY <2>6, <2>7, <2>8
<1>24. BasesSettle' /\ CopySettles'
  BY <1>3, <1>4, <1>10, <1>20, <1>22, <1>23, SentSettles
<1> QED BY <1>9, <1>16, <1>17, <1>18, <1>19, <1>24 DEF SyncInv, ShapeInv

-----------------------------------------------------------------------------
(* Subscriptions come and go *)

LEMMA SubscribeInv ==
    ASSUME SyncInv, NEW star \in BOOLEAN, NEW keys \in SUBSET Keys,
           star => keys = Keys, Subscribe(star, keys)
    PROVE  SyncInv'
<1>1. /\ TypeInv /\ ValuesInv /\ SubsInv /\ FirstInv /\ WindowInv
  BY DEF SyncInv, ShapeInv
<1>2. /\ subscribes' = subscribes + 1 /\ hasManager' = TRUE
      /\ UNCHANGED <<bridge, shrunk, loading, reloads, preload>>
  BY DEF Subscribe
<1>3. ValuesInv' /\ FirstInv'
  BY <1>1, <1>2 DEF ValuesInv, FirstInv, bridge, TypeInv
<1>4. CASE keys = {} \/ (HasStar /\ ~star)
  <2>1. UNCHANGED <<subs, seq, channel, queued, unsent>>
    BY <1>4 DEF Subscribe
  <2>2. TypeInv' /\ SubsInv' /\ WindowInv'
    BY <1>1, <1>2, <2>1 DEF TypeInv, SubsInv, WindowInv, bridge, preload
  <2>3. Claimed' = Claimed
    BY <1>2, <2>1 DEF Claimed, CurrentKeys, HasStar, bridge
  <2>4. BasesSettle' /\ CopySettles'
    BY <1>2, <2>1, <2>3, FewerSettle DEF bridge, transport
  <2> QED BY <1>3, <2>2, <2>4 DEF SyncInv, ShapeInv
<1>5. CASE ~(keys = {} \/ (HasStar /\ ~star))
  <2> DEFINE state == Pick(store, keys)
             new == [star |-> star, keys |-> keys, callbackKeys |-> keys,
                     prevState |-> state]
             old == IF star THEN <<>> ELSE subs
             m == Update(seq + 1, state = Nothing, state, {})
  <2>1. /\ unsent' = IF subscribes = 0 THEN {}
                     ELSE unsent \cup (keys \ (DOMAIN store \cup CurrentKeys))
        /\ subs' = Append(old, new) /\ seq' = seq + 1 /\ SendToWindow(<<m>>)
    BY <1>5 DEF Subscribe
  <2>2. /\ store \in States /\ subs \in Seq(Subscription) /\ DOMAIN subs = 1..Len(subs)
        /\ seq \in Nat /\ Len(subs) \in Nat
    BY <1>1, LenProperties DEF TypeInv
  <2>3. /\ state \in States /\ DOMAIN state = keys \cap DOMAIN store
        /\ \A k \in keys : ~Differ(state, store, k)
    BY <2>2, PickState
  <2>4. /\ m.type = "update" /\ m.seq = seq + 1 /\ m.full = (state = Nothing)
        /\ m.changed = state /\ m.removed = {}
    BY DEF Update
  <2>5. m \in SentMessages
    BY <2>2, <2>3 DEF Update, SentMessages, Messages
  <2>6. /\ new \in Subscription /\ new.star = star /\ new.keys = keys
        /\ new.callbackKeys = keys /\ new.prevState = state
    BY <2>3 DEF Subscription
  <2>7. \A k \in DOMAIN state : ~Differ(state, store, k) /\ state # Nothing
    BY <2>3, NothingIs
  <2> HIDE DEF state, new, m
  <2>8. SubInv(new, store, shrunk)
    BY <1>5, <2>3, <2>6 DEF SubInv
  <2>9. /\ old \in Seq(Subscription) /\ DOMAIN old = 1..Len(old) /\ Len(old) \in Nat
        /\ \A i \in DOMAIN old : i \in DOMAIN subs /\ old[i] = subs[i] /\ ~star
    <3>1. CASE star
      BY <3>1, EmptySeq
    <3>2. CASE ~star
      BY <2>2, <3>2
    <3> QED BY <3>1, <3>2
  <2>10. /\ subs' \in Seq(Subscription) /\ Len(subs') = Len(old) + 1
         /\ DOMAIN subs' = 1..(Len(old) + 1)
         /\ \A i \in DOMAIN old : i \in DOMAIN subs' /\ subs'[i] = old[i]
         /\ Len(old) + 1 \in DOMAIN subs' /\ subs'[Len(old) + 1] = new
         /\ \A i \in DOMAIN subs' : i \in DOMAIN old \/ i = Len(old) + 1
    <3> HIDE DEF old
    <3> QED BY <2>1, <2>6, <2>9
  <2>11. SubsInv'
    <3>1. \A i \in DOMAIN subs' : SubInv(subs'[i], store', shrunk')
      BY <1>1, <1>2, <2>8, <2>9, <2>10 DEF SubsInv, bridge
    <3>2. \A i \in DOMAIN subs' : subs'[i].star => Len(subs') = 1
      <4>1. TAKE i \in DOMAIN subs'
      <4>2. HAVE subs'[i].star
      <4>3. CASE i \in DOMAIN old
        <5>1. ~star /\ subs[i].star /\ i \in DOMAIN subs
          BY <2>9, <2>10, <4>2, <4>3
        <5> QED BY <1>5, <5>1, KeysOfSubs
      <4>4. CASE i = Len(old) + 1
        <5>1. star
          BY <2>6, <2>10, <4>2, <4>4
        <5> QED BY <2>10, <5>1
      <4> QED BY <2>10, <4>3, <4>4
    <3>3. hasManager' /\ seq' > 0
      BY <1>2, <2>1, <2>2
    <3> QED BY <3>1, <3>2, <3>3 DEF SubsInv
  <2>12. <<m>> \in Seq(SentMessages) /\ DOMAIN <<m>> = {1} /\ <<m>>[1] = m
    BY <2>5
  <2>13. /\ queued' \in Seq(SentMessages) /\ channel' \in Seq(SentMessages)
         /\ queued' # <<>> => loading
         /\ loading => channel' = channel
    BY <1>1, <1>2, <2>1, <2>12, SentTo
  <2>14. TypeInv'
    <3>1. unsent' \in SUBSET Keys /\ subscribes' \in Nat /\ seq' \in Nat
      BY <1>1, <1>2, <2>1 DEF TypeInv
    <3> QED BY <1>1, <1>2, <2>10, <2>13, <3>1 DEF TypeInv, bridge, preload
  <2>15. WindowInv'
    BY <1>1, <1>2, <2>13 DEF WindowInv, preload
  <2>16. \A k : Fine(m, store, k) /\ (k \in DOMAIN state => Tells(m, store, k))
    <3>1. TAKE k
    <3>2. CASE k \in DOMAIN state
      BY <2>4, <2>7, <3>2 DEF Fine, Tells
    <3>3. CASE k \notin DOMAIN state
      BY <2>4, <3>3, NothingIs DEF Fine, Silent
    <3> QED BY <3>2, <3>3
  <2>17. /\ CurrentKeys' = keys \cup UNION {old[i].keys : i \in DOMAIN old}
         /\ star => HasStar'
    <3>1. CurrentKeys' = UNION {subs'[i].keys : i \in DOMAIN subs'}
      BY KeysOfSubsNext
    <3>2. star => HasStar'
      BY <2>6, <2>10, KeysOfSubsNext
    <3> QED BY <2>6, <2>10, <3>1, <3>2
  <2>18. /\ keys \subseteq CurrentKeys'
         /\ CurrentKeys' \subseteq keys \cup (IF star THEN {} ELSE CurrentKeys)
    <3>1. star => DOMAIN old = {}
      BY <2>9
    <3>2. UNION {old[i].keys : i \in DOMAIN old} \subseteq CurrentKeys
      BY <2>9, KeysOfSubs
    <3> HIDE DEF old
    <3> QED BY <2>17, <3>1, <3>2
  <2>19. StartsSettle(<<m>>, Claimed', store')
    <3>1. ASSUME Base(m), NEW k \in Claimed'
          PROVE  ~Differ(BaseContent(m), store', k)
      <4>1. seq = 0
        BY <2>2, <2>4, <3>1 DEF Base
      <4>2. subs = <<>>
        BY <1>1, <4>1 DEF SubsInv
      <4>3. k \in keys
        <5>1. DOMAIN subs = {}
          BY <4>2
        <5>2. CurrentKeys = {}
          BY <5>1, KeysOfSubs
        <5> QED BY <2>18, <5>2 DEF Claimed
      <4>4. BaseContent(m) = Apply(m, Nothing) /\ store' = store
        BY <1>2, <2>4 DEF BaseContent, bridge
      <4>5. CASE k \in DOMAIN state
        BY <2>4, <2>16, <4>4, <4>5, ToldIsApplied
      <4>6. CASE k \notin DOMAIN state
        <5>1. ~Differ(Nothing, store, k)
          BY <2>3, <4>3, <4>6, NothingIs DEF Differ
        <5>2. Fine(m, store, k)
          BY <2>16
        <5> QED BY <2>4, <4>4, <5>1, <5>2, SilentKeeps, ToldIsApplied DEF Fine
      <4> QED BY <4>5, <4>6
    <3> QED BY <3>1, StartsOne
  <2>20. \A k \in Claimed' : \A i \in DOMAIN <<m>> : Fine(<<m>>[i], store', k)
    BY <1>2, <2>12, <2>16 DEF bridge
  <2>21. \A k \in Claimed' : \/ subscribes = 0
                             \/ k \in Claimed /\ ~Differ(store, store', k)
                             \/ \E n \in DOMAIN <<m>> : Tells(<<m>>[n], store', k)
    <3>1. SUFFICES ASSUME NEW k \in Claimed', subscribes # 0
                   PROVE  \/ k \in Claimed /\ ~Differ(store, store', k)
                          \/ \E n \in DOMAIN <<m>> : Tells(<<m>>[n], store', k)
      OBVIOUS
    <3>2. /\ k \in CurrentKeys' /\ k \notin shrunk /\ k \notin unsent
          /\ k \notin keys \ (DOMAIN store \cup CurrentKeys)
          /\ deltasEnabled \/ store # Nothing \/ ~HasStar'
      BY <1>2, <2>1, <3>1 DEF Claimed, bridge
    <3>3. CASE k \in CurrentKeys
      <4>1. deltasEnabled \/ store # Nothing \/ ~HasStar
        BY <1>5, <2>17, <3>2
      <4>2. ~Differ(store, store', k)
        BY <1>2 DEF Differ, bridge
      <4> QED BY <3>2, <3>3, <4>1, <4>2 DEF Claimed
    <3>4. CASE k \notin CurrentKeys
      <4>1. k \in DOMAIN state
        BY <2>3, <2>18, <3>2, <3>4
      <4>2. Tells(m, store', k)
        BY <1>2, <2>16, <4>1 DEF bridge
      <4> QED BY <2>12, <4>2
    <3> QED BY <3>3, <3>4
  <2>22. BasesSettle' /\ CopySettles'
    BY <1>2, <2>1, <2>12, <2>19, <2>20, <2>21, SentSettles
  <2> QED BY <1>3, <2>11, <2>14, <2>15, <2>22 DEF SyncInv, ShapeInv
<1> QED BY <1>4, <1>5

LEMMA Removed ==
    ASSUME NEW S, NEW s \in Seq(S), NEW i \in DOMAIN s
    PROVE  /\ RemoveAt(s, i) \in Seq(S) /\ Len(RemoveAt(s, i)) = Len(s) - 1
           /\ \A n \in DOMAIN RemoveAt(s, i) :
                 \E p \in DOMAIN s : RemoveAt(s, i)[n] = s[p]
<1> DEFINE a == SubSeq(s, 1, i - 1)
           b == SubSeq(s, i + 1, Len(s))
<1>1. /\ Len(s) \in Nat /\ DOMAIN s = 1..Len(s) /\ i \in 1..Len(s)
      /\ \A n \in 1..Len(s) : s[n] \in S
  BY LenProperties
<1>2. /\ a \in Seq(S) /\ Len(a) = i - 1
      /\ \A n \in 1..(i - 1) : a[n] = s[n]
  <2>1. /\ a \in Seq(S) /\ Len(a) = IF 1 <= i - 1 THEN i - 1 - 1 + 1 ELSE 0
        /\ \A n \in 1..(i - 1 - 1 + 1) : a[n] = s[1 + n - 1]
    <3>1. 1 \in Int /\ i - 1 \in Int /\ \A n \in 1..(i - 1) : s[n] \in S
      BY <1>1
    <3> QED BY <3>1, SubSeqProperties
  <2> HIDE DEF a
  <2>2. (IF 1 <= i - 1 THEN i - 1 - 1 + 1 ELSE 0) = i - 1
    BY <1>1
  <2>3. \A n \in 1..(i - 1) : n \in 1..(i - 1 - 1 + 1) /\ 1 + n - 1 = n
    BY <1>1
  <2> QED BY <2>1, <2>2, <2>3
<1>3. /\ b \in Seq(S) /\ Len(b) = Len(s) - i
      /\ \A n \in 1..(Len(s) - i) : b[n] = s[i + n]
  <2>1. /\ b \in Seq(S)
        /\ Len(b) = IF i + 1 <= Len(s) THEN Len(s) - (i + 1) + 1 ELSE 0
        /\ \A n \in 1..(Len(s) - (i + 1) + 1) : b[n] = s[i + 1 + n - 1]
    <3>1. i + 1 \in Int /\ Len(s) \in Int /\ \A n \in (i + 1)..Len(s) : s[n] \in S
      BY <1>1
    <3> QED BY <3>1, SubSeqProperties
  <2> HIDE DEF b
  <2>2. (IF i + 1 <= Len(s) THEN Len(s) - (i + 1) + 1 ELSE 0) = Len(s) - i
    <3>1. \A x \in Nat : \A y \in 1..x :
             /\ y + 1 <= x => x - (y + 1) + 1 = x - y
             /\ ~(y + 1 <= x) => x - y = 0
      OBVIOUS
    <3> QED BY <1>1, <3>1
  <2>3. \A n \in 1..(Len(s) - i) : n \in 1..(Len(s) - (i + 1) + 1) /\ i + 1 + n - 1 = i + n
    BY <1>1
  <2> QED BY <2>1, <2>2, <2>3
<1>4. RemoveAt(s, i) = a \o b
  BY DEF RemoveAt
<1> HIDE DEF a, b
<1> DEFINE r == RemoveAt(s, i)
<1>5. /\ r \in Seq(S) /\ Len(r) = Len(a) + Len(b)
      /\ \A n \in 1..(Len(a) + Len(b)) : r[n] = IF n <= Len(a) THEN a[n] ELSE b[n - Len(a)]
  BY <1>2, <1>3, <1>4, ConcatProperties
<1> HIDE DEF r
<1>6. Len(r) = Len(s) - 1
  BY <1>1, <1>2, <1>3, <1>5
<1>7. ASSUME NEW n \in DOMAIN r PROVE \E p \in DOMAIN s : r[n] = s[p]
  <2>1. n \in 1..(Len(s) - 1)
    BY <1>5, <1>6, LenProperties
  <2>2. CASE n <= i - 1
    <3>1. r[n] = s[n] /\ n \in DOMAIN s
      BY <1>1, <1>2, <1>3, <1>5, <2>1, <2>2
    <3> QED BY <3>1
  <2>3. CASE n > i - 1
    <3>1. n - (i - 1) \in 1..(Len(s) - i) /\ i + (n - (i - 1)) = n + 1
      BY <1>1, <2>1, <2>3
    <3>2. r[n] = b[n - (i - 1)]
      BY <1>1, <1>2, <1>3, <1>5, <2>1, <2>3
    <3>3. r[n] = s[n + 1] /\ n + 1 \in DOMAIN s
      BY <1>1, <1>3, <2>1, <3>1, <3>2
    <3> QED BY <3>3
  <2> QED BY <1>1, <2>1, <2>2, <2>3
<1> QED BY <1>5, <1>6, <1>7 DEF r

(* Some subscriptions go or lose keys. *)
LEMMA RemainingInv ==
    ASSUME SyncInv, NEW remaining \in Seq(Subscription), KeepSubscriptions(remaining),
           UNCHANGED <<subscribes, unsent, bridge, transport, preload>>,
           shrunk \subseteq shrunk', shrunk' \in SUBSET Keys, hasManager' \in BOOLEAN,
           remaining # <<>> => hasManager',
           \A n \in DOMAIN remaining :
              /\ SubInv(remaining[n], store, shrunk')
              /\ remaining[n].star => Len(remaining) = 1
              /\ remaining[n].keys \subseteq CurrentKeys,
           HasStar => HasStar' \/ remaining = <<>>
    PROVE  SyncInv'
<1>1. /\ TypeInv /\ ValuesInv /\ SubsInv /\ FirstInv /\ WindowInv
  BY DEF SyncInv, ShapeInv
<1>2. subs' = remaining /\ seq' = IF remaining = <<>> THEN 0 ELSE seq
  BY DEF KeepSubscriptions
<1>3. remaining # <<>> => subs # <<>>
  <2>1. HAVE remaining # <<>>
  <2>2. PICK n \in DOMAIN remaining : TRUE
    BY <2>1, EmptySeq, LenProperties
  <2>3. remaining[n].keys # {} /\ remaining[n].keys \subseteq CurrentKeys
    BY <2>2 DEF SubInv
  <2>4. DOMAIN subs # {}
    BY <2>3, KeysOfSubs
  <2> QED BY <2>4
<1>4. TypeInv'
  BY <1>1, <1>2 DEF TypeInv, bridge, transport, preload
<1>5. ValuesInv' /\ WindowInv'
  BY <1>1 DEF ValuesInv, WindowInv, bridge, transport, preload
<1>6. FirstInv'
  BY <1>1, <1>2, <1>3 DEF FirstInv, transport, preload
<1>7. SubsInv'
  BY <1>1, <1>2, <1>3 DEF SubsInv, bridge
<1>8. Claimed' \subseteq Claimed
  <2>1. ASSUME NEW k \in Claimed' PROVE k \in Claimed
    <3>1. /\ k \in CurrentKeys' /\ k \notin shrunk /\ k \notin unsent
          /\ deltasEnabled \/ store # Nothing \/ ~HasStar'
      BY <2>1 DEF Claimed, bridge
    <3>2. PICK n \in DOMAIN remaining : k \in remaining[n].keys
      BY <1>2, <3>1, KeysOfSubsNext
    <3>3. k \in CurrentKeys /\ remaining # <<>>
      BY <3>2
    <3> QED BY <3>1, <3>3 DEF Claimed
  <2> QED BY <2>1
<1>9. BasesSettle' /\ CopySettles'
  BY <1>8, FewerSettle DEF bridge
<1> QED BY <1>4, <1>5, <1>6, <1>7, <1>9 DEF SyncInv, ShapeInv

LEMMA CallHandleInv ==
    ASSUME SyncInv, NEW i \in DOMAIN subs, CallHandle(i)
    PROVE  SyncInv'
<1> DEFINE remaining == RemoveAt(subs, i)
<1>1. TypeInv /\ SubsInv
  BY DEF SyncInv, ShapeInv
<1>2. /\ KeepSubscriptions(remaining)
      /\ UNCHANGED <<hasManager, subscribes, shrunk, unsent>>
      /\ UNCHANGED <<bridge, transport, preload>>
  BY DEF CallHandle
<1>3. /\ subs \in Seq(Subscription) /\ Len(subs) \in Nat /\ DOMAIN subs = 1..Len(subs)
  BY <1>1, LenProperties DEF TypeInv
<1>4. /\ remaining \in Seq(Subscription) /\ Len(remaining) = Len(subs) - 1
      /\ \A n \in DOMAIN remaining : \E p \in DOMAIN subs : remaining[n] = subs[p]
  <2>1. ASSUME NEW s \in Seq(Subscription), NEW j \in DOMAIN s
        PROVE  /\ RemoveAt(s, j) \in Seq(Subscription)
               /\ Len(RemoveAt(s, j)) = Len(s) - 1
               /\ \A n \in DOMAIN RemoveAt(s, j) :
                     \E p \in DOMAIN s : RemoveAt(s, j)[n] = s[p]
    BY Removed
  <2> QED BY <1>3, <2>1
<1>5. DOMAIN remaining = 1..Len(remaining)
  BY <1>4, LenProperties
<1> HIDE DEF remaining
<1>6. \A n \in DOMAIN remaining :
         /\ SubInv(remaining[n], store, shrunk')
         /\ remaining[n].star => Len(remaining) = 1
         /\ remaining[n].keys \subseteq CurrentKeys
  <2>1. TAKE n \in DOMAIN remaining
  <2>2. PICK p \in DOMAIN subs : remaining[n] = subs[p]
    BY <1>4
  <2>3. SubInv(subs[p], store, shrunk) /\ (subs[p].star => Len(subs) = 1)
    BY <1>1 DEF SubsInv
  <2>4. Len(subs) # 1
    BY <1>3, <1>4, <1>5
  <2>5. subs[p].keys \subseteq CurrentKeys
    BY KeysOfSubs
  <2> QED BY <1>2, <2>2, <2>3, <2>4, <2>5
<1>7. HasStar => remaining = <<>>
  <2>1. HAVE HasStar
  <2>2. Len(subs) = 1
    BY <1>1, <2>1, KeysOfSubs DEF SubsInv
  <2> QED BY <1>4, <2>2, EmptySeq
<1>8. remaining # <<>> => hasManager'
  <2>1. subs # <<>>
    BY <1>3
  <2> QED BY <1>1, <1>2, <2>1 DEF SubsInv
<1>9. shrunk' \in SUBSET Keys /\ hasManager' \in BOOLEAN
  BY <1>1, <1>2 DEF TypeInv
<1> QED BY <1>2, <1>4, <1>6, <1>7, <1>8, <1>9, RemainingInv

LEMMA UnsubscribeKeysInv ==
    ASSUME SyncInv, NEW keys \in SUBSET Keys, UnsubscribeKeys(keys)
    PROVE  SyncInv'
<1> DEFINE Shrunk(s) == IF s.star THEN s ELSE [s EXCEPT !.keys = @ \ keys]
           all == [i \in DOMAIN subs |-> Shrunk(subs[i])]
           I == {i \in DOMAIN subs : all[i].keys # {}}
           remaining == Selected(all, I)
<1>1. TypeInv /\ SubsInv
  BY DEF SyncInv, ShapeInv
<1>2. /\ hasManager /\ KeepSubscriptions(remaining) /\ hasManager' = (remaining # <<>>)
      /\ shrunk' = shrunk \cup UNION {s.callbackKeys \ s.keys : s \in ToSet(remaining)}
      /\ UNCHANGED <<subscribes, unsent>> /\ UNCHANGED <<bridge, transport, preload>>
  BY DEF UnsubscribeKeys
<1>3. /\ subs \in Seq(Subscription) /\ Len(subs) \in Nat /\ DOMAIN subs = 1..Len(subs)
      /\ \A i \in DOMAIN subs : subs[i] \in Subscription
  BY <1>1, LenProperties DEF TypeInv
<1>4. ASSUME NEW i \in DOMAIN subs
      PROVE  /\ all[i] \in Subscription
             /\ all[i].star = subs[i].star /\ all[i].callbackKeys = subs[i].callbackKeys
             /\ all[i].prevState = subs[i].prevState
             /\ all[i].keys = IF subs[i].star THEN subs[i].keys ELSE subs[i].keys \ keys
  BY <1>3 DEF Subscription
<1>5. DOMAIN all = DOMAIN subs /\ all = [i \in DOMAIN subs |-> all[i]]
  OBVIOUS
<1> HIDE DEF all
<1>6. all \in Seq(Subscription) /\ Len(all) = Len(subs)
  <2>1. all \in [1..Len(subs) -> Subscription]
    BY <1>3, <1>4, <1>5
  <2> QED BY <1>3, <2>1
<1>7. I \in SUBSET DOMAIN all
  BY <1>5
<1>i. I = {i \in DOMAIN subs : all[i].keys # {}}
  OBVIOUS
<1> HIDE DEF I
<1>8. /\ remaining \in Seq(Subscription) /\ Len(remaining) <= Len(subs)
      /\ DOMAIN remaining = 1..Len(remaining)
      /\ \A n \in DOMAIN remaining : \E i \in I : remaining[n] = all[i]
      /\ \A i \in I : \E n \in DOMAIN remaining : remaining[n] = all[i]
  BY <1>6, <1>7, SelectedSeq
<1>9. \A n \in DOMAIN remaining : remaining[n] \in Subscription
  BY <1>8
<1>10. Len(remaining) \in Nat
  BY <1>8, LenProperties
<1> HIDE DEF remaining
<1>11. \A n \in DOMAIN remaining :
          remaining[n].callbackKeys \ remaining[n].keys \subseteq shrunk'
  BY <1>2 DEF ToSet
<1>12. shrunk' \in SUBSET Keys
  <2>1. \A s \in ToSet(remaining) : s.callbackKeys \in SUBSET Keys
    BY <1>9 DEF ToSet, Subscription
  <2>2. shrunk \in SUBSET Keys
    BY <1>1 DEF TypeInv
  <2> QED BY <1>2, <2>1, <2>2
<1>13. \A n \in DOMAIN remaining :
          /\ SubInv(remaining[n], store, shrunk')
          /\ remaining[n].star => Len(remaining) = 1
          /\ remaining[n].keys \subseteq CurrentKeys
  <2>1. TAKE n \in DOMAIN remaining
  <2>2. PICK i \in DOMAIN subs : remaining[n] = all[i] /\ all[i].keys # {}
    BY <1>i, <1>8
  <2>3. SubInv(subs[i], store, shrunk) /\ (subs[i].star => Len(subs) = 1)
    BY <1>1 DEF SubsInv
  <2>4. remaining[n].callbackKeys \ remaining[n].keys \subseteq shrunk'
    BY <1>11
  <2>5. SubInv(remaining[n], store, shrunk')
    BY <1>4, <2>2, <2>3, <2>4 DEF SubInv
  <2>6. remaining[n].star => Len(remaining) = 1
    <3>1. remaining[n].star => Len(subs) = 1
      BY <1>4, <2>2, <2>3
    <3>2. Len(remaining) >= 1 /\ Len(remaining) <= Len(subs)
      BY <1>8, <1>10
    <3>3. Len(subs) = 1 => Len(remaining) = 1
      <4>1. \A x, y \in Nat : x >= 1 /\ x <= y /\ y = 1 => x = 1
        OBVIOUS
      <4>2. Len(subs) \in Nat
        BY <1>3
      <4> QED BY <1>10, <3>2, <4>1, <4>2
    <3> QED BY <3>1, <3>3
  <2>7. subs[i].keys \subseteq CurrentKeys
    BY KeysOfSubs
  <2> QED BY <1>4, <2>2, <2>5, <2>6, <2>7
<1>14. HasStar => HasStar'
  <2>1. HAVE HasStar
  <2>2. PICK i \in DOMAIN subs : subs[i].star
    BY <2>1, KeysOfSubs
  <2>3. SubInv(subs[i], store, shrunk)
    BY <1>1 DEF SubsInv
  <2>4. i \in I
    BY <1>i, <1>4, <2>2, <2>3 DEF SubInv
  <2>5. PICK n \in DOMAIN remaining : remaining[n] = all[i]
    BY <1>8, <2>4
  <2>6. subs' = remaining /\ remaining[n].star
    BY <1>2, <1>4, <2>2, <2>5 DEF KeepSubscriptions
  <2> QED BY <2>6, KeysOfSubsNext
<1>15. shrunk \subseteq shrunk' /\ hasManager' \in BOOLEAN
  BY <1>2
<1> QED BY <1>2, <1>8, <1>12, <1>13, <1>14, <1>15, RemainingInv

LEMMA UnsubscribeAllInv ==
    ASSUME SyncInv, UnsubscribeAll
    PROVE  SyncInv'
<1>1. TypeInv
  BY DEF SyncInv, ShapeInv
<1>2. /\ KeepSubscriptions(<<>>) /\ hasManager' = FALSE
      /\ UNCHANGED <<subscribes, shrunk, unsent>> /\ UNCHANGED <<bridge, transport, preload>>
  BY DEF UnsubscribeAll
<1>3. <<>> \in Seq(Subscription) /\ shrunk' \in SUBSET Keys
  BY <1>1, <1>2, EmptySeq DEF TypeInv
<1>4. \A n \in DOMAIN <<>> :
         /\ SubInv(<<>>[n], store, shrunk')
         /\ <<>>[n].star => Len(<<>>) = 1
         /\ <<>>[n].keys \subseteq CurrentKeys
  OBVIOUS
<1> QED BY <1>2, <1>3, <1>4, RemainingInv

-----------------------------------------------------------------------------
(* GET_STATE *)

LEMMA ServeGetStateInv ==
    ASSUME SyncInv, ServeGetState
    PROVE  SyncInv'
<1> DEFINE m == Snapshot(Head(requests), Visible)
<1>1. /\ TypeInv /\ ValuesInv /\ SubsInv /\ FirstInv /\ WindowInv /\ BasesSettle
  BY DEF SyncInv, ShapeInv
<1>2. /\ requests # <<>> /\ requests' = Tail(requests) /\ channel' = Append(channel, m)
      /\ UNCHANGED <<bridge, subscriptions, loading, reloads, queued>>
      /\ UNCHANGED <<listening, cachedState, expectedSeq, skipped>>
  BY DEF ServeGetState
<1>3. ~loading /\ subscribes # 0
  BY <1>1, <1>2 DEF WindowInv, FirstInv
<1>4. /\ requests' \in Seq(Nat) /\ Head(requests) \in Nat
  BY <1>1, <1>2 DEF TypeInv
<1>5. Visible \in States /\ \A k \in CurrentKeys : ~Differ(Visible, store, k)
  <2>1. store \in States
    BY <1>1 DEF TypeInv
  <2>2. ASSUME NEW k \in CurrentKeys PROVE hasManager
    <3>1. DOMAIN subs # {}
      BY <2>2, KeysOfSubs
    <3>2. subs # <<>>
      BY <3>1
    <3> QED BY <1>1, <3>2 DEF SubsInv
  <2> QED BY <2>1, <2>2, PickState DEF Visible
<1>6. m \in SentMessages /\ m.type = "state" /\ m.state = Visible
  BY <1>4, <1>5 DEF Snapshot, SentMessages, Messages
<1> HIDE DEF m
<1>7. /\ channel \in Seq(SentMessages) /\ <<m>> \in Seq(SentMessages)
      /\ DOMAIN <<m>> = {1} /\ <<m>>[1] = m
      /\ channel' = channel \o <<m>> /\ channel' \in Seq(SentMessages)
  <2>1. channel \in Seq(SentMessages)
    BY <1>1 DEF TypeInv
  <2> QED BY <1>2, <1>6, <2>1
<1>8. TypeInv'
  BY <1>1, <1>2, <1>4, <1>7 DEF TypeInv, bridge, subscriptions
<1>9. ValuesInv' /\ SubsInv' /\ FirstInv'
  BY <1>1, <1>2, <1>3 DEF ValuesInv, SubsInv, FirstInv, bridge, subscriptions
<1>10. WindowInv'
  BY <1>1, <1>2, <1>3 DEF WindowInv
<1>11. Claimed' = Claimed /\ store' = store /\ Claimed \subseteq CurrentKeys
  BY <1>2 DEF Claimed, CurrentKeys, HasStar, bridge, subscriptions
<1>12. Pipe = channel /\ Pipe' = channel \o <<m>>
  BY <1>2, <1>3, <1>7 DEF Pipe
<1>13. \A k \in Claimed : Tells(m, store, k) /\ Fine(m, store, k)
  BY <1>5, <1>6, <1>11 DEF Tells, Fine
<1>14. StartsSettle(<<m>>, Claimed, store)
  <2>1. \A k \in Claimed : ~Differ(BaseContent(m), store, k)
    BY <1>5, <1>6, <1>11 DEF BaseContent
  <2> QED BY <2>1, StartsOne
<1>15. BasesSettle'
  <2>1. StartsSettle(channel, Claimed, store)
    BY <1>1, <1>12 DEF BasesSettle
  <2>2. StartsSettle(channel \o <<m>>, Claimed, store)
    BY <1>7, <1>13, <1>14, <2>1, StartsAppend
  <2> QED BY <1>11, <1>12, <2>2 DEF BasesSettle
<1>16. CopySettles'
  <2>1. ASSUME NEW k \in Claimed PROVE Settled(channel \o <<m>>, 0, Held, store, k)
    <3>1. 0 \in 0..Len(channel) /\ 1 \in DOMAIN <<m>>
      BY <1>7
    <3> QED BY <1>7, <1>13, <3>1, SettledTold
  <2> QED BY <1>2, <1>11, <1>12, <2>1 DEF CopySettles, Held
<1> QED BY <1>8, <1>9, <1>10, <1>15, <1>16 DEF SyncInv, ShapeInv

-----------------------------------------------------------------------------
(* The window *)

LEMMA ReloadInv ==
    ASSUME SyncInv, Reload
    PROVE  SyncInv'
<1>1. /\ TypeInv /\ ValuesInv /\ SubsInv /\ FirstInv /\ WindowInv
  BY DEF SyncInv, ShapeInv
<1>2. /\ ~loading /\ reloads' = reloads + 1 /\ loading' = TRUE /\ channel' = <<>>
      /\ requests' = <<>> /\ listening' = FALSE /\ cachedState' = Null
      /\ expectedSeq' = 0 /\ skipped' = FALSE
      /\ UNCHANGED <<bridge, subscriptions, queued>>
  BY DEF Reload
<1>3. queued = <<>>
  BY <1>1, <1>2 DEF WindowInv
<1>4. <<>> \in Seq(SentMessages) /\ <<>> \in Seq(Nat)
  BY EmptySeq
<1>5. TypeInv'
  <2>1. reloads' \in Nat /\ cachedState' \in States \cup {Null} /\ expectedSeq' \in Nat
    BY <1>1, <1>2 DEF TypeInv
  <2>2. loading' \in BOOLEAN /\ listening' \in BOOLEAN /\ skipped' \in BOOLEAN
    BY <1>2
  <2>3. channel' \in Seq(SentMessages) /\ requests' \in Seq(Nat)
    BY <1>2, <1>4
  <2> QED BY <1>1, <1>2, <2>1, <2>2, <2>3 DEF TypeInv, bridge, subscriptions
<1>6. ValuesInv' /\ SubsInv' /\ FirstInv' /\ WindowInv'
  BY <1>1, <1>2 DEF ValuesInv, SubsInv, FirstInv, WindowInv, bridge, subscriptions
<1>7. Pipe' = <<>>
  BY <1>2, <1>3 DEF Pipe
<1>8. BasesSettle' /\ CopySettles'
  BY <1>2, <1>7 DEF BasesSettle, StartsSettle, CopySettles
<1> QED BY <1>5, <1>6, <1>8 DEF SyncInv, ShapeInv

LEMMA FinishLoadInv ==
    ASSUME SyncInv, FinishLoad
    PROVE  SyncInv'
<1>1. /\ TypeInv /\ ValuesInv /\ SubsInv /\ FirstInv /\ WindowInv /\ BasesSettle
  BY DEF SyncInv, ShapeInv
<1>2. /\ loading /\ loading' = FALSE /\ channel' = channel \o queued /\ queued' = <<>>
      /\ UNCHANGED <<bridge, subscriptions, reloads, preload>>
  BY DEF FinishLoad
<1>3. channel = <<>> /\ expectedSeq = 0 /\ queued \in Seq(SentMessages)
  BY <1>1, <1>2 DEF WindowInv, TypeInv
<1>4. channel' = queued
  BY <1>2, <1>3, ConcatEmptySeq
<1>5. <<>> \in Seq(SentMessages)
  BY EmptySeq
<1>6. TypeInv'
  BY <1>1, <1>2, <1>4, <1>5 DEF TypeInv, bridge, subscriptions, preload
<1>7. ValuesInv' /\ SubsInv' /\ FirstInv'
  BY <1>1, <1>2, <1>4 DEF ValuesInv, SubsInv, FirstInv, bridge, subscriptions, preload
<1>8. WindowInv'
  BY <1>1, <1>2 DEF WindowInv, preload
<1>9. Pipe' = Pipe /\ Claimed' = Claimed /\ store' = store
  BY <1>2, <1>4 DEF Pipe, Claimed, CurrentKeys, HasStar, bridge, subscriptions
<1>10. BasesSettle'
  BY <1>1, <1>9 DEF BasesSettle, StartsSettle
<1>11. CopySettles'
  BY <1>2, <1>3 DEF CopySettles, preload
<1> QED BY <1>6, <1>7, <1>8, <1>10, <1>11 DEF SyncInv, ShapeInv

LEMMA ListenInv ==
    ASSUME SyncInv, Listen \/ StopListening
    PROVE  SyncInv'
<1>1. /\ TypeInv /\ ValuesInv /\ SubsInv /\ FirstInv /\ WindowInv
      /\ BasesSettle /\ CopySettles
  BY DEF SyncInv, ShapeInv
<1>2. UNCHANGED <<bridge, subscriptions, transport, requests>>
  BY DEF Listen, StopListening
<1>3. \/ listening' = TRUE /\ UNCHANGED <<cachedState, expectedSeq, skipped>>
      \/ /\ listening' = FALSE /\ cachedState' = Null
         /\ expectedSeq' = 0 /\ skipped' = FALSE
  BY DEF Listen, StopListening
<1>4. TypeInv'
  <2>1. /\ cachedState' \in States \cup {Null} /\ expectedSeq' \in Nat
        /\ listening' \in BOOLEAN /\ skipped' \in BOOLEAN
    <3>1. CASE /\ listening' = TRUE
               /\ UNCHANGED <<cachedState, expectedSeq, skipped>>
      BY <1>1, <3>1 DEF TypeInv
    <3>2. CASE /\ listening' = FALSE /\ cachedState' = Null
               /\ expectedSeq' = 0 /\ skipped' = FALSE
      BY <3>2
    <3> QED BY <1>3, <3>1, <3>2
  <2> QED BY <1>1, <1>2, <2>1 DEF TypeInv, bridge, subscriptions, transport
<1>5. ValuesInv' /\ SubsInv' /\ FirstInv'
  BY <1>1, <1>2, <1>3 DEF ValuesInv, SubsInv, FirstInv, bridge, subscriptions, transport
<1>6. WindowInv'
  BY <1>1, <1>2, <1>3 DEF WindowInv, transport
<1>7. Pipe' = Pipe /\ Claimed' = Claimed /\ store' = store
  BY <1>2 DEF Pipe, Claimed, CurrentKeys, HasStar, bridge, subscriptions, transport
<1>8. BasesSettle'
  BY <1>1, <1>7 DEF BasesSettle, StartsSettle
<1>9. CopySettles'
  BY <1>1, <1>2, <1>3, <1>7 DEF CopySettles, Held
<1> QED BY <1>4, <1>5, <1>6, <1>8, <1>9 DEF SyncInv, ShapeInv

(* A message arrives: what its handler may assume, and what it leaves to show
   of the copy. *)
LEMMA Received ==
    ASSUME SyncInv, channel # <<>>, Receive
    PROVE  /\ ~loading /\ ~loading' /\ subscribes' # 0 /\ queued' = <<>>
           /\ channel \in Seq(SentMessages) /\ Head(channel) \in SentMessages
           /\ channel' \in Seq(SentMessages)
           /\ Pipe' = Tail(channel) /\ Claimed' = Claimed /\ store' = store
           /\ ValuesInv' /\ SubsInv' /\ BasesSettle'
           /\ \A k \in Claimed : Base(Head(channel)) =>
                 Settled(Tail(channel), 0, BaseContent(Head(channel)), store, k)
<1>1. /\ TypeInv /\ ValuesInv /\ SubsInv /\ FirstInv /\ WindowInv /\ BasesSettle
  BY DEF SyncInv, ShapeInv
<1>2. /\ channel' = Tail(channel)
      /\ UNCHANGED <<bridge, subscriptions, loading, reloads, queued>>
  BY DEF Receive
<1>3. /\ ~loading /\ subscribes # 0 /\ queued = <<>>
  BY <1>1 DEF WindowInv, FirstInv
<1>4. /\ channel \in Seq(SentMessages) /\ Head(channel) \in SentMessages
      /\ Tail(channel) \in Seq(SentMessages)
  <2>1. channel \in Seq(SentMessages)
    BY <1>1 DEF TypeInv
  <2> QED BY <2>1, HeadTailProperties
<1>5. Pipe = channel /\ Pipe' = Tail(channel) /\ Claimed' = Claimed /\ store' = store
  BY <1>2, <1>3 DEF Pipe, Claimed, CurrentKeys, HasStar, bridge, subscriptions
<1>6. ValuesInv' /\ SubsInv'
  BY <1>1, <1>2 DEF ValuesInv, SubsInv, bridge, subscriptions
<1>7. StartsSettle(channel, Claimed, store)
  BY <1>1, <1>5 DEF BasesSettle
<1>8. BasesSettle'
  <2>1. StartsSettle(Tail(channel), Claimed, store)
    BY <1>4, <1>7, StartsTail
  <2> QED BY <1>5, <2>1 DEF BasesSettle
<1>9. ASSUME NEW k \in Claimed, Base(Head(channel))
      PROVE  Settled(Tail(channel), 0, BaseContent(Head(channel)), store, k)
  <2> DEFINE len == Len(channel) - 1
  <2>1. /\ len \in Nat /\ DOMAIN channel = 1..(len + 1) /\ DOMAIN Tail(channel) = 1..len
        /\ \A i \in 1..len : Tail(channel)[i] = channel[i + 1]
        /\ 1 \in DOMAIN channel /\ Head(channel) = channel[1]
    BY <1>4, TailShift
  <2> HIDE DEF len
  <2>2. Settled(channel, 0 + 1, BaseContent(Head(channel)), store, k)
    BY <1>7, <1>9, <2>1 DEF StartsSettle
  <2> QED BY <2>1, <2>2, SettledRest
<1> QED BY <1>2, <1>3, <1>4, <1>5, <1>6, <1>8, <1>9 DEF subscriptions

LEMMA UpdateUnusedInv ==
    ASSUME SyncInv, UpdateUnheard \/ UpdateDuplicate \/ UpdateAfterGap
    PROVE  SyncInv'
<1>1. TypeInv /\ WindowInv
  BY DEF SyncInv, ShapeInv
<1>2. channel # <<>> /\ Receive /\ Head(channel).type = "update"
  BY DEF UpdateUnheard, UpdateDuplicate, UpdateAfterGap, IsUpdate
<1>3. /\ ~loading /\ ~loading' /\ subscribes' # 0 /\ queued' = <<>>
      /\ Head(channel) \in SentMessages /\ channel' \in Seq(SentMessages)
      /\ ValuesInv' /\ SubsInv' /\ BasesSettle'
  BY <1>2, Received
<1>4. UNCHANGED <<bridge, subscriptions, loading, reloads, queued>>
  BY <1>2 DEF Receive
<1>5. Head(channel).seq \in Nat \ {0}
  BY <1>2, <1>3 DEF SentMessages, Messages
<1>6. FirstInv'
  BY <1>3 DEF FirstInv
<1>7. CASE UpdateUnheard
  <2>1. /\ ~listening /\ skipped' = (skipped \/ cachedState # Null)
        /\ UNCHANGED <<requests, listening, cachedState, expectedSeq>>
    BY <1>7 DEF UpdateUnheard
  <2>2. TypeInv'
    BY <1>1, <1>3, <1>4, <2>1 DEF TypeInv, bridge, subscriptions
  <2>3. WindowInv' /\ CopySettles'
    BY <1>1, <1>3, <2>1 DEF WindowInv, CopySettles, TypeInv
  <2> QED BY <1>3, <1>6, <2>2, <2>3 DEF SyncInv, ShapeInv
<1>8. CASE UpdateDuplicate
  <2>1. /\ listening /\ skipped' = TRUE
        /\ UNCHANGED <<requests, listening, cachedState, expectedSeq>>
    BY <1>8 DEF UpdateDuplicate
  <2>2. TypeInv'
    BY <1>1, <1>3, <1>4, <2>1 DEF TypeInv, bridge, subscriptions
  <2>3. WindowInv' /\ CopySettles'
    BY <1>1, <1>3, <2>1 DEF WindowInv, CopySettles
  <2> QED BY <1>3, <1>6, <2>2, <2>3 DEF SyncInv, ShapeInv
<1>9. CASE UpdateAfterGap
  <2>1. /\ listening /\ expectedSeq' = Head(channel).seq
        /\ requests' = Append(requests, Head(channel).seq)
        /\ UNCHANGED <<listening, cachedState, skipped>>
    BY <1>9 DEF UpdateAfterGap
  <2>2. requests' \in Seq(Nat) /\ requests' # <<>>
    BY <1>1, <1>5, <2>1 DEF TypeInv
  <2>3. TypeInv'
    BY <1>1, <1>3, <1>4, <1>5, <2>1, <2>2 DEF TypeInv, bridge, subscriptions
  <2>4. WindowInv' /\ CopySettles'
    BY <1>1, <1>3, <1>5, <2>1, <2>2 DEF WindowInv, CopySettles
  <2> QED BY <1>3, <1>6, <2>3, <2>4 DEF SyncInv, ShapeInv
<1> QED BY <1>7, <1>8, <1>9

LEMMA UpdateInOrderInv ==
    ASSUME SyncInv, UpdateInOrder
    PROVE  SyncInv'
<1> DEFINE m == Head(channel)
<1>1. TypeInv /\ WindowInv /\ CopySettles
  BY DEF SyncInv, ShapeInv
<1>2. /\ channel # <<>> /\ Receive /\ m.type = "update" /\ listening
      /\ ~IsDuplicate(m.seq) /\ ~HasSeqGap(m.seq)
      /\ expectedSeq' = m.seq /\ cachedState' = Apply(m, Held)
      /\ UNCHANGED <<requests, listening, skipped>>
  BY DEF UpdateInOrder, IsUpdate, Held
<1>3. /\ ~loading /\ ~loading' /\ subscribes' # 0 /\ queued' = <<>>
      /\ channel \in Seq(SentMessages) /\ m \in SentMessages
      /\ channel' \in Seq(SentMessages)
      /\ Pipe' = Tail(channel) /\ Claimed' = Claimed /\ store' = store
      /\ ValuesInv' /\ SubsInv' /\ BasesSettle'
      /\ \A k \in Claimed : Base(m) =>
            Settled(Tail(channel), 0, BaseContent(m), store, k)
  BY <1>2, Received
<1>4. UNCHANGED <<bridge, subscriptions, loading, reloads, queued>>
  BY <1>2 DEF Receive
<1> HIDE DEF m
<1>5. m.seq \in Nat \ {0} /\ m.changed \in States
  BY <1>2, <1>3 DEF SentMessages, Messages
<1>6. Held \in States
  BY <1>1, NothingIs DEF Held, TypeInv
<1>7. cachedState' \in States /\ cachedState' # Null
  BY <1>2, <1>5, <1>6, ApplyState, NullAssumption
<1>8. TypeInv'
  BY <1>1, <1>2, <1>3, <1>4, <1>5, <1>7 DEF TypeInv, bridge, subscriptions
<1>9. FirstInv' /\ WindowInv'
  BY <1>1, <1>2, <1>3, <1>5 DEF FirstInv, WindowInv
<1>10. CopySettles'
  <2>1. SUFFICES ASSUME ~skipped, requests = <<>>, NEW k \in Claimed
                 PROVE  Settled(Tail(channel), 0, Apply(m, Held), store, k)
    BY <1>2, <1>3, <1>7 DEF CopySettles, Held
  <2>2. CASE expectedSeq = 0
    <3>1. m.seq = 1
      BY <1>2, <1>5, <2>2 DEF HasSeqGap
    <3>2. Held = Nothing
      BY <1>1, <2>1, <2>2 DEF WindowInv, Held
    <3>3. Base(m) /\ BaseContent(m) = Apply(m, Held)
      BY <1>2, <3>1, <3>2 DEF Base, BaseContent
    <3> QED BY <1>3, <3>3
  <2>3. CASE expectedSeq > 0
    <3>1. Settled(channel, 0, Held, store, k)
      <4>1. Pipe = channel
        BY <1>3 DEF Pipe
      <4> QED BY <1>1, <2>1, <2>3, <4>1 DEF CopySettles
    <3> QED BY <1>2, <1>3, <3>1, SettledApplied DEF m
  <2>4. expectedSeq \in Nat
    BY <1>1 DEF TypeInv
  <2> QED BY <2>2, <2>3, <2>4
<1> QED BY <1>3, <1>8, <1>9, <1>10 DEF SyncInv, ShapeInv

LEMMA StateArrivesInv ==
    ASSUME SyncInv, StateArrives
    PROVE  SyncInv'
<1> DEFINE m == Head(channel)
<1>1. TypeInv /\ WindowInv
  BY DEF SyncInv, ShapeInv
<1>2. /\ channel # <<>> /\ Receive /\ m.type = "state"
      /\ IF m.seq >= expectedSeq
         THEN cachedState' = m.state /\ skipped' = (expectedSeq = 0)
         ELSE skipped' = TRUE /\ UNCHANGED cachedState
      /\ UNCHANGED <<requests, listening, expectedSeq>>
  BY DEF StateArrives
<1>3. /\ ~loading /\ ~loading' /\ subscribes' # 0 /\ queued' = <<>>
      /\ m \in SentMessages /\ channel' \in Seq(SentMessages)
      /\ Pipe' = Tail(channel) /\ Claimed' = Claimed /\ store' = store
      /\ ValuesInv' /\ SubsInv' /\ BasesSettle'
      /\ \A k \in Claimed : Base(m) =>
            Settled(Tail(channel), 0, BaseContent(m), store, k)
  BY <1>2, Received
<1>4. UNCHANGED <<bridge, subscriptions, loading, reloads, queued>>
  BY <1>2 DEF Receive
<1> HIDE DEF m
<1>5. m.state \in States
  BY <1>2, <1>3 DEF SentMessages, Messages
<1>6. TypeInv'
  BY <1>1, <1>2, <1>3, <1>4, <1>5 DEF TypeInv, bridge, subscriptions
<1>7. FirstInv' /\ WindowInv'
  BY <1>1, <1>2, <1>3 DEF FirstInv, WindowInv
<1>8. CopySettles'
  <2>1. SUFFICES ASSUME ~skipped', NEW k \in Claimed
                 PROVE  Settled(Tail(channel), 0, Held', store, k)
    BY <1>3 DEF CopySettles
  <2>2. cachedState' = m.state
    BY <1>2, <2>1
  <2>3. Held' = BaseContent(m) /\ Base(m)
    BY <1>2, <1>5, <2>2, NullAssumption DEF Held, BaseContent, Base
  <2> QED BY <1>3, <2>3
<1> QED BY <1>3, <1>6, <1>7, <1>8 DEF SyncInv, ShapeInv

-----------------------------------------------------------------------------

LEMMA NextInv ==
    ASSUME SyncInv, [Next]_vars
    PROVE  SyncInv'
<1>1. CASE StoreChanges
  BY <1>1, StoreChangesInv
<1>2. ASSUME NEW keys \in SUBSET Keys, Subscribe(FALSE, keys) PROVE SyncInv'
  BY <1>2, SubscribeInv
<1>3. CASE Subscribe(TRUE, Keys)
  BY <1>3, SubscribeInv
<1>4. ASSUME NEW i \in DOMAIN subs, CallHandle(i) PROVE SyncInv'
  BY <1>4, CallHandleInv
<1>5. ASSUME NEW keys \in SUBSET CurrentKeys, UnsubscribeKeys(keys) PROVE SyncInv'
  <2>1. keys \in SUBSET Keys
    BY KeysAreKeys DEF SyncInv, ShapeInv
  <2> QED BY <1>5, <2>1, UnsubscribeKeysInv
<1>6. CASE UnsubscribeAll
  BY <1>6, UnsubscribeAllInv
<1>7. CASE ServeGetState
  BY <1>7, ServeGetStateInv
<1>8. CASE Reload
  BY <1>8, ReloadInv
<1>9. CASE FinishLoad
  BY <1>9, FinishLoadInv
<1>10. CASE Listen \/ StopListening
  BY <1>10, ListenInv
<1>11. CASE UpdateUnheard \/ UpdateDuplicate \/ UpdateAfterGap
  BY <1>11, UpdateUnusedInv
<1>12. CASE UpdateInOrder
  BY <1>12, UpdateInOrderInv
<1>13. CASE StateArrives
  BY <1>13, StateArrivesInv
<1>14. CASE UNCHANGED vars
  <2>1. UNCHANGED <<bridge, subscriptions, transport, preload>>
    BY <1>14 DEF vars
  <2>2. /\ TypeInv /\ ValuesInv /\ SubsInv /\ FirstInv /\ WindowInv
    BY DEF SyncInv, ShapeInv
  <2>3. TypeInv' /\ ValuesInv' /\ SubsInv'
    BY <2>1, <2>2 DEF TypeInv, ValuesInv, SubsInv, bridge, subscriptions, transport, preload
  <2>4. FirstInv' /\ WindowInv'
    BY <2>1, <2>2 DEF FirstInv, WindowInv, subscriptions, transport, preload
  <2>5. Claimed' = Claimed
    BY <2>1 DEF Claimed, CurrentKeys, HasStar, bridge, subscriptions
  <2>6. BasesSettle' /\ CopySettles'
    BY <2>1, <2>5, FewerSettle DEF bridge
  <2> QED BY <2>3, <2>4, <2>6 DEF SyncInv, ShapeInv
<1> QED
  BY <1>1, <1>2, <1>3, <1>4, <1>5, <1>6, <1>7, <1>8, <1>9, <1>10, <1>11, <1>12, <1>13,
     <1>14 DEF Next, Main, Window

LEMMA InvTypeOK ==
    ASSUME SyncInv
    PROVE  TypeOK
<1>1. /\ TypeInv /\ SubsInv /\ WindowInv
  BY DEF SyncInv, ShapeInv
<1>2. \A s \in ToSet(subs) :
         /\ s \in Subscription /\ s.keys # {} /\ s.keys \subseteq s.callbackKeys
         /\ DOMAIN s.prevState \subseteq s.callbackKeys
         /\ s.star => Len(subs) = 1
  BY <1>1, KeysAreKeys DEF ToSet, SubsInv, SubInv
<1>3. \A m \in ToSet(queued) \cup ToSet(channel) : m \in Messages
  <2>1. \A i \in DOMAIN queued : queued[i] \in SentMessages
    BY <1>1 DEF TypeInv
  <2>2. \A i \in DOMAIN channel : channel[i] \in SentMessages
    BY <1>1 DEF TypeInv
  <2> QED BY <2>1, <2>2 DEF ToSet, SentMessages
<1> QED BY <1>1, <1>2, <1>3 DEF TypeOK, TypeInv, SubsInv, WindowInv

LEMMA InvConverged ==
    ASSUME SyncInv
    PROVE  Converged
<1>1. /\ TypeInv /\ WindowInv /\ CopySettles
  BY DEF SyncInv, ShapeInv
<1>2. SUFFICES ASSUME Quiet, cachedState # Null, ~skipped,
                      deltasEnabled \/ store # Nothing,
                      NEW k \in CurrentKeys \ (shrunk \cup unsent)
               PROVE  ~Differ(cachedState, store, k)
  BY DEF Converged
<1>3. expectedSeq > 0
  BY <1>1, <1>2 DEF TypeInv, WindowInv
<1>4. Pipe = <<>> /\ requests = <<>> /\ Held = cachedState /\ k \in Claimed
  BY <1>2 DEF Quiet, Pipe, Held, Claimed
<1>5. Settled(<<>>, 0, cachedState, store, k)
  BY <1>1, <1>2, <1>3, <1>4 DEF CopySettles
<1> QED BY <1>5, SettledEnd

(* Every window has the types the code relies on: subscriptions that keep to
   their callback's keys, '*' alone, a counter that runs while one is left,
   messages held only for a window that loads.
   (SubscriptionManager.ts:53-236, windows.ts:54-128) *)
THEOREM SyncTypes == Spec => []TypeOK
<1>1. Init => SyncInv
  BY InitInv
<1>2. SyncInv /\ [Next]_vars => SyncInv'
  BY NextInv
<1>3. SyncInv => TypeOK
  BY InvTypeOK
<1> QED BY <1>1, <1>2, <1>3, PTL DEF Spec

(* Whenever nothing is on its way, the window's copy is the store on every key
   it is subscribed to, the exceptions of Converged apart, for any keys, any
   length of the queue of a loading window and any number of changes,
   subscriptions and reloads.
   (preload.ts:185-331, SubscriptionHandler.ts:128-383) *)
THEOREM CopyConverges == Spec => []Converged
<1>1. Init => SyncInv
  BY InitInv
<1>2. SyncInv /\ [Next]_vars => SyncInv'
  BY NextInv
<1>3. SyncInv => Converged
  BY InvConverged
<1> QED BY <1>1, <1>2, <1>3, PTL DEF Spec
=============================================================================
