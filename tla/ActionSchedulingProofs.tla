----------------------- MODULE ActionSchedulingProofs -----------------------
(***************************************************************************)
(* ActionScheduling, for any thunks, any actions and any size of the       *)
(* queue: each action is in one place and is reported once, no action is   *)
(* left waiting when no root executes, and none overtakes another of its   *)
(* stream.  First the sequences: what a selection, a removal and the       *)
(* sorting by levels do to the order of the elements.                      *)
(***************************************************************************)
EXTENDS ActionScheduling, FunctionTheorems, FiniteSetTheorems, SequenceTheorems,
        WellFoundedInduction, TLAPS

-----------------------------------------------------------------------------
(* Selections *)

(* The elements of r are those of s at some positions, in the order of s. *)
Part(r, s) ==
    /\ \A n \in DOMAIN r : \E i \in DOMAIN s : r[n] = s[i]
    /\ \A n, m \in DOMAIN r :
          n < m => \E i, j \in DOMAIN s : i < j /\ r[n] = s[i] /\ r[m] = s[j]

(* A selection has exactly the elements at its positions, in their order. *)
LEMMA SelectedElements ==
    ASSUME NEW s, NEW I \in SUBSET Nat, IsFiniteSet(I)
    PROVE  /\ Cardinality(I) \in Nat
           /\ DOMAIN Selected(s, I) = 1..Cardinality(I)
           /\ \A n \in 1..Cardinality(I) : \E i \in I : Selected(s, I)[n] = s[i]
           /\ \A i \in I : \E n \in 1..Cardinality(I) : Selected(s, I)[n] = s[i]
           /\ \A n, m \in 1..Cardinality(I) :
                 n < m => \E i, j \in I : /\ i < j
                                          /\ Selected(s, I)[n] = s[i]
                                          /\ Selected(s, I)[m] = s[j]
<1> DEFINE UpTo(i) == {j \in I : j <= i}
           R == 1..Cardinality(I)
           f == [i \in I |-> Rank(I, i)]
<1>1. Cardinality(I) \in Nat
  BY FS_CardinalityType
<1>2. \A i \in I : IsFiniteSet(UpTo(i)) /\ Cardinality(UpTo(i)) <= Cardinality(I)
  BY FS_Subset
<1>3. \A i \in I : Rank(I, i) \in R
  <2>1. TAKE i \in I
  <2>2. UpTo(i) # {}
    BY DEF UpTo
  <2>3. Cardinality(UpTo(i)) \in Nat /\ Cardinality(UpTo(i)) # 0
    BY <1>2, <2>2, FS_CardinalityType, FS_EmptySet
  <2> QED BY <1>1, <1>2, <2>3 DEF Rank, R
<1>4. \A i, k \in I : i < k => Rank(I, i) < Rank(I, k)
  <2>1. TAKE i, k \in I
  <2>2. HAVE i < k
  <2>3. UpTo(i) \in SUBSET UpTo(k) /\ k \in UpTo(k) /\ k \notin UpTo(i)
    <3>1. \A j \in I : j \in Nat
      OBVIOUS
    <3>2. \A j \in I : j <= i => j <= k
      BY <2>2, <3>1
    <3>3. k <= k /\ ~(k <= i)
      BY <2>2, <3>1
    <3> QED BY <3>2, <3>3 DEF UpTo
  <2>4. /\ Cardinality(UpTo(k)) # Cardinality(UpTo(i))
        /\ Cardinality(UpTo(i)) <= Cardinality(UpTo(k))
    BY <1>2, <2>3, FS_Subset
  <2>5. Rank(I, i) \in Nat /\ Rank(I, k) \in Nat
    BY <1>3
  <2> QED BY <2>4, <2>5 DEF Rank, UpTo
<1>5. f \in Injection(I, R)
  <2>1. f \in [I -> R]
    BY <1>3
  <2>2. \A i, k \in I : i # k => i < k \/ k < i
    OBVIOUS
  <2>3. \A i \in I : Rank(I, i) \in Nat
    BY <1>3
  <2>4. \A i, k \in I : i # k => Rank(I, i) # Rank(I, k)
    BY <1>4, <2>2, <2>3
  <2> QED BY <2>1, <2>4 DEF Injection, IsInjective
<1>6. IsFiniteSet(R) /\ Cardinality(R) = Cardinality(I)
  BY <1>1, FS_Interval
<1>7. f \in Surjection(I, R)
  BY <1>5, <1>6, FS_Injection
<1>8. \A n \in R : \E i \in I : Rank(I, i) = n
  BY <1>7 DEF Surjection
<1> DEFINE At(n) == CHOOSE i \in I : Rank(I, i) = n
<1>9. \A n \in R : At(n) \in I /\ Rank(I, At(n)) = n
  BY <1>8
<1>10. \A i \in I : At(Rank(I, i)) = i
  <2>1. TAKE i \in I
  <2>2. At(Rank(I, i)) \in I /\ Rank(I, At(Rank(I, i))) = Rank(I, i)
    BY <1>3, <1>9
  <2>3. f[At(Rank(I, i))] = f[i]
    BY <2>2
  <2> QED BY <1>5, <2>2, <2>3 DEF Injection, IsInjective
<1>11. /\ DOMAIN Selected(s, I) = R
       /\ \A n \in R : Selected(s, I)[n] = s[At(n)]
  BY DEF Selected
<1>12. \A n, m \in R : n < m => At(n) < At(m)
  <2> HIDE DEF At
  <2>1. TAKE n, m \in R
  <2>2. HAVE n < m
  <2>3. /\ At(n) \in I /\ Rank(I, At(n)) = n
        /\ At(m) \in I /\ Rank(I, At(m)) = m
    BY <1>9
  <2>4. n \in Nat /\ m \in Nat
    BY <1>1
  <2>5. At(n) # At(m)
    BY <2>2, <2>3, <2>4
  <2>6. ~(At(m) < At(n))
    <3>1. At(m) < At(n) => m < n
      BY <1>4, <2>3
    <3> QED BY <2>2, <2>4, <3>1
  <2>7. At(n) \in Nat /\ At(m) \in Nat
    BY <2>3
  <2> QED BY <2>5, <2>6, <2>7
<1> HIDE DEF At
<1>13. \A n, m \in R : n < m => \E i, j \in I : /\ i < j
                                                /\ Selected(s, I)[n] = s[i]
                                                /\ Selected(s, I)[m] = s[j]
  BY <1>9, <1>11, <1>12
<1> QED BY <1>1, <1>3, <1>9, <1>10, <1>11, <1>13

LEMMA SelectedSeq ==
    ASSUME NEW S, NEW s \in Seq(S), NEW I \in SUBSET DOMAIN s
    PROVE  /\ Selected(s, I) \in Seq(S)
           /\ Len(Selected(s, I)) <= Len(s)
           /\ Part(Selected(s, I), s)
           /\ Range(Selected(s, I)) = {s[i] : i \in I}
<1>1. DOMAIN s = 1..Len(s) /\ Len(s) \in Nat
  BY LenProperties
<1>2. IsFiniteSet(1..Len(s)) /\ Cardinality(1..Len(s)) = Len(s)
  <2>1. Len(s) \in Int /\ (IF 1 > Len(s) THEN 0 ELSE Len(s) - 1 + 1) = Len(s)
    BY <1>1
  <2> QED BY <2>1, FS_Interval
<1>3. IsFiniteSet(I) /\ Cardinality(I) <= Len(s) /\ I \in SUBSET Nat
  BY <1>1, <1>2, FS_Subset
<1> DEFINE sel == Selected(s, I)
           n == Cardinality(I)
<1>4. /\ n \in Nat /\ DOMAIN sel = 1..n
      /\ \A m \in 1..n : \E i \in I : sel[m] = s[i]
      /\ \A i \in I : \E m \in 1..n : sel[m] = s[i]
      /\ \A l, m \in 1..n : l < m => \E i, j \in I : /\ i < j
                                                     /\ sel[l] = s[i]
                                                     /\ sel[m] = s[j]
  <2> HIDE DEF sel, n
  <2> QED BY <1>3, SelectedElements, Zenon DEF sel, n
<1>5. sel = [m \in 1..n |-> sel[m]]
  BY DEF Selected
<1>6. \A i \in I : s[i] \in S
  BY <1>1
<1> HIDE DEF sel
<1>7. \A m \in 1..n : sel[m] \in S
  BY <1>4, <1>6
<1>8. sel \in [1..n -> S]
  BY <1>5, <1>7
<1>9. sel \in Seq(S) /\ Len(sel) = n
  BY <1>4, <1>8
<1>10. Part(sel, s)
  BY <1>4 DEF Part
<1>11. Range(sel) = {s[i] : i \in I}
  <2>1. \A m \in DOMAIN sel : sel[m] \in {s[i] : i \in I}
    BY <1>4
  <2>2. \A i \in I : \E m \in DOMAIN sel : s[i] = sel[m]
    BY <1>4
  <2> QED BY <2>1, <2>2 DEF Range
<1> QED BY <1>3, <1>9, <1>10, <1>11 DEF sel

(* A removal keeps every other element, in order. *)
LEMMA RemovedAt ==
    ASSUME NEW S, NEW s \in Seq(S), NEW k \in 1..Len(s)
    PROVE  /\ RemoveAt(s, k) \in Seq(S)
           /\ Part(RemoveAt(s, k), s)
           /\ Range(RemoveAt(s, k)) = {s[i] : i \in DOMAIN s \ {k}}
<1> DEFINE p == SubSeq(s, 1, k - 1)
           q == SubSeq(s, k + 1, Len(s))
           r == RemoveAt(s, k)
<1>1. Len(s) \in Nat /\ DOMAIN s = 1..Len(s) /\ \A i \in 1..Len(s) : s[i] \in S
  BY LenProperties
<1>2. /\ k - 1 \in Int /\ k + 1 \in Int /\ Len(s) \in Int
      /\ \A i \in 1 .. k - 1 : s[i] \in S
      /\ \A i \in k + 1 .. Len(s) : s[i] \in S
  BY <1>1
<1>3. /\ p \in Seq(S) /\ Len(p) = IF 1 <= k - 1 THEN (k - 1) - 1 + 1 ELSE 0
      /\ \A i \in 1 .. (k - 1) - 1 + 1 : p[i] = s[1 + i - 1]
  BY <1>2, SubSeqProperties
<1>4. /\ q \in Seq(S) /\ Len(q) = IF k + 1 <= Len(s) THEN Len(s) - (k + 1) + 1 ELSE 0
      /\ \A i \in 1 .. Len(s) - (k + 1) + 1 : q[i] = s[(k + 1) + i - 1]
  BY <1>2, SubSeqProperties
<1> HIDE DEF p, q
<1>5. Len(p) = k - 1 /\ \A i \in 1 .. k - 1 : p[i] = s[i]
  BY <1>1, <1>3
<1>6. Len(q) = Len(s) - k /\ \A i \in 1 .. Len(s) - k : q[i] = s[k + i]
  <2>1. \A l \in Nat : \A j \in 1 .. l :
           /\ (IF j + 1 <= l THEN l - (j + 1) + 1 ELSE 0) = l - j
           /\ l - (j + 1) + 1 = l - j
           /\ \A i \in 1 .. l - j : (j + 1) + i - 1 = j + i
    OBVIOUS
  <2> QED BY <1>1, <1>4, <2>1
<1>7. r = p \o q
  BY DEF r, RemoveAt, p, q
<1> HIDE DEF r
<1>8. /\ r \in Seq(S) /\ Len(r) = Len(p) + Len(q)
      /\ \A i \in 1 .. Len(p) + Len(q) : r[i] = IF i <= Len(p) THEN p[i] ELSE q[i - Len(p)]
  BY <1>3, <1>4, <1>7, ConcatProperties
<1>9. Len(r) = Len(s) - 1 /\ DOMAIN r = 1 .. Len(s) - 1
  BY <1>1, <1>5, <1>6, <1>8
<1>10. \A i \in 1 .. Len(s) - 1 : r[i] = s[IF i < k THEN i ELSE i + 1]
  <2>1. TAKE i \in 1 .. Len(s) - 1
  <2>2. CASE i < k
    BY <1>1, <1>5, <1>6, <1>8, <2>2
  <2>3. CASE ~(i < k)
    <3>1. i - (k - 1) \in 1 .. Len(s) - k /\ k + (i - (k - 1)) = i + 1
      BY <1>1, <2>3
    <3>2. r[i] = q[i - (k - 1)]
      BY <1>1, <1>5, <1>6, <1>8, <2>3
    <3> QED BY <1>6, <2>3, <3>1, <3>2
  <2> QED BY <2>2, <2>3
<1> DEFINE At(i) == IF i < k THEN i ELSE i + 1
<1>11. /\ \A i \in 1 .. Len(s) - 1 : At(i) \in 1 .. Len(s) /\ At(i) # k
       /\ \A i, j \in 1 .. Len(s) - 1 : i < j => At(i) < At(j)
       /\ \A i \in 1 .. Len(s) : i # k =>
             \E n \in 1 .. Len(s) - 1 : At(n) = i
  <2>1. \A i \in 1 .. Len(s) - 1 : At(i) \in 1 .. Len(s) /\ At(i) # k
    BY <1>1
  <2>2. \A i, j \in 1 .. Len(s) - 1 : i < j => At(i) < At(j)
    BY <1>1
  <2>3. ASSUME NEW i \in 1 .. Len(s), i # k
        PROVE  \E n \in 1 .. Len(s) - 1 : At(n) = i
    <3>1. CASE i < k
      BY <1>1, <3>1
    <3>2. CASE i > k
      <4>1. i - 1 \in 1 .. Len(s) - 1 /\ At(i - 1) = i
        BY <1>1, <3>2
      <4> QED BY <4>1
    <3> QED BY <1>1, <2>3, <3>1, <3>2
  <2> QED BY <2>1, <2>2, <2>3
<1>12. \A i \in 1 .. Len(s) - 1 : r[i] = s[At(i)]
  BY <1>10
<1> HIDE DEF At
<1>13. Part(r, s)
  <2>1. \A i \in DOMAIN r : At(i) \in DOMAIN s /\ r[i] = s[At(i)]
    BY <1>1, <1>9, <1>11, <1>12
  <2>2. \A i, j \in DOMAIN r : i < j => At(i) < At(j)
    BY <1>9, <1>11
  <2> QED BY <2>1, <2>2, Zenon DEF Part
<1>14. Range(r) = {s[i] : i \in DOMAIN s \ {k}}
  <2>1. \A n \in DOMAIN r : r[n] \in {s[i] : i \in DOMAIN s \ {k}}
    BY <1>1, <1>9, <1>11, <1>12
  <2>2. \A i \in DOMAIN s \ {k} : \E n \in DOMAIN r : s[i] = r[n]
    BY <1>1, <1>9, <1>11, <1>12
  <2> QED BY <2>1, <2>2 DEF Range
<1> QED BY <1>8, <1>13, <1>14 DEF r
-----------------------------------------------------------------------------
(* The sorting by levels *)

(* An entry of the queue goes before another by its priority, then by its age. *)
Ahead(q, i, j) ==
    \/ q[i].priority > q[j].priority
    \/ q[i].priority = q[j].priority /\ i < j

Ranked(r, q) ==
    \A n, m \in DOMAIN r :
       n < m => \E i, j \in DOMAIN q :
                   i # j /\ r[n] = q[i] /\ r[m] = q[j] /\ Ahead(q, i, j)

LEMMA RankedJoined ==
    ASSUME NEW q \in Seq(QueuedAction),
           NEW r \in Seq(QueuedAction), Ranked(r, q),
           NEW s \in Seq(QueuedAction), Ranked(s, q),
           Range(r) \subseteq Range(q), Range(s) \subseteq Range(q),
           \A d \in Range(r), e \in Range(s) : d.priority > e.priority
    PROVE  /\ r \o s \in Seq(QueuedAction)
           /\ Ranked(r \o s, q)
           /\ Range(r \o s) = Range(r) \cup Range(s)
<1> DEFINE t == r \o s
           a == Len(r)
           b == Len(s)
<1>1. /\ a \in Nat /\ DOMAIN r = 1 .. a
      /\ b \in Nat /\ DOMAIN s = 1 .. b
      /\ \A i \in DOMAIN q : i \in Nat /\ q[i].priority \in Nat
  <2>1. \A i \in DOMAIN q : i \in Nat /\ q[i] \in QueuedAction
    BY LenProperties
  <2>2. \A e \in QueuedAction : e.priority \in Nat
    BY DEF QueuedAction, Priorities, RootThunkAction, NormalThunkAction, NormalAction
  <2> QED BY <2>1, <2>2, LenProperties
<1>2. /\ t \in Seq(QueuedAction) /\ Len(t) = a + b
      /\ \A i \in 1 .. a + b : t[i] = IF i <= a THEN r[i] ELSE s[i - a]
  BY ConcatProperties
<1> HIDE DEF t, a, b
<1>3. DOMAIN t = 1 .. a + b
  BY <1>2, LenProperties
<1>4. \A n \in DOMAIN t :
         \/ n \in DOMAIN r /\ t[n] = r[n]
         \/ n - a \in DOMAIN s /\ t[n] = s[n - a] /\ n > a
  BY <1>1, <1>2, <1>3
<1>5. \A i \in DOMAIN r : i \in DOMAIN t /\ t[i] = r[i]
  BY <1>1, <1>2, <1>3
<1>6. \A i \in DOMAIN s : i + a \in DOMAIN t /\ t[i + a] = s[i]
  <2>1. TAKE i \in DOMAIN s
  <2>2. i + a \in 1 .. a + b /\ ~(i + a <= a) /\ (i + a) - a = i
    BY <1>1
  <2> QED BY <1>2, <1>3, <2>2
<1>7. Ranked(t, q)
  <2>1. SUFFICES ASSUME NEW n \in DOMAIN t, NEW m \in DOMAIN t, n < m
                 PROVE  \E i, j \in DOMAIN q :
                           i # j /\ t[n] = q[i] /\ t[m] = q[j] /\ Ahead(q, i, j)
    BY DEF Ranked
  <2>2. n \in Nat /\ m \in Nat
    BY <1>1, <1>3
  <2>3. CASE m \in DOMAIN r /\ t[m] = r[m]
    <3>1. n \in 1 .. a
      <4>1. m \in 1 .. a /\ n \in 1 .. a + b
        BY <1>1, <1>3, <2>3
      <4> QED BY <1>1, <2>1, <4>1
    <3>2. n \in DOMAIN r /\ t[n] = r[n]
      BY <1>1, <1>5, <3>1
    <3> QED BY <2>1, <2>3, <3>2 DEF Ranked
  <2>4. CASE /\ n \in DOMAIN r /\ t[n] = r[n]
             /\ m - a \in DOMAIN s /\ t[m] = s[m - a]
    <3>1. PICK i \in DOMAIN q : t[n] = q[i]
      BY <2>4 DEF Range
    <3>2. PICK j \in DOMAIN q : t[m] = q[j]
      BY <2>4 DEF Range
    <3>3. t[n].priority > t[m].priority
      BY <2>4 DEF Range
    <3>4. i # j
      BY <1>1, <3>1, <3>2, <3>3
    <3> QED BY <3>1, <3>2, <3>3, <3>4 DEF Ahead
  <2>5. CASE /\ n - a \in DOMAIN s /\ t[n] = s[n - a]
             /\ m - a \in DOMAIN s /\ t[m] = s[m - a]
    <3>1. n - a < m - a
      BY <1>1, <2>1, <2>2
    <3> QED BY <2>5, <3>1 DEF Ranked
  <2>6. \/ n \in DOMAIN r
        \/ n - a \in DOMAIN s /\ t[n] = s[n - a]
    BY <1>4
  <2> QED BY <1>4, <1>5, <2>3, <2>4, <2>5, <2>6
<1>8. Range(t) = Range(r) \cup Range(s)
  BY <1>4, <1>5, <1>6 DEF Range
<1> QED BY <1>2, <1>7, <1>8 DEF t

(* sortQueue keeps the entries of the queue and ranks them. *)
LEMMA SortedSeq ==
    ASSUME NEW q \in Seq(QueuedAction)
    PROVE  /\ Sorted(q) \in Seq(QueuedAction)
           /\ Range(Sorted(q)) = Range(q)
           /\ Ranked(Sorted(q), q)
<1> DEFINE Of(p) == {i \in DOMAIN q : q[i].priority = p}
           L(p) == Selected(q, Of(p))
<1>1. \A i \in DOMAIN q : i \in Nat /\ q[i].priority \in Priorities
  <2>1. \A i \in DOMAIN q : i \in Nat /\ q[i] \in QueuedAction
    BY LenProperties
  <2> QED BY <2>1 DEF QueuedAction
<1>2. ASSUME NEW p
      PROVE  /\ L(p) \in Seq(QueuedAction)
             /\ Range(L(p)) = {e \in Range(q) : e.priority = p}
             /\ Ranked(L(p), q)
  <2>1. Of(p) \in SUBSET DOMAIN q
    OBVIOUS
  <2> HIDE DEF Of
  <2>2. /\ L(p) \in Seq(QueuedAction)
        /\ Part(L(p), q)
        /\ Range(L(p)) = {q[i] : i \in Of(p)}
    BY <2>1, SelectedSeq
  <2> HIDE DEF L
  <2>3. Range(L(p)) = {e \in Range(q) : e.priority = p}
    BY <2>2 DEF Of, Range
  <2>4. Ranked(L(p), q)
    <3>1. SUFFICES ASSUME NEW n \in DOMAIN L(p), NEW m \in DOMAIN L(p), n < m
                   PROVE  \E i, j \in DOMAIN q :
                             i # j /\ L(p)[n] = q[i] /\ L(p)[m] = q[j] /\ Ahead(q, i, j)
      BY DEF Ranked
    <3>2. PICK i \in DOMAIN q, j \in DOMAIN q : i < j /\ L(p)[n] = q[i] /\ L(p)[m] = q[j]
      BY <2>2, <3>1 DEF Part
    <3>3. q[i].priority = q[j].priority
      BY <2>3, <3>2 DEF Range
    <3>4. i # j
      BY <1>1, <3>2
    <3> QED BY <3>2, <3>3, <3>4 DEF Ahead
  <2> QED BY <2>2, <2>3, <2>4
<1> HIDE DEF L
<1> DEFINE high == L(RootThunkAction)
           middle == L(NormalThunkAction)
           low == L(NormalAction)
           upper == high \o middle
<1>3. \A e \in Range(q) : e.priority = 70 \/ e.priority = 50 \/ e.priority = 0
  BY <1>1 DEF Range, Priorities, RootThunkAction, NormalThunkAction, NormalAction
<1>4. /\ high \in Seq(QueuedAction) /\ Ranked(high, q)
      /\ Range(high) = {e \in Range(q) : e.priority = 70}
  BY <1>2 DEF RootThunkAction
<1>5. /\ middle \in Seq(QueuedAction) /\ Ranked(middle, q)
      /\ Range(middle) = {e \in Range(q) : e.priority = 50}
  BY <1>2 DEF NormalThunkAction
<1>6. /\ low \in Seq(QueuedAction) /\ Ranked(low, q)
      /\ Range(low) = {e \in Range(q) : e.priority = 0}
  BY <1>2 DEF NormalAction
<1>7. Sorted(q) = upper \o low
  BY DEF Sorted, L
<1> HIDE DEF high, middle, low
<1>8. /\ upper \in Seq(QueuedAction) /\ Ranked(upper, q)
      /\ Range(upper) = Range(high) \cup Range(middle)
  <2>1. \A d \in Range(high), e \in Range(middle) : d.priority > e.priority
    BY <1>4, <1>5
  <2>2. Range(high) \subseteq Range(q) /\ Range(middle) \subseteq Range(q)
    BY <1>4, <1>5
  <2> QED BY <1>4, <1>5, <2>1, <2>2, RankedJoined
<1> HIDE DEF upper
<1>9. /\ upper \o low \in Seq(QueuedAction) /\ Ranked(upper \o low, q)
      /\ Range(upper \o low) = Range(upper) \cup Range(low)
  <2>1. \A d \in Range(upper), e \in Range(low) : d.priority > e.priority
    BY <1>4, <1>5, <1>6, <1>8
  <2>2. Range(upper) \subseteq Range(q) /\ Range(low) \subseteq Range(q)
    BY <1>4, <1>5, <1>6, <1>8
  <2> QED BY <1>6, <1>8, <2>1, <2>2, RankedJoined
<1>10. Range(upper) \cup Range(low) = Range(q)
  BY <1>3, <1>4, <1>5, <1>6, <1>8
<1> QED BY <1>7, <1>9, <1>10
-----------------------------------------------------------------------------
(* The invariant *)

In(c, f) == \E i \in DOMAIN c : c[i] = f

Called(a) == In(calls, Execute(a))
Tasked(a) == In(tasks, a)

(* One action of a stream was dispatched before another. *)
Before(d, a, b) ==
    /\ SameStream(a, b)
    /\ \E i, j \in DOMAIN d : i < j /\ d[i] = a /\ d[j] = b

Earlier(a, b) == Before(dispatched, a, b)

DispatchedOnce ==
    \A i, j \in DOMAIN dispatched : dispatched[i] = dispatched[j] => i = j

(* Each action is in one place at most, and in none before its dispatch. *)
Apart ==
    \A a \in Actions :
       /\ a \in Queued => ~Called(a)
       /\ a \in Queued \/ Called(a) => ~Tasked(a)
       /\ a \in Queued \/ Called(a) \/ Tasked(a) => a \notin executor
       /\ a \in Queued \/ Called(a) \/ Tasked(a) \/ a \in executor => a \notin settled
       /\ a \in Queued \/ Called(a) \/ Tasked(a) \/ a \in executor \/ a \in settled =>
             a \in Dispatched /\ reports[a] = 0
       /\ reports[a] <= 1
       /\ reports[a] = 1 => a \in Dispatched

OneRunning ==
    /\ runningTasks = executor \cap Tasks
    /\ \A a, b \in runningTasks : a = b

(* The queue is processed before anything is executed, ... *)
QueueFirst == In(calls, ProcessQueue) => \A a \in Actions : ~Called(a)

(* ... and until then nothing in it can execute. *)
NothingEligible ==
    ~In(calls, ProcessQueue) => \A i \in DOMAIN queue : ~CanExecute(queue[i].action)

(* The priority an entry got is still that of its action, unless its thunk has
   ceased to be the root; it can only have become less. *)
PrioritiesFit ==
    /\ root \in begun \cup {None}
    /\ \A i \in DOMAIN queue :
          LET t == ThunkOf[queue[i].action]
          IN  /\ queue[i].priority = NormalAction <=> t = None
              /\ queue[i].priority = NormalThunkAction => t # root

QueueInOrder ==
    \A i, j \in DOMAIN queue :
       i < j => /\ queue[i].action # queue[j].action
                /\ ~Earlier(queue[j].action, queue[i].action)
                /\ Earlier(queue[i].action, queue[j].action) =>
                      queue[i].priority >= queue[j].priority

CallsInOrder ==
    \A i, j \in DOMAIN calls :
       i < j => /\ calls[i] = calls[j] => calls[i] = ProcessTasks
                /\ \A a, b \in Actions :
                      calls[i] = Execute(a) /\ calls[j] = Execute(b) => ~Earlier(b, a)

TasksInOrder ==
    \A i, j \in DOMAIN tasks :
       i < j => tasks[i] # tasks[j] /\ ~Earlier(tasks[j], tasks[i])

(* What is dispatched later is never at a later stage. *)
StagesInOrder ==
    \A a, b \in Actions :
       Earlier(a, b) => /\ Called(b) => a \notin Queued
                        /\ Tasked(b) => a \notin Queued /\ ~Called(a)

SchedulingInv ==
    /\ TypeOK
    /\ DispatchedOnce
    /\ Apart
    /\ OneRunning
    /\ QueueFirst
    /\ NothingEligible
    /\ PrioritiesFit
    /\ QueueInOrder
    /\ CallsInOrder
    /\ TasksInOrder
    /\ StagesInOrder
-----------------------------------------------------------------------------
(* Calls and tasks *)

LEMMA FramesDiffer ==
    /\ ProcessQueue \in Frames /\ ProcessTasks \in Frames /\ ProcessQueue # ProcessTasks
    /\ \A a \in Actions : Execute(a) \in Frames
    /\ \A a : Execute(a) # ProcessQueue /\ Execute(a) # ProcessTasks
    /\ \A a, b : Execute(a) = Execute(b) => a = b
<1>1. /\ \A a : Execute(a).op = "executeAction" /\ Execute(a).action = a
      /\ ProcessQueue.op = "processQueue"
      /\ ProcessTasks.op = "processTasks"
  BY DEF Execute, ProcessQueue, ProcessTasks
<1> QED BY <1>1 DEF Frames

LEMMA NothingIn == DOMAIN <<>> = {} /\ \A f : ~In(<<>>, f)
BY DEF In

LEMMA OnlyOne ==
    ASSUME NEW S, NEW f \in S
    PROVE  /\ <<f>> \in Seq(S)
           /\ DOMAIN <<f>> = {1} /\ <<f>>[1] = f
           /\ \A g : In(<<f>>, g) <=> g = f
BY DEF In

(* The head goes first, the tail keeps the order. *)
LEMMA Returned ==
    ASSUME NEW S, NEW c \in Seq(S), c # <<>>
    PROVE  /\ Tail(c) \in Seq(S)
           /\ Head(c) \in S
           /\ Part(Tail(c), c)
           /\ 1 \in DOMAIN c /\ c[1] = Head(c)
           /\ \A f : In(c, f) <=> f = Head(c) \/ In(Tail(c), f)
           /\ \A f : In(Tail(c), f) => \E j \in DOMAIN c : 1 < j /\ c[j] = f
<1>1. /\ Tail(c) \in Seq(S) /\ Head(c) \in S
      /\ Len(Tail(c)) = Len(c) - 1
      /\ \A i \in 1 .. Len(c) - 1 : Tail(c)[i] = c[i + 1]
      /\ Len(c) \in Nat /\ Len(c) >= 1
      /\ Head(c) = c[1]
  BY EmptySeq
<1> DEFINE d == Tail(c)
<1>2. DOMAIN c = 1 .. Len(c) /\ DOMAIN d = 1 .. Len(c) - 1
  BY <1>1
<1>3. /\ 1 \in DOMAIN c
      /\ \A n \in DOMAIN d : n + 1 \in DOMAIN c /\ 1 < n + 1 /\ d[n] = c[n + 1]
      /\ \A i \in DOMAIN c : i = 1 \/ (i - 1 \in DOMAIN d /\ d[i - 1] = c[i])
      /\ \A n, m \in DOMAIN d : n < m => n + 1 < m + 1
  BY <1>1, <1>2
<1> HIDE DEF d
<1>4. Part(d, c)
  BY <1>3 DEF Part
<1>5. \A f : In(c, f) <=> f = Head(c) \/ In(d, f)
  BY <1>1, <1>3 DEF In
<1>6. \A f : In(d, f) => \E j \in DOMAIN c : 1 < j /\ c[j] = f
  BY <1>3 DEF In
<1> QED BY <1>1, <1>3, <1>4, <1>5, <1>6 DEF d

LEMMA Pushed ==
    ASSUME NEW S, NEW c \in Seq(S), NEW f \in S
    PROVE  /\ <<f>> \o c \in Seq(S)
           /\ \A g : In(<<f>> \o c, g) <=> g = f \/ In(c, g)
           /\ \A n, m \in DOMAIN (<<f>> \o c) :
                 n < m => \/ (<<f>> \o c)[n] = f
                          \/ \E i, j \in DOMAIN c : /\ i < j
                                                    /\ (<<f>> \o c)[n] = c[i]
                                                    /\ (<<f>> \o c)[m] = c[j]
<1> DEFINE d == <<f>> \o c
<1>1. /\ d \in Seq(S)
      /\ Len(d) = Len(c) + 1
      /\ d[1] = f
      /\ \A i \in 1 .. Len(c) : d[i + 1] = c[i]
      /\ Len(c) \in Nat
  OBVIOUS
<1>2. /\ 1 \in DOMAIN d /\ d[1] = f
      /\ \A i \in DOMAIN c : i + 1 \in DOMAIN d /\ d[i + 1] = c[i]
      /\ \A i \in DOMAIN d : i # 1 => i - 1 \in DOMAIN c /\ d[i] = c[i - 1]
      /\ \A i, j \in DOMAIN d : i < j => j # 1 /\ i - 1 < j - 1
  BY <1>1
<1> HIDE DEF d
<1>3. \A g : In(d, g) <=> g = f \/ In(c, g)
  <2>1. TAKE g
  <2>2. In(d, g) => g = f \/ In(c, g)
    BY <1>2 DEF In
  <2>3. In(c, g) => In(d, g)
    BY <1>2 DEF In
  <2>4. In(d, f)
    BY <1>2 DEF In
  <2> QED BY <2>2, <2>3, <2>4
<1>4. \A n, m \in DOMAIN d :
         n < m => \/ d[n] = f
                  \/ \E i, j \in DOMAIN c : i < j /\ d[n] = c[i] /\ d[m] = c[j]
  BY <1>2
<1> QED BY <1>1, <1>3, <1>4 DEF d

LEMMA Appended ==
    ASSUME NEW S, NEW c \in Seq(S), NEW e \in S
    PROVE  /\ Append(c, e) \in Seq(S)
           /\ Range(Append(c, e)) = Range(c) \cup {e}
           /\ \A g : In(Append(c, e), g) <=> g = e \/ In(c, g)
           /\ \A n, m \in DOMAIN Append(c, e) :
                 n < m => /\ n \in DOMAIN c /\ Append(c, e)[n] = c[n]
                          /\ \/ m \in DOMAIN c /\ Append(c, e)[m] = c[m]
                             \/ Append(c, e)[m] = e
           /\ \A n \in DOMAIN c : n \in DOMAIN Append(c, e) /\ Append(c, e)[n] = c[n]
           /\ \E m \in DOMAIN Append(c, e) :
                 Append(c, e)[m] = e /\ \A n \in DOMAIN c : n < m
<1> DEFINE d == Append(c, e)
<1>1. /\ d \in Seq(S) /\ Len(c) \in Nat
      /\ Len(d) = Len(c) + 1
      /\ \A i \in 1 .. Len(c) : d[i] = c[i]
      /\ d[Len(c) + 1] = e
  BY AppendProperties
<1>2. DOMAIN c = 1 .. Len(c) /\ DOMAIN d = 1 .. Len(c) + 1
  BY <1>1
<1> HIDE DEF d
<1>3. /\ \A n \in DOMAIN d : \/ n \in DOMAIN c /\ d[n] = c[n]
                             \/ n = Len(c) + 1 /\ d[n] = e
      /\ \A n \in DOMAIN c : n \in DOMAIN d /\ d[n] = c[n] /\ n < Len(c) + 1
      /\ Len(c) + 1 \in DOMAIN d
  <2>1. \A k \in Nat :
           /\ \A n \in 1 .. k + 1 : n \in 1 .. k \/ n = k + 1
           /\ \A n \in 1 .. k : n \in 1 .. k + 1 /\ n < k + 1
           /\ k + 1 \in 1 .. k + 1
    OBVIOUS
  <2>2. ASSUME NEW n \in DOMAIN d
        PROVE  \/ n \in DOMAIN c /\ d[n] = c[n]
               \/ n = Len(c) + 1 /\ d[n] = e
    <3>1. CASE n \in 1 .. Len(c)
      BY <1>1, <1>2, <3>1
    <3>2. CASE n = Len(c) + 1
      BY <1>1, <3>2
    <3> QED BY <1>1, <1>2, <2>1, <3>1, <3>2
  <2>3. \A n \in DOMAIN c : n \in DOMAIN d /\ d[n] = c[n] /\ n < Len(c) + 1
    BY <1>1, <1>2, <2>1
  <2>4. Len(c) + 1 \in DOMAIN d
    BY <1>1, <1>2, <2>1
  <2> QED BY <2>2, <2>3, <2>4, Zenon
<1>4. Range(d) = Range(c) \cup {e}
  BY <1>1, <1>3 DEF Range
<1>5. \A g : In(d, g) <=> g = e \/ In(c, g)
  BY <1>1, <1>3 DEF In
<1>6. \A n, m \in DOMAIN d : n < m => n # Len(c) + 1
  BY <1>1, <1>2
<1> QED BY <1>1, <1>3, <1>4, <1>5, <1>6 DEF d
-----------------------------------------------------------------------------
(* Streams and the order of dispatch *)

LEMMA StreamsAgree ==
    ASSUME NEW a \in Actions, NEW b \in Actions, SameStream(a, b)
    PROVE  /\ ThunkOf[a] = ThunkOf[b]
           /\ a \in Tasks <=> b \in Tasks
           /\ CanExecute(a) <=> CanExecute(b)
<1>1. /\ ThunkOf[a] = ThunkOf[b]
      /\ a \notin ImmediateActions /\ b \notin ImmediateActions
      /\ a \in Tasks <=> b \in Tasks
  BY DEF SameStream, Plain, Tasks
<1> QED BY <1>1 DEF CanExecute

LEMMA EarlierFacts ==
    ASSUME TypeOK, DispatchedOnce
    PROVE  \A a, b \in Actions :
              Earlier(a, b) => /\ SameStream(a, b)
                               /\ a \in Dispatched /\ b \in Dispatched
                               /\ ~Earlier(b, a)
<1>1. dispatched \in Seq(Actions) /\ \A i \in DOMAIN dispatched : i \in Nat
  BY LenProperties DEF TypeOK
<1>2. SUFFICES ASSUME NEW a \in Actions, NEW b \in Actions, Earlier(a, b)
               PROVE  /\ SameStream(a, b)
                      /\ a \in Dispatched /\ b \in Dispatched
                      /\ ~Earlier(b, a)
  OBVIOUS
<1>3. PICK i \in DOMAIN dispatched, j \in DOMAIN dispatched :
         i < j /\ dispatched[i] = a /\ dispatched[j] = b
  BY <1>2 DEF Earlier, Before
<1>4. ASSUME Earlier(b, a) PROVE FALSE
  <2>1. PICK k \in DOMAIN dispatched, l \in DOMAIN dispatched :
           k < l /\ dispatched[k] = b /\ dispatched[l] = a
    BY <1>4 DEF Earlier, Before
  <2>2. k = j /\ l = i
    BY <1>3, <2>1 DEF DispatchedOnce
  <2> QED BY <1>1, <1>3, <2>1, <2>2
<1> QED BY <1>2, <1>3, <1>4 DEF Earlier, Before, Dispatched

(* An action that arrives is the last of its stream. *)
LEMMA NewlyDispatched ==
    ASSUME TypeOK, DispatchedOnce, NEW a \in Actions, Arrives(a)
    PROVE  /\ dispatched' \in Seq(Actions)
           /\ DispatchedOnce'
           /\ Dispatched' = Dispatched \cup {a}
           /\ a \notin Dispatched
           /\ \A x, y \in Actions :
                 Earlier(x, y)' <=> \/ Earlier(x, y)
                                    \/ y = a /\ x \in Dispatched /\ SameStream(x, a)
           /\ \A x \in Actions : ~Earlier(a, x)'
<1> DEFINE d == dispatched'
<1>1. /\ dispatched \in Seq(Actions) /\ d = Append(dispatched, a) /\ a \notin Dispatched
      /\ \A i \in DOMAIN dispatched : i \in Nat
  BY LenProperties DEF TypeOK, Arrives
<1>2. /\ d \in Seq(Actions)
      /\ Range(d) = Range(dispatched) \cup {a}
      /\ \A n, m \in DOMAIN d :
            n < m => /\ n \in DOMAIN dispatched /\ d[n] = dispatched[n]
                     /\ \/ m \in DOMAIN dispatched /\ d[m] = dispatched[m]
                        \/ d[m] = a
      /\ \A n \in DOMAIN dispatched : n \in DOMAIN d /\ d[n] = dispatched[n]
      /\ \E m \in DOMAIN d : d[m] = a /\ \A n \in DOMAIN dispatched : n < m
  BY <1>1, Appended
<1>3. \A i \in DOMAIN d : i \in Nat
  BY <1>2, LenProperties
<1>4. \A i \in DOMAIN dispatched : dispatched[i] # a
  BY <1>1 DEF Dispatched
<1> HIDE DEF d
<1>5. \A i, j \in DOMAIN d : d[i] = d[j] => i = j
  <2>1. SUFFICES ASSUME NEW i \in DOMAIN d, NEW j \in DOMAIN d, i < j
                 PROVE  d[i] # d[j]
    BY <1>3
  <2>2. i \in DOMAIN dispatched /\ d[i] = dispatched[i]
    BY <1>2, <2>1
  <2>3. CASE d[j] = a
    BY <1>4, <2>2, <2>3
  <2>4. CASE j \in DOMAIN dispatched /\ d[j] = dispatched[j]
    BY <1>1, <2>1, <2>2, <2>4 DEF DispatchedOnce
  <2> QED BY <1>2, <2>1, <2>3, <2>4
<1>6. DispatchedOnce'
  BY <1>5 DEF DispatchedOnce, d
<1>7. Dispatched' = Dispatched \cup {a}
  BY <1>2 DEF Dispatched, Range, d
<1>8. ASSUME NEW x \in Actions, NEW y \in Actions
      PROVE  (\E i, j \in DOMAIN d : i < j /\ d[i] = x /\ d[j] = y)
                <=> \/ \E i, j \in DOMAIN dispatched :
                          i < j /\ dispatched[i] = x /\ dispatched[j] = y
                    \/ y = a /\ x \in Dispatched
  <2>1. ASSUME NEW i \in DOMAIN d, NEW j \in DOMAIN d, i < j, d[i] = x, d[j] = y
        PROVE  \/ \E k, l \in DOMAIN dispatched :
                     k < l /\ dispatched[k] = x /\ dispatched[l] = y
               \/ y = a /\ x \in Dispatched
    BY <1>2, <2>1 DEF Dispatched
  <2>2. ASSUME NEW i \in DOMAIN dispatched, NEW j \in DOMAIN dispatched,
               i < j, dispatched[i] = x, dispatched[j] = y
        PROVE  \E k, l \in DOMAIN d : k < l /\ d[k] = x /\ d[l] = y
    BY <1>2, <2>2
  <2>3. ASSUME y = a, x \in Dispatched
        PROVE  \E k, l \in DOMAIN d : k < l /\ d[k] = x /\ d[l] = y
    BY <1>2, <2>3 DEF Dispatched
  <2> QED BY <2>1, <2>2, <2>3
<1>9. \A x, y \in Actions :
         Earlier(x, y)' <=> \/ Earlier(x, y)
                            \/ y = a /\ x \in Dispatched /\ SameStream(x, a)
  BY <1>8 DEF Earlier, Before, d
<1>10. \A x \in Actions : ~Earlier(a, x)'
  <2>1. \A x \in Actions : ~Earlier(a, x)
    BY <1>1, EarlierFacts
  <2> QED BY <1>1, <1>9, <2>1
<1> QED BY <1>1, <1>2, <1>6, <1>7, <1>9, <1>10 DEF d
-----------------------------------------------------------------------------
(* An action is enqueued *)

(* With no call pending, nothing is called. *)
LEMMA IdleCalls ==
    ASSUME calls = <<>>
    PROVE  DOMAIN calls = {} /\ \A f : ~In(calls, f)
BY NothingIn

LEMMA QueueEntries ==
    ASSUME TypeOK
    PROVE  \A i \in DOMAIN queue :
              /\ i \in Nat
              /\ queue[i] \in QueuedAction
              /\ queue[i].action \in Actions /\ queue[i].action \in Queued
              /\ queue[i].priority \in Nat
<1>1. \A i \in DOMAIN queue : i \in Nat /\ queue[i] \in QueuedAction
  BY LenProperties DEF TypeOK
<1>2. \A e \in QueuedAction : e.action \in Actions /\ e.priority \in Nat
  BY DEF QueuedAction, Priorities, RootThunkAction, NormalThunkAction, NormalAction
<1> QED BY <1>1, <1>2 DEF Queued

LEMMA TaskEntries ==
    ASSUME TypeOK
    PROVE  /\ \A i \in DOMAIN tasks :
                 i \in Nat /\ tasks[i] \in Tasks /\ tasks[i] \in Actions /\ Tasked(tasks[i])
           /\ \A a : Tasked(a) => a \in Tasks
<1>1. \A i \in DOMAIN tasks : i \in Nat /\ tasks[i] \in Tasks
  BY LenProperties DEF TypeOK
<1>2. Tasks \subseteq Actions
  BY DEF Tasks
<1> QED BY <1>1, <1>2 DEF Tasked, In

LEMMA EnqueueAndExecuteInv ==
    ASSUME SchedulingInv, NEW a \in Actions, EnqueueAndExecute(a)
    PROVE  SchedulingInv'
<1>1. /\ Arrives(a) /\ CanExecute(a) /\ calls = <<>> /\ calls' = <<Execute(a)>>
      /\ UNCHANGED <<executing, root, known, begun, queue, running, tasks, runningTasks,
                     executor, settled, reports>>
  BY DEF EnqueueAndExecute, Arrives, Idle, gate, scheduler, taskScheduler
<1>2. /\ TypeOK /\ DispatchedOnce /\ Apart /\ OneRunning /\ NothingEligible /\ PrioritiesFit
      /\ QueueInOrder /\ TasksInOrder /\ StagesInOrder
  BY DEF SchedulingInv
<1>3. /\ dispatched' \in Seq(Actions) /\ DispatchedOnce'
      /\ Dispatched' = Dispatched \cup {a} /\ a \notin Dispatched
      /\ \A x, y \in Actions :
            Earlier(x, y)' <=> \/ Earlier(x, y)
                               \/ y = a /\ x \in Dispatched /\ SameStream(x, a)
      /\ \A x \in Actions : ~Earlier(a, x)'
  BY <1>1, <1>2, NewlyDispatched
<1>4. /\ calls' \in Seq(Frames) /\ DOMAIN calls' = {1} /\ \A g : In(calls, g)' <=> g = Execute(a)
  BY <1>1, OnlyOne, FramesDiffer DEF In
<1>5. /\ \A x \in Actions : Called(x)' <=> x = a
      /\ ~In(calls, ProcessQueue)'
      /\ \A x \in Actions : ~Called(x)
      /\ ~In(calls, ProcessQueue)
  BY <1>1, <1>4, IdleCalls, FramesDiffer DEF Called
<1>6. /\ Queued' = Queued
      /\ \A x \in Actions : (Tasked(x)' <=> Tasked(x)) /\ (CanExecute(x)' <=> CanExecute(x))
  BY <1>1 DEF Queued, Tasked, In, CanExecute, HasActiveThunk
<1>7. TypeOK'
  BY <1>1, <1>2, <1>3, <1>4 DEF TypeOK, Gate!TypeOK
<1>8. /\ a \notin Queued /\ ~Tasked(a) /\ a \notin executor /\ a \notin settled /\ reports[a] = 0
  BY <1>2, <1>3 DEF Apart, TypeOK
<1>9. Apart'
  BY <1>1, <1>2, <1>3, <1>5, <1>6, <1>8 DEF Apart
<1>10. OneRunning' /\ PrioritiesFit' /\ QueueFirst'
  BY <1>1, <1>2, <1>5 DEF OneRunning, PrioritiesFit, QueueFirst
<1>11. \A i \in DOMAIN queue : queue[i].action \in Actions /\ queue[i].action \in Queued
  BY <1>2, QueueEntries
<1>12. NothingEligible'
  BY <1>1, <1>2, <1>5, <1>6, <1>11 DEF NothingEligible
<1>13. QueueInOrder'
  BY <1>1, <1>2, <1>3, <1>8, <1>11 DEF QueueInOrder
<1>14. CallsInOrder'
  <2>1. \A i, j \in DOMAIN calls' : ~(i < j)
    BY <1>4
  <2> QED BY <2>1 DEF CallsInOrder
<1>15. \A i \in DOMAIN tasks : tasks[i] \in Actions /\ Tasked(tasks[i])
  BY <1>2, TaskEntries
<1>16. TasksInOrder'
  BY <1>1, <1>2, <1>3, <1>8, <1>15 DEF TasksInOrder
<1>17. StagesInOrder'
  <2>1. SUFFICES ASSUME NEW x \in Actions, NEW y \in Actions, Earlier(x, y)'
                 PROVE  /\ Called(y)' => x \notin Queued
                        /\ Tasked(y) => x \notin Queued /\ ~Called(x)'
    BY <1>6 DEF StagesInOrder
  <2>2. x # a
    BY <1>3, <2>1
  <2>3. CASE y = a
    <3>1. SameStream(x, a)
      BY <1>2, <1>3, <2>1, <2>3, EarlierFacts
    <3>2. CanExecute(x)
      BY <1>1, <3>1, StreamsAgree
    <3>3. x \notin Queued
      BY <1>2, <1>5, <3>2 DEF NothingEligible, Queued
    <3> QED BY <1>8, <2>3, <3>3
  <2>4. CASE y # a
    BY <1>2, <1>3, <1>5, <2>1, <2>2, <2>4 DEF StagesInOrder
  <2> QED BY <2>3, <2>4
<1> QED BY <1>3, <1>7, <1>9, <1>10, <1>12, <1>13, <1>14, <1>16, <1>17 DEF SchedulingInv

(* The queue with a new entry, before anything is dropped. *)
LEMMA Added ==
    ASSUME SchedulingInv, NEW a \in Actions, Arrives(a), ~CanExecute(a),
           UNCHANGED <<executing, root, known, begun, tasks, runningTasks, executor, calls>>
    PROVE  /\ Add(a) \in Seq(QueuedAction)
           /\ Range(Add(a)) = Range(queue) \cup {[action |-> a, priority |-> PriorityOf(a)]}
           /\ \A n, m \in DOMAIN Add(a) :
                 n < m => /\ Add(a)[n].action # Add(a)[m].action
                          /\ ~Before(dispatched', Add(a)[m].action, Add(a)[n].action)
                          /\ Before(dispatched', Add(a)[n].action, Add(a)[m].action) =>
                                Add(a)[n].priority >= Add(a)[m].priority
           /\ \A n \in DOMAIN Add(a) :
                 LET e == Add(a)[n]
                     t == ThunkOf[e.action]
                 IN  /\ e.priority = NormalAction <=> t = None
                     /\ e.priority = NormalThunkAction => t # root
                     /\ ~CanExecute(e.action)
<1> DEFINE new == [action |-> a, priority |-> PriorityOf(a)]
           q == Add(a)
<1>1. /\ TypeOK /\ DispatchedOnce /\ Apart /\ NothingEligible /\ PrioritiesFit /\ QueueInOrder
      /\ calls = <<>>
  BY DEF SchedulingInv, Arrives, Idle
<1>2. /\ a \notin Dispatched
      /\ \A x, y \in Actions :
            Before(dispatched', x, y) <=> \/ Earlier(x, y)
                                          \/ y = a /\ x \in Dispatched /\ SameStream(x, a)
      /\ \A x \in Actions : ~Before(dispatched', a, x)
  BY <1>1, NewlyDispatched DEF Earlier
<1>3. /\ new \in QueuedAction /\ new.action = a /\ new.priority = PriorityOf(a)
      /\ new.priority = NormalAction <=> ThunkOf[a] = None
      /\ new.priority = NormalThunkAction => ThunkOf[a] # root
      /\ new.priority = RootThunkAction => ThunkOf[a] = root
      /\ PriorityOf(a) \in Priorities
  BY DEF PriorityOf, QueuedAction, Priorities, RootThunkAction, NormalThunkAction, NormalAction
<1> HIDE DEF new
<1>4. /\ q \in Seq(QueuedAction)
      /\ Range(q) = Range(queue) \cup {new}
      /\ \A n, m \in DOMAIN q :
            n < m => /\ n \in DOMAIN queue /\ q[n] = queue[n]
                     /\ (m \in DOMAIN queue /\ q[m] = queue[m]) \/ q[m] = new
  <2>1. q = Append(queue, new) /\ queue \in Seq(QueuedAction)
    BY <1>1 DEF TypeOK, Add, new
  <2> HIDE DEF q
  <2> QED BY <1>3, <2>1, Appended
<1>5. \A n \in DOMAIN q : q[n] = new \/ \E i \in DOMAIN queue : q[n] = queue[i]
  BY <1>4 DEF Range
<1> HIDE DEF q
<1>6. \A i \in DOMAIN queue :
         /\ queue[i].action \in Actions /\ queue[i].action \in Dispatched
         /\ queue[i].action # a
         /\ queue[i].priority \in Priorities
  BY <1>1, <1>2, QueueEntries DEF Apart, QueuedAction
<1>7. ASSUME NEW n \in DOMAIN q, NEW m \in DOMAIN q, n < m
      PROVE  /\ q[n].action # q[m].action
             /\ ~Before(dispatched', q[m].action, q[n].action)
             /\ Before(dispatched', q[n].action, q[m].action) => q[n].priority >= q[m].priority
  <2>1. n \in DOMAIN queue /\ q[n] = queue[n]
    BY <1>4, <1>7
  <2>2. CASE m \in DOMAIN queue /\ q[m] = queue[m]
    BY <1>1, <1>2, <1>6, <1>7, <2>1, <2>2 DEF QueueInOrder
  <2>3. CASE q[m] = new
    <3>1. q[n].action # q[m].action /\ ~Before(dispatched', q[m].action, q[n].action)
      BY <1>2, <1>3, <1>6, <2>1, <2>3
    <3>2. ASSUME Before(dispatched', q[n].action, q[m].action) PROVE q[n].priority >= q[m].priority
      <4>1. SameStream(queue[n].action, a)
        BY <1>1, <1>2, <1>3, <1>6, <2>1, <2>3, <3>2, EarlierFacts
      <4>2. ThunkOf[queue[n].action] = ThunkOf[a]
        BY <1>6, <2>1, <4>1, StreamsAgree
      <4>3. /\ queue[n].priority = NormalAction <=> new.priority = NormalAction
            /\ queue[n].priority = NormalThunkAction => new.priority # RootThunkAction
        BY <1>1, <1>3, <2>1, <4>2 DEF PrioritiesFit
      <4> QED BY <1>3, <1>6, <2>1, <2>3, <4>3 DEF Priorities, RootThunkAction, NormalThunkAction,
                NormalAction
    <3> QED BY <3>1, <3>2
  <2> QED BY <1>4, <1>7, <2>2, <2>3
<1>8. ~In(calls, ProcessQueue)
  BY <1>1, IdleCalls
<1>9. ASSUME NEW n \in DOMAIN q
      PROVE  LET t == ThunkOf[q[n].action]
             IN  /\ q[n].priority = NormalAction <=> t = None
                 /\ q[n].priority = NormalThunkAction => t # root
                 /\ ~CanExecute(q[n].action)
  <2>1. CASE q[n] = new
    BY <1>3, <2>1
  <2>2. ASSUME NEW i \in DOMAIN queue, q[n] = queue[i]
        PROVE  LET t == ThunkOf[q[n].action]
               IN  /\ q[n].priority = NormalAction <=> t = None
                   /\ q[n].priority = NormalThunkAction => t # root
                   /\ ~CanExecute(q[n].action)
    BY <1>1, <1>8, <2>2 DEF PrioritiesFit, NothingEligible
  <2> QED BY <1>5, <2>1, <2>2
<1> QED BY <1>4, <1>7, <1>9 DEF q, new

(* Part of that queue is left, and perhaps one action reported: what both
   forms of enqueueing an action that must wait come to. *)
LEMMA WaitingInv ==
    ASSUME SchedulingInv, NEW a \in Actions, Arrives(a), ~CanExecute(a),
           UNCHANGED <<executing, root, known, begun, running, tasks, runningTasks,
                       executor, settled, calls>>,
           queue' \in Seq(QueuedAction), Part(queue', Add(a)),
           NEW told \in SUBSET (Queued \cup {a}), Report(told),
           \A i \in DOMAIN queue' : queue'[i].action \notin told
    PROVE  SchedulingInv'
<1>1. /\ TypeOK /\ DispatchedOnce /\ Apart /\ OneRunning /\ NothingEligible /\ PrioritiesFit
      /\ TasksInOrder /\ StagesInOrder /\ calls = <<>>
  BY DEF SchedulingInv, Arrives, Idle
<1>2. /\ dispatched' \in Seq(Actions) /\ DispatchedOnce'
      /\ Dispatched' = Dispatched \cup {a} /\ a \notin Dispatched
      /\ \A x, y \in Actions :
            Earlier(x, y)' <=> \/ Earlier(x, y)
                               \/ y = a /\ x \in Dispatched /\ SameStream(x, a)
      /\ \A x \in Actions : ~Earlier(a, x)'
  BY <1>1, NewlyDispatched
<1>3. DOMAIN calls' = {} /\ \A f : ~In(calls, f) /\ ~In(calls, f)'
  BY <1>1, IdleCalls DEF In
<1>4. \A x \in Actions : /\ Tasked(x)' <=> Tasked(x)
                         /\ CanExecute(x)' <=> CanExecute(x)
  BY DEF Tasked, In, CanExecute, HasActiveThunk
<1> DEFINE q == Add(a)
<1>5. /\ q \in Seq(QueuedAction)
      /\ Range(q) = Range(queue) \cup {[action |-> a, priority |-> PriorityOf(a)]}
      /\ \A n, m \in DOMAIN q :
            n < m => /\ q[n].action # q[m].action
                     /\ ~Before(dispatched', q[m].action, q[n].action)
                     /\ Before(dispatched', q[n].action, q[m].action) =>
                           q[n].priority >= q[m].priority
      /\ \A n \in DOMAIN q :
            LET e == q[n]
                t == ThunkOf[e.action]
            IN  /\ e.priority = NormalAction <=> t = None
                /\ e.priority = NormalThunkAction => t # root
                /\ ~CanExecute(e.action)
  BY <1>1, Added
<1> HIDE DEF q
<1>6. \A n \in DOMAIN q : q[n].action \in Queued \cup {a}
  <2>1. \A e \in Range(q) : e.action \in Queued \cup {a}
    BY <1>5 DEF Range, Queued
  <2> QED BY <2>1 DEF Range
<1>13. \A i \in DOMAIN queue' : \E n \in DOMAIN q : queue'[i] = q[n]
  BY DEF Part, q
<1>7. Queued' \subseteq (Queued \cup {a}) \ told
  <2>1. \A i \in DOMAIN queue' : queue'[i].action \in (Queued \cup {a}) \ told
    BY <1>6, <1>13
  <2> QED BY <2>1 DEF Queued
<1>8. /\ a \notin Queued /\ ~Tasked(a) /\ a \notin executor /\ a \notin settled /\ reports[a] = 0
  BY <1>1, <1>2 DEF Apart, TypeOK
<1>9. /\ reports' \in [Actions -> Nat]
      /\ \A x \in Actions : \/ x \in told /\ reports[x] = 0 /\ reports'[x] = 1
                            \/ x \notin told /\ reports'[x] = reports[x]
  <2>1. Queued \subseteq Actions
    BY <1>1, QueueEntries DEF Queued
  <2>2. \A x \in told : reports[x] = 0
    BY <1>1, <1>8, <2>1 DEF Apart
  <2>3. /\ reports \in [Actions -> Nat]
        /\ reports' = [x \in Actions |-> IF x \in told THEN reports[x] + 1 ELSE reports[x]]
    BY <1>1 DEF Report, TypeOK
  <2>4. reports' \in [Actions -> Nat]
    <3>1. \A x \in Actions : reports[x] \in Nat
      BY <2>3
    <3>2. \A x \in Actions : reports[x] + 1 \in Nat
      BY <3>1
    <3> QED BY <2>3, <3>1, <3>2
  <2>5. \A x \in Actions : \/ x \in told /\ reports[x] = 0 /\ reports'[x] = 1
                           \/ x \notin told /\ reports'[x] = reports[x]
    <3>1. \A x \in Actions : reports'[x] = IF x \in told THEN reports[x] + 1 ELSE reports[x]
      BY <2>3
    <3> QED BY <2>2, <3>1
  <2> QED BY <2>4, <2>5
<1>10. TypeOK'
  BY <1>1, <1>2, <1>9 DEF TypeOK, Gate!TypeOK
<1>11. Apart'
  <2>1. SUFFICES ASSUME NEW x \in Actions
        PROVE  /\ x \in Queued' \/ Tasked(x) => x \notin executor
               /\ x \in Queued' => ~Tasked(x)
               /\ x \in Queued' \/ Tasked(x) \/ x \in executor => x \notin settled
               /\ x \in Queued' \/ Tasked(x) \/ x \in executor \/ x \in settled =>
                     x \in Dispatched' /\ reports'[x] = 0
               /\ reports'[x] <= 1
               /\ reports'[x] = 1 => x \in Dispatched'
    BY <1>3, <1>4 DEF Apart, Called
  <2>2. CASE x = a
    <3>1. /\ a \in Queued' => a \notin told
          /\ a \in told => reports'[a] = 1
          /\ a \notin told => reports'[a] = 0
          /\ reports'[a] = 0 \/ reports'[a] = 1
      BY <1>7, <1>8, <1>9
    <3>2. /\ a \in Queued' \/ Tasked(a) \/ a \in executor \/ a \in settled => reports'[a] = 0
          /\ reports'[a] <= 1
          /\ a \in Dispatched'
      BY <1>2, <1>8, <3>1
    <3> QED BY <1>8, <2>2, <3>2
  <2>3. CASE x # a
    <3>1. x \in Queued' => x \in Queued /\ x \notin told
      BY <1>7, <2>3
    <3>2. x \in told => x \in Queued
      BY <2>3
    <3>3. /\ x \in Queued \/ Tasked(x) => x \notin executor
          /\ x \in Queued => ~Tasked(x)
          /\ x \in Queued \/ Tasked(x) \/ x \in executor => x \notin settled
          /\ x \in Queued \/ Tasked(x) \/ x \in executor \/ x \in settled =>
                x \in Dispatched /\ reports[x] = 0
          /\ reports[x] <= 1
          /\ reports[x] = 1 => x \in Dispatched
      BY <1>1 DEF Apart
    <3>4. CASE x \in told
      <4>1. x \in Queued /\ x \notin Queued' /\ reports'[x] = 1 /\ x \in Dispatched'
        BY <1>2, <1>9, <3>1, <3>2, <3>3, <3>4
      <4> QED BY <3>3, <4>1
    <3>5. CASE x \notin told
      <4>1. reports'[x] = reports[x] /\ (x \in Dispatched => x \in Dispatched')
        BY <1>2, <1>9, <3>5
      <4> QED BY <3>1, <3>3, <4>1
    <3> QED BY <3>4, <3>5
  <2> QED BY <2>2, <2>3
<1>12. OneRunning' /\ QueueFirst'
  BY <1>1, <1>3 DEF OneRunning, QueueFirst, Called
<1>14. NothingEligible'
  <2>1. SUFFICES ASSUME NEW i \in DOMAIN queue' PROVE (~CanExecute(queue[i].action))'
    BY DEF NothingEligible
  <2>2. PICK n \in DOMAIN q : queue'[i] = q[n]
    BY <1>13
  <2>3. ~CanExecute(q[n].action)
    BY <1>5
  <2> QED BY <2>2, <2>3 DEF CanExecute, HasActiveThunk
<1>15. PrioritiesFit'
  <2>1. root' \in begun' \cup {None}
    BY <1>1 DEF PrioritiesFit
  <2>2. SUFFICES ASSUME NEW i \in DOMAIN queue'
                 PROVE  LET t == ThunkOf[queue'[i].action]
                        IN  /\ queue'[i].priority = NormalAction <=> t = None
                            /\ queue'[i].priority = NormalThunkAction => t # root'
    BY <2>1 DEF PrioritiesFit
  <2> QED BY <1>5, <1>13
<1>16. QueueInOrder'
  <2>1. SUFFICES ASSUME NEW i \in DOMAIN queue', NEW j \in DOMAIN queue', i < j
                 PROVE  /\ queue'[i].action # queue'[j].action
                        /\ ~Before(dispatched', queue'[j].action, queue'[i].action)
                        /\ Before(dispatched', queue'[i].action, queue'[j].action) =>
                              queue'[i].priority >= queue'[j].priority
    BY DEF QueueInOrder, Earlier
  <2>2. PICK n \in DOMAIN q, m \in DOMAIN q : n < m /\ queue'[i] = q[n] /\ queue'[j] = q[m]
    BY <2>1 DEF Part, q
  <2> QED BY <1>5, <2>2
<1>17. CallsInOrder'
  BY <1>3 DEF CallsInOrder
<1>18. TasksInOrder'
  BY <1>1, <1>2, <1>8, TaskEntries DEF TasksInOrder
<1>19. StagesInOrder'
  <2>1. SUFFICES ASSUME NEW x \in Actions, NEW y \in Actions, Earlier(x, y)', Tasked(y)
                 PROVE  x \notin Queued'
    BY <1>3, <1>4 DEF StagesInOrder, Called
  <2>2. x # a /\ y # a
    BY <1>2, <1>8, <2>1
  <2>3. x \notin Queued
    BY <1>1, <1>2, <2>1, <2>2 DEF StagesInOrder
  <2> QED BY <1>7, <2>2, <2>3
<1> QED BY <1>2, <1>10, <1>11, <1>12, <1>14, <1>15, <1>16, <1>17, <1>18, <1>19 DEF SchedulingInv

LEMMA PartOfItself ==
    ASSUME NEW s
    PROVE  Part(s, s)
BY DEF Part

LEMMA EnqueueAndWaitInv ==
    ASSUME SchedulingInv, NEW a \in Actions, EnqueueAndWait(a)
    PROVE  SchedulingInv'
<1>1. /\ Arrives(a) /\ ~CanExecute(a) /\ queue' = Add(a)
      /\ UNCHANGED <<executing, root, known, begun, running, tasks, runningTasks, executor,
                     settled, reports, calls>>
  BY DEF EnqueueAndWait, gate, taskScheduler
<1>2. Add(a) \in Seq(QueuedAction) /\ TypeOK
  BY <1>1, Added DEF SchedulingInv
<1>3. Report({})
  BY <1>1, <1>2 DEF Report, TypeOK
<1>4. Part(queue', Add(a)) /\ {} \in SUBSET (Queued \cup {a})
  BY <1>1, PartOfItself
<1> QED BY <1>1, <1>2, <1>3, <1>4, WaitingInv

(* The oldest of some positions is one of them. *)
LEMMA OldestIn ==
    ASSUME NEW is \in SUBSET Nat, is # {}
    PROVE  Oldest(is) \in is
<1>1. PICK i \in is : \A j \in is : <<j, i>> \notin OpToRel(<, Nat)
  BY NatLessThanWellFounded, WFMin
<1>2. \A j \in is : i <= j
  <2>1. TAKE j \in is
  <2>2. <<j, i>> \in Nat \X Nat /\ ~(j < i)
    BY <1>1 DEF OpToRel
  <2> QED BY <2>2
<1> QED BY <1>2 DEF Oldest

LEMMA EnqueueAndOverflowInv ==
    ASSUME SchedulingInv, NEW a \in Actions, EnqueueAndOverflow(a)
    PROVE  SchedulingInv'
<1>1. /\ Arrives(a) /\ ~CanExecute(a) /\ Len(queue) >= MaxQueueSize
      /\ UNCHANGED <<executing, root, known, begun, running, tasks, runningTasks, executor,
                     settled, calls>>
  BY DEF EnqueueAndOverflow, gate, taskScheduler
<1>2. /\ TypeOK /\ Apart /\ calls = <<>>
  BY <1>1 DEF SchedulingInv, Arrives, Idle
<1>3. /\ Add(a) \in Seq(QueuedAction)
      /\ \A n, m \in DOMAIN Add(a) : n < m => Add(a)[n].action # Add(a)[m].action
  BY <1>1, Added
<1>4. a \notin Queued
  <2>1. a \notin Dispatched
    BY <1>1 DEF Arrives
  <2> QED BY <1>2, <2>1 DEF Apart
<1>5. /\ Len(queue) \in Nat /\ DOMAIN queue = 1 .. Len(queue) /\ Len(queue) >= 1
      /\ DOMAIN Add(a) = 1 .. Len(queue) + 1
      /\ Len(Add(a)) = Len(queue) + 1
      /\ \A i \in DOMAIN queue : Add(a)[i] = queue[i]
  <2>1. queue \in Seq(QueuedAction)
    BY <1>2 DEF TypeOK
  <2>2. [action |-> a, priority |-> PriorityOf(a)] \in QueuedAction
    BY DEF QueuedAction, PriorityOf, Priorities
  <2> QED BY <1>1, <1>3, <2>1, <2>2, AppendProperties, ActionAssumption DEF Add
<1>6. CASE Victim(a) = 0
  <2>1. Report({a}) /\ queue' = queue
    BY <1>6 DEF EnqueueAndOverflow
  <2>2. Part(queue', Add(a))
    BY <1>5, <2>1 DEF Part
  <2>3. queue' \in Seq(QueuedAction)
    BY <1>2, <2>1 DEF TypeOK
  <2>4. \A i \in DOMAIN queue' : queue'[i].action \notin {a}
    BY <1>4, <2>1 DEF Queued
  <2>5. {a} \in SUBSET (Queued \cup {a})
    OBVIOUS
  <2> QED BY <1>1, <2>1, <2>2, <2>3, <2>4, <2>5, WaitingInv
<1>7. CASE Victim(a) # 0
  <2> DEFINE v == Victim(a)
             told == IF Droppable # {} THEN {queue[v].action} ELSE {}
  <2>1. queue' = RemoveAt(Add(a), v) /\ Report(told)
    BY <1>7 DEF EnqueueAndOverflow
  <2>2. v \in DOMAIN queue
    <3>1. CASE Droppable # {}
      <4>1. Droppable \in SUBSET DOMAIN queue /\ Droppable \in SUBSET Nat
        BY <1>5 DEF Droppable
      <4> QED BY <3>1, <4>1, OldestIn DEF Victim
    <3>2. CASE Droppable = {}
      BY <1>5, <1>7, <3>2 DEF Victim
    <3> QED BY <3>1, <3>2
  <2>3. v \in 1 .. Len(Add(a)) /\ queue[v] = Add(a)[v]
    BY <1>5, <2>2
  <2> HIDE DEF v
  <2>4. /\ queue' \in Seq(QueuedAction)
        /\ Part(queue', Add(a))
        /\ Range(queue') = {Add(a)[i] : i \in DOMAIN Add(a) \ {v}}
    BY <1>3, <2>1, <2>3, RemovedAt
  <2>5. told \in SUBSET (Queued \cup {a})
    BY <2>2 DEF Queued
  <2>6. \A i \in DOMAIN queue' : queue'[i].action \notin told
    <3>1. TAKE i \in DOMAIN queue'
    <3>2. PICK n \in DOMAIN Add(a) \ {v} : queue'[i] = Add(a)[n]
      BY <2>4 DEF Range
    <3>3. n < v \/ v < n
      BY <1>5, <2>2, <3>2
    <3>4. Add(a)[n].action # Add(a)[v].action
      BY <1>3, <1>5, <2>2, <3>2, <3>3
    <3> QED BY <2>3, <3>2, <3>4
  <2> HIDE DEF told
  <2> QED BY <1>1, <2>1, <2>4, <2>5, <2>6, WaitingInv
<1> QED BY <1>6, <1>7
-----------------------------------------------------------------------------
(* The queue is processed *)

(* What is chosen is ready, and no entry of a stream before an earlier one. *)
LEMMA Chosen ==
    ASSUME SchedulingInv
    PROVE  LET sorted == Sorted(queue)
               ready == {i \in DOMAIN sorted : CanExecute(sorted[i].action)}
               chosen == Selected(sorted, ready)
           IN  /\ chosen \in Seq(QueuedAction)
               /\ Range(chosen) = {e \in Range(queue) : CanExecute(e.action)}
               /\ \A n, m \in DOMAIN chosen :
                     n < m => /\ chosen[n].action # chosen[m].action
                              /\ ~Earlier(chosen[m].action, chosen[n].action)
<1> DEFINE sorted == Sorted(queue)
           ready == {i \in DOMAIN sorted : CanExecute(sorted[i].action)}
           chosen == Selected(sorted, ready)
<1>1. TypeOK /\ QueueInOrder /\ queue \in Seq(QueuedAction)
  BY DEF SchedulingInv, TypeOK
<1>2. /\ sorted \in Seq(QueuedAction) /\ Range(sorted) = Range(queue)
      /\ Ranked(sorted, queue)
  BY <1>1, SortedSeq
<1> HIDE DEF sorted
<1>3. ready \in SUBSET DOMAIN sorted
  OBVIOUS
<1>4. /\ chosen \in Seq(QueuedAction) /\ Part(chosen, sorted)
      /\ Range(chosen) = {sorted[i] : i \in ready}
  <2> HIDE DEF ready
  <2> QED BY <1>2, <1>3, SelectedSeq
<1> HIDE DEF chosen
<1>5. Range(chosen) = {e \in Range(queue) : CanExecute(e.action)}
  <2>1. {sorted[i] : i \in ready} = {e \in Range(sorted) : CanExecute(e.action)}
    BY DEF Range
  <2> QED BY <1>2, <1>4, <2>1
<1>6. ASSUME NEW n \in DOMAIN chosen, NEW m \in DOMAIN chosen, n < m
      PROVE  /\ chosen[n].action # chosen[m].action
             /\ ~Earlier(chosen[m].action, chosen[n].action)
  <2>1. PICK k \in DOMAIN sorted, l \in DOMAIN sorted :
           k < l /\ chosen[n] = sorted[k] /\ chosen[m] = sorted[l]
    BY <1>4, <1>6 DEF Part
  <2>2. PICK i \in DOMAIN queue, j \in DOMAIN queue :
           i # j /\ sorted[k] = queue[i] /\ sorted[l] = queue[j] /\ Ahead(queue, i, j)
    BY <1>2, <2>1 DEF Ranked
  <2>3. /\ i \in Nat /\ j \in Nat
        /\ queue[i].priority \in Nat /\ queue[j].priority \in Nat
    BY <1>1, QueueEntries
  <2>4. CASE i < j
    BY <1>1, <2>1, <2>2, <2>4 DEF QueueInOrder
  <2>5. CASE j < i
    <3>1. queue[i].priority > queue[j].priority
      BY <2>2, <2>3, <2>5 DEF Ahead
    <3>2. ~(queue[j].priority >= queue[i].priority)
      BY <2>3, <3>1
    <3> QED BY <1>1, <2>1, <2>2, <2>5, <3>2 DEF QueueInOrder
  <2> QED BY <2>2, <2>3, <2>4, <2>5
<1> QED BY <1>4, <1>5, <1>6 DEF chosen, sorted

LEMMA DecideQueueInv ==
    ASSUME SchedulingInv, DecideQueue
    PROVE  SchedulingInv'
<1> DEFINE sorted == Sorted(queue)
           chosen == Selected(sorted, {i \in DOMAIN sorted : CanExecute(sorted[i].action)})
           left == Selected(queue, {i \in DOMAIN queue : ~CanExecute(queue[i].action)})
           executes == [i \in DOMAIN chosen |-> Execute(chosen[i].action)]
           rest == Tail(calls)
<1>1. /\ calls # <<>> /\ Head(calls) = ProcessQueue
      /\ queue' = left
      /\ calls' = executes \o rest
      /\ UNCHANGED <<executing, root, known, begun, running, tasks, runningTasks, executor,
                     settled, reports, dispatched>>
  BY DEF DecideQueue, Calling, gate, taskScheduler
<1>2. /\ TypeOK /\ DispatchedOnce /\ Apart /\ OneRunning /\ QueueFirst /\ PrioritiesFit
      /\ QueueInOrder /\ CallsInOrder /\ TasksInOrder /\ StagesInOrder
      /\ queue \in Seq(QueuedAction) /\ calls \in Seq(Frames)
  BY DEF SchedulingInv, TypeOK
<1>3. /\ chosen \in Seq(QueuedAction)
      /\ Range(chosen) = {e \in Range(queue) : CanExecute(e.action)}
      /\ \A n, m \in DOMAIN chosen :
            n < m => /\ chosen[n].action # chosen[m].action
                     /\ ~Earlier(chosen[m].action, chosen[n].action)
  BY Chosen
<1>4. /\ left \in Seq(QueuedAction) /\ Part(left, queue)
      /\ Range(left) = {e \in Range(queue) : ~CanExecute(e.action)}
  <2>1. {i \in DOMAIN queue : ~CanExecute(queue[i].action)} \in SUBSET DOMAIN queue
    OBVIOUS
  <2>2. /\ left \in Seq(QueuedAction) /\ Part(left, queue)
        /\ Range(left) = {queue[i] : i \in {i \in DOMAIN queue : ~CanExecute(queue[i].action)}}
    BY <1>2, <2>1, SelectedSeq
  <2> QED BY <2>2 DEF Range
<1>5. /\ rest \in Seq(Frames)
      /\ Part(rest, calls)
      /\ 1 \in DOMAIN calls /\ calls[1] = ProcessQueue
      /\ \A f : In(calls, f) <=> f = ProcessQueue \/ In(rest, f)
      /\ \A f : In(rest, f) => \E j \in DOMAIN calls : 1 < j /\ calls[j] = f
  BY <1>1, <1>2, Returned
<1> HIDE DEF left, chosen, rest
<1>6. \A f : In(rest, f) => f = ProcessTasks
  <2>1. SUFFICES ASSUME NEW f, In(rest, f) PROVE f = ProcessTasks
    OBVIOUS
  <2>2. In(calls, ProcessQueue) /\ In(calls, f)
    BY <1>5, <2>1
  <2>3. f # ProcessQueue
    BY <1>2, <1>5, <2>1, FramesDiffer DEF CallsInOrder
  <2>4. f \in Frames
    <3>1. \A i \in DOMAIN calls : calls[i] \in Frames
      BY <1>2, LenProperties
    <3> QED BY <2>2, <3>1 DEF In
  <2>5. \A a \in Actions : f # Execute(a)
    BY <1>2, <2>2 DEF QueueFirst, Called
  <2> QED BY <2>3, <2>4, <2>5 DEF Frames
<1>7. \A i \in DOMAIN rest : rest[i] = ProcessTasks
  BY <1>6 DEF In
<1>8. /\ \A i \in DOMAIN chosen : /\ i \in Nat
                                  /\ chosen[i].action \in Actions
                                  /\ chosen[i].action \in Queued /\ CanExecute(chosen[i].action)
      /\ \A i \in DOMAIN queue :
            CanExecute(queue[i].action) => \E n \in DOMAIN chosen : chosen[n] = queue[i]
      /\ DOMAIN chosen = 1 .. Len(chosen) /\ Len(chosen) \in Nat
  <2>1. \A e \in Range(queue) : e.action \in Actions /\ e.action \in Queued
    BY <1>2, QueueEntries DEF Range
  <2>2. \A i \in DOMAIN chosen :
           chosen[i] \in {e \in Range(queue) : CanExecute(e.action)}
    BY <1>3 DEF Range
  <2>3. DOMAIN chosen = 1 .. Len(chosen) /\ Len(chosen) \in Nat
    BY <1>3, LenProperties
  <2>4. \A i \in DOMAIN queue :
           CanExecute(queue[i].action) => \E n \in DOMAIN chosen : chosen[n] = queue[i]
    <3>1. \A e \in {d \in Range(queue) : CanExecute(d.action)} :
             \E n \in DOMAIN chosen : chosen[n] = e
      BY <1>3 DEF Range
    <3> QED BY <3>1 DEF Range
  <2> QED BY <2>1, <2>2, <2>3, <2>4
<1>9. /\ executes \in Seq(Frames) /\ Len(executes) = Len(chosen)
      /\ \A i \in 1 .. Len(chosen) : executes[i] = Execute(chosen[i].action)
  <2>1. executes \in [1 .. Len(chosen) -> Frames]
    BY <1>8, FramesDiffer
  <2>2. \A i \in 1 .. Len(chosen) : executes[i] = Execute(chosen[i].action)
    BY <1>8
  <2> HIDE DEF executes
  <2> QED BY <1>8, <2>1, <2>2
<1> HIDE DEF executes
<1>10. /\ calls' \in Seq(Frames)
       /\ \A i \in DOMAIN calls' : i \in Nat
       /\ \A i \in DOMAIN calls' : \/ i \in DOMAIN chosen /\ calls'[i] = Execute(chosen[i].action)
                                   \/ calls'[i] = ProcessTasks
       /\ \A i \in DOMAIN chosen : i \in DOMAIN calls' /\ calls'[i] = Execute(chosen[i].action)
  <2>1. /\ calls' \in Seq(Frames) /\ Len(calls') = Len(executes) + Len(rest)
        /\ \A i \in 1 .. Len(executes) + Len(rest) :
              calls'[i] = IF i <= Len(executes) THEN executes[i] ELSE rest[i - Len(executes)]
    BY <1>1, <1>5, <1>9, ConcatProperties
  <2>2. /\ DOMAIN calls' = 1 .. Len(chosen) + Len(rest) /\ Len(rest) \in Nat
        /\ DOMAIN rest = 1 .. Len(rest)
    BY <1>5, <1>9, <2>1, LenProperties
  <2>3. ASSUME NEW i \in DOMAIN calls', i <= Len(chosen)
        PROVE  i \in DOMAIN chosen /\ calls'[i] = Execute(chosen[i].action)
    BY <1>8, <1>9, <2>1, <2>2, <2>3
  <2>4. ASSUME NEW i \in DOMAIN calls', ~(i <= Len(chosen))
        PROVE  calls'[i] = ProcessTasks
    <3>1. i - Len(chosen) \in DOMAIN rest
      BY <1>8, <2>2, <2>4
    <3>2. calls'[i] = rest[i - Len(chosen)]
      BY <1>9, <2>1, <2>2, <2>4
    <3> QED BY <1>7, <3>1, <3>2
  <2>5. ASSUME NEW i \in DOMAIN chosen
        PROVE  i \in DOMAIN calls' /\ calls'[i] = Execute(chosen[i].action)
    <3>1. i \in 1 .. Len(chosen) + Len(rest) /\ i <= Len(chosen)
      BY <1>8, <2>2
    <3> QED BY <2>2, <2>3, <3>1
  <2>6. \A i \in DOMAIN calls' : i \in Nat
    BY <2>2
  <2> QED BY <2>1, <2>3, <2>4, <2>5, <2>6
<1>11. /\ ~In(calls, ProcessQueue)'
       /\ \A a \in Actions : Called(a)' <=> \E i \in DOMAIN chosen : chosen[i].action = a
  <2>1. ~In(calls', ProcessQueue)
    BY <1>10, FramesDiffer DEF In
  <2>2. \A a \in Actions :
           In(calls', Execute(a)) <=> \E i \in DOMAIN chosen : chosen[i].action = a
    BY <1>10, FramesDiffer DEF In
  <2> QED BY <2>1, <2>2 DEF Called, In
<1>12. \A a \in Actions : Called(a)' <=> a \in Queued /\ CanExecute(a)
  <2>1. \A a \in Actions : Called(a)' => a \in Queued /\ CanExecute(a)
    BY <1>8, <1>11
  <2>2. \A a \in Actions : a \in Queued /\ CanExecute(a) => Called(a)'
    BY <1>8, <1>11 DEF Queued
  <2> QED BY <2>1, <2>2
<1>13. /\ Queued' \subseteq Queued
       /\ \A i \in DOMAIN queue' : ~CanExecute(queue'[i].action)
       /\ \A a \in Actions : a \in Queued' => ~CanExecute(a)
  <2>1. \A i \in DOMAIN left : left[i] \in {e \in Range(queue) : ~CanExecute(e.action)}
    BY <1>4 DEF Range
  <2>2. \A i \in DOMAIN left : left[i].action \in Queued /\ ~CanExecute(left[i].action)
    BY <2>1 DEF Range, Queued
  <2> QED BY <1>1, <2>2 DEF Queued
<1>14. \A a \in Actions : ~Called(a)
  BY <1>2, <1>5 DEF QueueFirst
<1>15. TypeOK'
  BY <1>1, <1>2, <1>4, <1>10 DEF TypeOK, Gate!TypeOK
<1>16. \A x, y \in Actions : /\ Earlier(x, y)' <=> Earlier(x, y)
                             /\ Tasked(x)' <=> Tasked(x)
                             /\ CanExecute(x)' <=> CanExecute(x)
  BY <1>1 DEF Earlier, Before, Tasked, In, CanExecute, HasActiveThunk
<1>17. Dispatched' = Dispatched
  BY <1>1 DEF Dispatched
<1>18. Apart'
  BY <1>1, <1>2, <1>12, <1>13, <1>16, <1>17 DEF Apart
<1>19. DispatchedOnce' /\ OneRunning' /\ QueueFirst' /\ TasksInOrder'
  <2>1. DispatchedOnce' /\ OneRunning' /\ QueueFirst'
    BY <1>1, <1>2, <1>11 DEF DispatchedOnce, OneRunning, QueueFirst
  <2>2. TasksInOrder'
    BY <1>1, <1>2, <1>16, TaskEntries DEF TasksInOrder
  <2> QED BY <2>1, <2>2
<1>20. NothingEligible'
  BY <1>1, <1>13 DEF NothingEligible, CanExecute, HasActiveThunk
<1>21. PrioritiesFit'
  <2>1. \A i \in DOMAIN queue' : \E n \in DOMAIN queue : queue'[i] = queue[n]
    BY <1>1, <1>4 DEF Part
  <2> QED BY <1>1, <1>2, <2>1 DEF PrioritiesFit
<1>22. QueueInOrder'
  <2>1. \A i, j \in DOMAIN queue' :
           i < j => \E n, m \in DOMAIN queue : n < m /\ queue'[i] = queue[n] /\ queue'[j] = queue[m]
    BY <1>1, <1>4 DEF Part
  <2>2. SUFFICES ASSUME NEW i \in DOMAIN queue', NEW j \in DOMAIN queue', i < j
                 PROVE  /\ queue'[i].action # queue'[j].action
                        /\ ~Before(dispatched, queue'[j].action, queue'[i].action)
                        /\ Before(dispatched, queue'[i].action, queue'[j].action) =>
                              queue'[i].priority >= queue'[j].priority
    BY <1>1 DEF QueueInOrder, Earlier
  <2> QED BY <1>2, <2>1, <2>2 DEF QueueInOrder, Earlier
<1>23. CallsInOrder'
  <2>1. SUFFICES ASSUME NEW i \in DOMAIN calls', NEW j \in DOMAIN calls', i < j
                 PROVE  /\ calls'[i] = calls'[j] => calls'[i] = ProcessTasks
                        /\ \A a, b \in Actions :
                              calls'[i] = Execute(a) /\ calls'[j] = Execute(b) => ~Earlier(b, a)'
    BY DEF CallsInOrder
  <2>2. CASE calls'[i] = ProcessTasks \/ calls'[j] = ProcessTasks
    BY <2>2, FramesDiffer
  <2>3. CASE /\ i \in DOMAIN chosen /\ calls'[i] = Execute(chosen[i].action)
             /\ j \in DOMAIN chosen /\ calls'[j] = Execute(chosen[j].action)
    <3>1. /\ chosen[i].action # chosen[j].action
          /\ ~Earlier(chosen[j].action, chosen[i].action)
      BY <1>3, <2>1, <2>3
    <3>2. calls'[i] # calls'[j]
      BY <2>3, <3>1, FramesDiffer
    <3>3. \A a, b \in Actions :
             calls'[i] = Execute(a) /\ calls'[j] = Execute(b) => ~Earlier(b, a)
      BY <2>3, <3>1, FramesDiffer
    <3> QED BY <1>16, <3>2, <3>3
  <2> QED BY <1>10, <2>2, <2>3
<1>24. StagesInOrder'
  <2>1. SUFFICES ASSUME NEW x \in Actions, NEW y \in Actions, Earlier(x, y)
                 PROVE  /\ Called(y)' => x \notin Queued'
                        /\ Tasked(y) => x \notin Queued' /\ ~Called(x)'
    BY <1>16 DEF StagesInOrder
  <2>2. SameStream(x, y)
    BY <1>2, <2>1, EarlierFacts
  <2>3. Called(y)' => x \notin Queued'
    BY <1>12, <1>13, <2>2, StreamsAgree
  <2>4. Tasked(y) => x \notin Queued
    BY <1>2, <2>1 DEF StagesInOrder
  <2> QED BY <1>12, <1>13, <2>3, <2>4
<1> QED
  BY <1>15, <1>18, <1>19, <1>20, <1>21, <1>22, <1>23, <1>24 DEF SchedulingInv
-----------------------------------------------------------------------------
(* Actions are executed *)

(* The order of a stack of calls. *)
Ordered(c) ==
    \A i, j \in DOMAIN c :
       i < j => /\ c[i] = c[j] => c[i] = ProcessTasks
                /\ \A a, b \in Actions : c[i] = Execute(a) /\ c[j] = Execute(b) => ~Earlier(b, a)

LEMMA HeadReturns ==
    ASSUME TypeOK, CallsInOrder, calls # <<>>
    PROVE  /\ Tail(calls) \in Seq(Frames)
           /\ Ordered(Tail(calls))
           /\ \A f : In(calls, f) <=> f = Head(calls) \/ In(Tail(calls), f)
           /\ Head(calls) # ProcessTasks => ~In(Tail(calls), Head(calls))
           /\ \A a, x \in Actions :
                 Head(calls) = Execute(a) /\ In(Tail(calls), Execute(x)) => ~Earlier(x, a)
<1> DEFINE rest == Tail(calls)
<1>1. calls \in Seq(Frames)
  BY DEF TypeOK
<1>2. /\ rest \in Seq(Frames)
      /\ Part(rest, calls)
      /\ 1 \in DOMAIN calls /\ calls[1] = Head(calls)
      /\ \A f : In(calls, f) <=> f = Head(calls) \/ In(rest, f)
      /\ \A f : In(rest, f) => \E j \in DOMAIN calls : 1 < j /\ calls[j] = f
  BY <1>1, Returned
<1> HIDE DEF rest
<1>3. Ordered(rest)
  <2>1. SUFFICES ASSUME NEW i \in DOMAIN rest, NEW j \in DOMAIN rest, i < j
                 PROVE  /\ rest[i] = rest[j] => rest[i] = ProcessTasks
                        /\ \A a, b \in Actions :
                              rest[i] = Execute(a) /\ rest[j] = Execute(b) => ~Earlier(b, a)
    BY DEF Ordered
  <2>2. PICK n \in DOMAIN calls, m \in DOMAIN calls :
           n < m /\ rest[i] = calls[n] /\ rest[j] = calls[m]
    BY <1>2, <2>1 DEF Part
  <2> QED BY <2>2 DEF CallsInOrder
<1>4. Head(calls) # ProcessTasks => ~In(rest, Head(calls))
  BY <1>2 DEF CallsInOrder
<1>5. \A a, x \in Actions :
         Head(calls) = Execute(a) /\ In(rest, Execute(x)) => ~Earlier(x, a)
  BY <1>2 DEF CallsInOrder
<1> QED BY <1>2, <1>3, <1>4, <1>5 DEF rest

(* A call that makes another, of the thunk scheduler. *)
LEMMA OrderedPushed ==
    ASSUME NEW c \in Seq(Frames), Ordered(c)
    PROVE  /\ <<ProcessTasks>> \o c \in Seq(Frames)
           /\ Ordered(<<ProcessTasks>> \o c)
           /\ \A g : In(<<ProcessTasks>> \o c, g) <=> g = ProcessTasks \/ In(c, g)
<1> DEFINE d == <<ProcessTasks>> \o c
<1>1. /\ d \in Seq(Frames)
      /\ \A g : In(d, g) <=> g = ProcessTasks \/ In(c, g)
      /\ \A n, m \in DOMAIN d :
            n < m => \/ d[n] = ProcessTasks
                     \/ \E i, j \in DOMAIN c : i < j /\ d[n] = c[i] /\ d[m] = c[j]
  BY FramesDiffer, Pushed
<1> HIDE DEF d
<1>2. Ordered(d)
  <2>1. SUFFICES ASSUME NEW n \in DOMAIN d, NEW m \in DOMAIN d, n < m
                 PROVE  /\ d[n] = d[m] => d[n] = ProcessTasks
                        /\ \A a, b \in Actions :
                              d[n] = Execute(a) /\ d[m] = Execute(b) => ~Earlier(b, a)
    BY DEF Ordered
  <2>2. CASE d[n] = ProcessTasks
    BY <2>2, FramesDiffer
  <2>3. ASSUME NEW i \in DOMAIN c, NEW j \in DOMAIN c, i < j, d[n] = c[i], d[m] = c[j]
        PROVE  /\ d[n] = d[m] => d[n] = ProcessTasks
               /\ \A a, b \in Actions :
                     d[n] = Execute(a) /\ d[m] = Execute(b) => ~Earlier(b, a)
    BY <2>3 DEF Ordered
  <2> QED BY <1>1, <2>1, <2>2, <2>3
<1> QED BY <1>1, <1>2 DEF d

(* What stays when neither the queue nor the order of dispatch changes, and
   what calls may become. *)
LEMMA QueueKept ==
    ASSUME SchedulingInv,
           UNCHANGED <<queue, dispatched>>
    PROVE  /\ DispatchedOnce' /\ QueueInOrder'
           /\ root' \in {root, None} /\ begun \subseteq begun' => PrioritiesFit'
           /\ Queued' = Queued /\ Dispatched' = Dispatched
           /\ \A x, y : Earlier(x, y)' <=> Earlier(x, y)
           /\ Ordered(calls') => CallsInOrder'
<1>1. DispatchedOnce /\ PrioritiesFit /\ QueueInOrder
  BY DEF SchedulingInv
<1>2. \A x, y : Earlier(x, y)' <=> Earlier(x, y)
  BY DEF Earlier, Before
<1>3. QueueInOrder'
  BY <1>1 DEF QueueInOrder, Earlier
<1>4. Ordered(calls') => CallsInOrder'
  BY DEF Ordered, CallsInOrder, Earlier
<1>5. ASSUME root' \in {root, None}, begun \subseteq begun' PROVE PrioritiesFit'
  <2>1. root' \in begun' \cup {None}
    BY <1>1, <1>5 DEF PrioritiesFit
  <2>2. ASSUME NEW i \in DOMAIN queue
        PROVE  LET t == ThunkOf[queue[i].action]
               IN  /\ queue[i].priority = NormalAction <=> t = None
                   /\ queue[i].priority = NormalThunkAction => t # root'
    BY <1>1, <1>5, <2>2 DEF PrioritiesFit, NormalAction, NormalThunkAction
  <2> QED BY <2>1, <2>2 DEF PrioritiesFit
<1> QED
  BY <1>1, <1>2, <1>3, <1>4, <1>5 DEF DispatchedOnce, Queued, Dispatched

LEMMA ExecuteDirectlyInv ==
    ASSUME SchedulingInv, NEW a \in Actions, ExecuteDirectly(a)
    PROVE  SchedulingInv'
<1>1. /\ calls # <<>> /\ Head(calls) = Execute(a) /\ a \notin Tasks
      /\ executor' = executor \cup {a} /\ running' = running \cup {a}
      /\ calls' = Tail(calls)
      /\ UNCHANGED <<executing, root, known, begun, queue, tasks, runningTasks, settled,
                     reports, dispatched>>
  BY DEF ExecuteDirectly, Calling, gate, taskScheduler
<1>2. /\ TypeOK /\ Apart /\ OneRunning /\ QueueFirst /\ NothingEligible
      /\ CallsInOrder /\ TasksInOrder /\ StagesInOrder
  BY DEF SchedulingInv
<1>3. /\ calls' \in Seq(Frames) /\ Ordered(calls')
      /\ \A f : In(calls, f) <=> f = Execute(a) \/ In(calls', f)
      /\ ~In(calls', Execute(a))
  BY <1>1, <1>2, HeadReturns, FramesDiffer
<1>4. /\ \A x \in Actions : Called(x) <=> x = a \/ Called(x)'
      /\ ~Called(a)'
      /\ ~In(calls, ProcessQueue) /\ ~In(calls, ProcessQueue)'
  <2>1. /\ \A x \in Actions : Called(x)' <=> In(calls', Execute(x))
        /\ In(calls, ProcessQueue)' <=> In(calls', ProcessQueue)
    BY DEF Called, In
  <2>2. Called(a)
    BY <1>3 DEF Called
  <2> QED BY <1>2, <1>3, <2>1, <2>2, FramesDiffer DEF Called, QueueFirst
<1>5. /\ DispatchedOnce' /\ PrioritiesFit' /\ QueueInOrder' /\ CallsInOrder'
      /\ Queued' = Queued /\ Dispatched' = Dispatched
      /\ \A x, y : Earlier(x, y)' <=> Earlier(x, y)
  BY <1>1, <1>3, QueueKept
<1>6. \A x \in Actions : (Tasked(x)' <=> Tasked(x)) /\ (CanExecute(x)' <=> CanExecute(x))
  BY <1>1 DEF Tasked, In, CanExecute, HasActiveThunk
<1>7. TypeOK'
  BY <1>1, <1>2, <1>3 DEF TypeOK, Gate!TypeOK
<1>8. Apart'
  BY <1>1, <1>2, <1>4, <1>5, <1>6 DEF Apart
<1>9. OneRunning' /\ QueueFirst'
  BY <1>1, <1>2, <1>4 DEF OneRunning, QueueFirst
<1>10. NothingEligible'
  BY <1>1, <1>2, <1>4, <1>6, QueueEntries DEF NothingEligible
<1>11. TasksInOrder'
  BY <1>1, <1>2, <1>5 DEF TasksInOrder
<1>12. StagesInOrder'
  BY <1>2, <1>4, <1>5, <1>6 DEF StagesInOrder
<1> QED
  BY <1>5, <1>7, <1>8, <1>9, <1>10, <1>11, <1>12 DEF SchedulingInv

LEMMA ExecuteAsTaskInv ==
    ASSUME SchedulingInv, NEW a \in Actions, ExecuteAsTask(a)
    PROVE  SchedulingInv'
<1> DEFINE rest == Tail(calls)
<1>1. /\ calls # <<>> /\ Head(calls) = Execute(a) /\ a \in Tasks
      /\ running' = running \cup {a}
      /\ UNCHANGED <<executing, root, known, begun, queue, runningTasks, executor, reports,
                     dispatched>>
      /\ \/ /\ tasks' = Append(tasks, a) /\ settled' = settled
            /\ calls' = <<ProcessTasks>> \o rest
         \/ /\ tasks' = tasks /\ settled' = settled \cup {a}
            /\ calls' = rest
  BY DEF ExecuteAsTask, Calling, gate
<1>2. /\ TypeOK /\ DispatchedOnce /\ Apart /\ OneRunning /\ QueueFirst /\ NothingEligible
      /\ CallsInOrder /\ TasksInOrder /\ StagesInOrder
  BY DEF SchedulingInv
<1>3. /\ rest \in Seq(Frames) /\ Ordered(rest)
      /\ \A f : In(calls, f) <=> f = Execute(a) \/ In(rest, f)
      /\ ~In(rest, Execute(a))
      /\ \A x \in Actions : In(rest, Execute(x)) => ~Earlier(x, a)
  BY <1>1, <1>2, HeadReturns, FramesDiffer
<1> HIDE DEF rest
<1>4. /\ calls' \in Seq(Frames) /\ Ordered(calls')
      /\ \A f : f # ProcessTasks => (In(calls', f) <=> In(rest, f))
  BY <1>1, <1>3, OrderedPushed
<1>5. /\ \A x \in Actions : Called(x) <=> x = a \/ Called(x)'
      /\ ~Called(a)'
      /\ ~In(calls, ProcessQueue) /\ ~In(calls, ProcessQueue)'
      /\ \A x \in Actions : Called(x)' => ~Earlier(x, a)
  <2>1. /\ \A x \in Actions : Called(x)' <=> In(calls', Execute(x))
        /\ In(calls, ProcessQueue)' <=> In(calls', ProcessQueue)
    BY DEF Called, In
  <2>2. \A x \in Actions : Called(x)' <=> In(rest, Execute(x))
    BY <1>4, <2>1, FramesDiffer
  <2>3. Called(a)
    BY <1>3 DEF Called
  <2>4. ~In(calls, ProcessQueue)
    BY <1>2, <2>3 DEF QueueFirst
  <2>5. ~In(calls, ProcessQueue)'
    BY <1>3, <1>4, <2>1, <2>4, FramesDiffer
  <2> QED BY <1>3, <2>2, <2>3, <2>4, <2>5, FramesDiffer DEF Called
<1>6. /\ DispatchedOnce' /\ PrioritiesFit' /\ QueueInOrder' /\ CallsInOrder'
      /\ Queued' = Queued /\ Dispatched' = Dispatched
      /\ \A x, y : Earlier(x, y)' <=> Earlier(x, y)
  BY <1>1, <1>4, QueueKept
<1>7. \A x \in Actions : CanExecute(x)' <=> CanExecute(x)
  BY <1>1 DEF CanExecute, HasActiveThunk
<1>8. QueueFirst'
  BY <1>5 DEF QueueFirst
<1>9. NothingEligible'
  BY <1>1, <1>2, <1>5, <1>7, QueueEntries DEF NothingEligible
<1>10. OneRunning'
  BY <1>1, <1>2 DEF OneRunning
<1>11. Called(a) /\ ~Tasked(a) /\ a \notin Queued /\ a \notin executor /\ a \notin settled
  BY <1>2, <1>5 DEF Apart
<1>12. CASE /\ tasks' = Append(tasks, a) /\ settled' = settled
  <2>1. /\ tasks' \in Seq(Tasks)
        /\ \A x : Tasked(x)' <=> x = a \/ Tasked(x)
        /\ \A n, m \in DOMAIN tasks' :
              n < m => /\ n \in DOMAIN tasks /\ tasks'[n] = tasks[n]
                       /\ \/ m \in DOMAIN tasks /\ tasks'[m] = tasks[m]
                          \/ tasks'[m] = a
    <3>1. tasks \in Seq(Tasks)
      BY <1>2 DEF TypeOK
    <3>2. /\ tasks' \in Seq(Tasks)
          /\ \A x : In(tasks', x) <=> x = a \/ In(tasks, x)
          /\ \A n, m \in DOMAIN tasks' :
                n < m => /\ n \in DOMAIN tasks /\ tasks'[n] = tasks[n]
                         /\ \/ m \in DOMAIN tasks /\ tasks'[m] = tasks[m]
                            \/ tasks'[m] = a
      BY <1>1, <1>12, <3>1, Appended
    <3> QED BY <3>2 DEF Tasked, In
  <2>2. TypeOK'
    BY <1>1, <1>2, <1>4, <1>12, <2>1 DEF TypeOK, Gate!TypeOK
  <2>3. Apart'
    BY <1>1, <1>2, <1>5, <1>6, <1>11, <1>12, <2>1 DEF Apart
  <2>4. TasksInOrder'
    <3>1. SUFFICES ASSUME NEW i \in DOMAIN tasks', NEW j \in DOMAIN tasks', i < j
                   PROVE  /\ tasks'[i] # tasks'[j]
                          /\ ~Before(dispatched, tasks'[j], tasks'[i])
      BY <1>1 DEF TasksInOrder, Earlier
    <3>2. i \in DOMAIN tasks /\ tasks'[i] = tasks[i]
      BY <2>1, <3>1
    <3>3. CASE j \in DOMAIN tasks /\ tasks'[j] = tasks[j]
      BY <1>2, <3>1, <3>2, <3>3 DEF TasksInOrder, Earlier
    <3>4. CASE tasks'[j] = a
      <4>1. Tasked(tasks[i]) /\ tasks[i] \in Actions
        BY <1>2, <3>2, TaskEntries
      <4>2. ~Earlier(a, tasks[i])
        BY <1>2, <1>11, <4>1 DEF StagesInOrder
      <4> QED BY <1>11, <3>2, <3>4, <4>1, <4>2 DEF Earlier
    <3> QED BY <2>1, <3>1, <3>3, <3>4
  <2>5. StagesInOrder'
    <3>1. SUFFICES ASSUME NEW x \in Actions, NEW y \in Actions, Earlier(x, y)
                   PROVE  /\ Called(y)' => x \notin Queued
                          /\ Tasked(y)' => x \notin Queued /\ ~Called(x)'
      BY <1>6 DEF StagesInOrder
    <3>2. CASE y = a
      BY <1>2, <1>5, <1>11, <3>1, <3>2 DEF StagesInOrder
    <3>3. CASE y # a
      BY <1>2, <1>5, <2>1, <3>1, <3>3 DEF StagesInOrder
    <3> QED BY <3>2, <3>3
  <2> QED
    BY <1>6, <1>8, <1>9, <1>10, <2>2, <2>3, <2>4, <2>5 DEF SchedulingInv
<1>13. CASE /\ tasks' = tasks /\ settled' = settled \cup {a}
  <2>1. \A x : Tasked(x)' <=> Tasked(x)
    BY <1>13 DEF Tasked, In
  <2>2. TypeOK'
    BY <1>1, <1>2, <1>4, <1>13 DEF TypeOK, Gate!TypeOK
  <2>3. Apart'
    BY <1>1, <1>2, <1>5, <1>6, <1>11, <1>13, <2>1 DEF Apart
  <2>4. TasksInOrder'
    BY <1>2, <1>6, <1>13 DEF TasksInOrder
  <2>5. StagesInOrder'
    BY <1>2, <1>5, <1>6, <2>1 DEF StagesInOrder
  <2> QED
    BY <1>6, <1>8, <1>9, <1>10, <2>2, <2>3, <2>4, <2>5 DEF SchedulingInv
<1> QED BY <1>1, <1>12, <1>13

LEMMA StartTaskInv ==
    ASSUME SchedulingInv, StartTask
    PROVE  SchedulingInv'
<1>1. PICK a :
      /\ a = Head(tasks)
      /\ calls # <<>> /\ Head(calls) = ProcessTasks /\ tasks # <<>> /\ runningTasks = {}
      /\ tasks' = Tail(tasks)
      /\ runningTasks' = runningTasks \cup {a} /\ executor' = executor \cup {a}
      /\ calls' = Tail(calls)
      /\ UNCHANGED <<executing, root, known, begun, queue, running, settled, reports,
                     dispatched>>
  BY DEF StartTask, Calling, HasConflicts, gate, scheduler
<1>2. /\ TypeOK /\ Apart /\ OneRunning /\ QueueFirst /\ NothingEligible
      /\ CallsInOrder /\ TasksInOrder /\ StagesInOrder /\ tasks \in Seq(Tasks)
  BY DEF SchedulingInv, TypeOK
<1>3. /\ calls' \in Seq(Frames) /\ Ordered(calls')
      /\ \A f : In(calls, f) <=> f = ProcessTasks \/ In(calls', f)
  BY <1>1, <1>2, HeadReturns
<1>4. /\ \A x \in Actions : Called(x)' <=> Called(x)
      /\ In(calls, ProcessQueue)' <=> In(calls, ProcessQueue)
  <2>1. /\ \A x \in Actions : Called(x)' <=> In(calls', Execute(x))
        /\ In(calls, ProcessQueue)' <=> In(calls', ProcessQueue)
    BY DEF Called, In
  <2> QED BY <1>3, <2>1, FramesDiffer DEF Called
<1>5. /\ tasks' \in Seq(Tasks) /\ a \in Tasks /\ a \in Actions
      /\ Part(tasks', tasks)
      /\ \A x : Tasked(x) <=> x = a \/ Tasked(x)'
      /\ ~Tasked(a)'
  <2>1. /\ Tail(tasks) \in Seq(Tasks) /\ a \in Tasks
        /\ Part(Tail(tasks), tasks)
        /\ 1 \in DOMAIN tasks /\ tasks[1] = a
        /\ \A f : In(tasks, f) <=> f = a \/ In(Tail(tasks), f)
        /\ \A f : In(Tail(tasks), f) => \E j \in DOMAIN tasks : 1 < j /\ tasks[j] = f
    BY <1>1, <1>2, Returned
  <2>2. ~In(Tail(tasks), a)
    BY <1>2, <2>1 DEF TasksInOrder
  <2>3. \A x : Tasked(x)' <=> In(Tail(tasks), x)
    BY <1>1 DEF Tasked, In
  <2>4. \A x : Tasked(x) <=> x = a \/ In(Tail(tasks), x)
    BY <2>1 DEF Tasked
  <2>5. a \in Actions
    BY <2>1 DEF Tasks
  <2>6. tasks' = Tail(tasks)
    BY <1>1
  <2>7. ~Tasked(a)'
    BY <2>2, <2>3
  <2> QED BY <2>1, <2>3, <2>4, <2>5, <2>6, <2>7
<1>6. /\ DispatchedOnce' /\ PrioritiesFit' /\ QueueInOrder' /\ CallsInOrder'
      /\ Queued' = Queued /\ Dispatched' = Dispatched
      /\ \A x, y : Earlier(x, y)' <=> Earlier(x, y)
  BY <1>1, <1>3, QueueKept
<1>7. \A x \in Actions : CanExecute(x)' => CanExecute(x)
  BY <1>1 DEF CanExecute, HasActiveThunk
<1>8. a \notin Queued /\ ~Called(a) /\ a \notin executor /\ a \notin settled
  BY <1>2, <1>5 DEF Apart
<1>9. TypeOK'
  BY <1>1, <1>2, <1>3, <1>5 DEF TypeOK, Gate!TypeOK
<1>10. Apart'
  <2>1. Tasked(a) /\ a \in Dispatched /\ reports[a] = 0
    BY <1>2, <1>5 DEF Apart
  <2>2. \A x \in Actions : x # a => (x \in executor' <=> x \in executor)
    BY <1>1
  <2>3. \A x \in Actions : x # a => (Tasked(x)' <=> Tasked(x))
    BY <1>5
  <2>4. SUFFICES ASSUME NEW x \in Actions
        PROVE  /\ x \in Queued => ~Called(x)
               /\ x \in Queued \/ Called(x) => ~Tasked(x)'
               /\ x \in Queued \/ Called(x) \/ Tasked(x)' => x \notin executor'
               /\ x \in Queued \/ Called(x) \/ Tasked(x)' \/ x \in executor' => x \notin settled
               /\ x \in Queued \/ Called(x) \/ Tasked(x)' \/ x \in executor' \/ x \in settled =>
                     x \in Dispatched /\ reports[x] = 0
               /\ reports[x] <= 1
               /\ reports[x] = 1 => x \in Dispatched
    BY <1>1, <1>4, <1>6 DEF Apart
  <2>5. CASE x = a
    BY <1>5, <1>8, <2>1, <2>5
  <2>6. CASE x # a
    BY <1>2, <2>2, <2>3, <2>6 DEF Apart
  <2> QED BY <2>5, <2>6
<1>11. OneRunning'
  BY <1>1, <1>2, <1>5 DEF OneRunning
<1>12. QueueFirst'
  BY <1>2, <1>4 DEF QueueFirst
<1>13. NothingEligible'
  BY <1>1, <1>2, <1>4, <1>7, QueueEntries DEF NothingEligible
<1>14. TasksInOrder'
  <2>1. SUFFICES ASSUME NEW i \in DOMAIN tasks', NEW j \in DOMAIN tasks', i < j
                 PROVE  /\ tasks'[i] # tasks'[j]
                        /\ ~Before(dispatched, tasks'[j], tasks'[i])
    BY <1>1 DEF TasksInOrder, Earlier
  <2>2. PICK n \in DOMAIN tasks, m \in DOMAIN tasks :
           n < m /\ tasks'[i] = tasks[n] /\ tasks'[j] = tasks[m]
    BY <1>5, <2>1 DEF Part
  <2> QED BY <1>2, <2>2 DEF TasksInOrder, Earlier
<1>15. StagesInOrder'
  BY <1>2, <1>4, <1>5, <1>6 DEF StagesInOrder
<1> QED
  BY <1>6, <1>9, <1>10, <1>11, <1>12, <1>13, <1>14, <1>15 DEF SchedulingInv

(* Steps that only take or make calls other than those that execute, and
   move actions between executor, settled and reports. *)
LEMMA CallsOnly ==
    ASSUME SchedulingInv,
           UNCHANGED <<queue, tasks, dispatched>>,
           calls' \in Seq(Frames), Ordered(calls'),
           \A x \in Actions : Called(x)' => Called(x),
           In(calls, ProcessQueue)' => \A x \in Actions : ~Called(x)'
    PROVE  /\ DispatchedOnce' /\ QueueInOrder' /\ CallsInOrder'
           /\ root' \in {root, None} /\ begun \subseteq begun' => PrioritiesFit'
           /\ QueueFirst' /\ TasksInOrder' /\ StagesInOrder'
           /\ Queued' = Queued /\ Dispatched' = Dispatched
           /\ \A x : Tasked(x)' <=> Tasked(x)
<1>1. /\ DispatchedOnce' /\ QueueInOrder' /\ CallsInOrder'
      /\ root' \in {root, None} /\ begun \subseteq begun' => PrioritiesFit'
      /\ Queued' = Queued /\ Dispatched' = Dispatched
      /\ \A x, y : Earlier(x, y)' <=> Earlier(x, y)
  BY QueueKept
<1>2. \A x : Tasked(x)' <=> Tasked(x)
  BY DEF Tasked, In
<1>3. TasksInOrder /\ StagesInOrder
  BY DEF SchedulingInv
<1>4. TasksInOrder'
  BY <1>1, <1>3 DEF TasksInOrder
<1>5. StagesInOrder'
  BY <1>1, <1>2, <1>3 DEF StagesInOrder
<1>6. QueueFirst'
  BY DEF QueueFirst
<1> QED BY <1>1, <1>2, <1>4, <1>5, <1>6

LEMMA NoTaskToStartInv ==
    ASSUME SchedulingInv, NoTaskToStart
    PROVE  SchedulingInv'
<1>1. /\ calls # <<>> /\ Head(calls) = ProcessTasks
      /\ calls' = Tail(calls)
      /\ UNCHANGED <<executing, root, known, begun, queue, running, tasks, runningTasks,
                     executor, settled, reports, dispatched>>
  BY DEF NoTaskToStart, Calling, gate, scheduler, taskScheduler
<1>2. /\ TypeOK /\ Apart /\ OneRunning /\ QueueFirst /\ NothingEligible /\ CallsInOrder
  BY DEF SchedulingInv
<1>3. /\ calls' \in Seq(Frames) /\ Ordered(calls')
      /\ \A f : In(calls, f) <=> f = ProcessTasks \/ In(calls', f)
  BY <1>1, <1>2, HeadReturns
<1>4. /\ \A x \in Actions : Called(x)' <=> Called(x)
      /\ In(calls, ProcessQueue)' <=> In(calls, ProcessQueue)
  <2>1. /\ \A x \in Actions : Called(x)' <=> In(calls', Execute(x))
        /\ In(calls, ProcessQueue)' <=> In(calls', ProcessQueue)
    BY DEF Called, In
  <2> QED BY <1>3, <2>1, FramesDiffer DEF Called
<1>5. /\ DispatchedOnce' /\ PrioritiesFit' /\ QueueInOrder' /\ CallsInOrder'
      /\ QueueFirst' /\ TasksInOrder' /\ StagesInOrder'
      /\ Queued' = Queued /\ Dispatched' = Dispatched
      /\ \A x : Tasked(x)' <=> Tasked(x)
  BY <1>1, <1>2, <1>3, <1>4, CallsOnly DEF QueueFirst
<1>6. \A x \in Actions : CanExecute(x)' <=> CanExecute(x)
  BY <1>1 DEF CanExecute, HasActiveThunk
<1>7. TypeOK'
  BY <1>1, <1>2, <1>3 DEF TypeOK, Gate!TypeOK
<1>8. Apart'
  BY <1>1, <1>2, <1>4, <1>5 DEF Apart
<1>9. OneRunning'
  BY <1>1, <1>2 DEF OneRunning
<1>10. NothingEligible'
  BY <1>1, <1>2, <1>4, <1>6, QueueEntries DEF NothingEligible
<1> QED
  BY <1>5, <1>7, <1>8, <1>9, <1>10 DEF SchedulingInv
-----------------------------------------------------------------------------
(* Actions end *)

LEMMA ActionProcessedInv ==
    ASSUME SchedulingInv, NEW a \in Actions, ActionProcessed(a)
    PROVE  SchedulingInv'
<1>1. /\ calls = <<>> /\ a \in executor
      /\ executor' = executor \ {a} /\ settled' = settled \cup {a}
      /\ runningTasks' = runningTasks \ {a}
      /\ calls' = IF a \in Tasks THEN <<ProcessTasks, ProcessQueue>> ELSE <<>>
      /\ UNCHANGED <<executing, root, known, begun, queue, running, tasks, reports, dispatched>>
  BY DEF ActionProcessed, Idle, gate, scheduler
<1>2. TypeOK /\ Apart /\ OneRunning /\ NothingEligible
  BY DEF SchedulingInv
<1>3. \A f : ~In(calls, f)
  BY <1>1, IdleCalls
<1>4. /\ calls' \in Seq(Frames) /\ Ordered(calls')
      /\ \A f : In(calls', f) => f = ProcessTasks \/ f = ProcessQueue
      /\ a \in Tasks => In(calls', ProcessQueue)
  <2>1. CASE a \in Tasks
    <3>1. /\ calls' = <<ProcessTasks, ProcessQueue>>
          /\ DOMAIN calls' = {1, 2} /\ calls'[1] = ProcessTasks /\ calls'[2] = ProcessQueue
      BY <1>1, <2>1
    <3>2. calls' \in Seq(Frames)
      BY <3>1, FramesDiffer
    <3> QED BY <3>1, <3>2, FramesDiffer DEF In, Ordered
  <2>2. CASE a \notin Tasks
    BY <1>1, <2>2, NothingIn DEF Ordered
  <2> QED BY <2>1, <2>2
<1>5. /\ \A x \in Actions : ~Called(x)' /\ ~Called(x)
      /\ a \in Tasks => In(calls, ProcessQueue)'
  <2>1. /\ \A x \in Actions : Called(x)' <=> In(calls', Execute(x))
        /\ In(calls, ProcessQueue)' <=> In(calls', ProcessQueue)
    BY DEF Called, In
  <2> QED BY <1>3, <1>4, <2>1, FramesDiffer DEF Called
<1>6. /\ DispatchedOnce' /\ PrioritiesFit' /\ QueueInOrder' /\ CallsInOrder'
      /\ QueueFirst' /\ TasksInOrder' /\ StagesInOrder'
      /\ Queued' = Queued /\ Dispatched' = Dispatched
      /\ \A x : Tasked(x)' <=> Tasked(x)
  BY <1>1, <1>4, <1>5, CallsOnly
<1>7. TypeOK'
  BY <1>1, <1>2, <1>4 DEF TypeOK, Gate!TypeOK
<1>8. Apart'
  <2>1. /\ a \notin Queued /\ ~Tasked(a) /\ a \notin settled
        /\ a \in Dispatched /\ reports[a] = 0
    BY <1>1, <1>2 DEF Apart
  <2> QED BY <1>1, <1>2, <1>5, <1>6, <2>1 DEF Apart
<1>9. OneRunning'
  BY <1>1, <1>2 DEF OneRunning
<1>10. NothingEligible'
  <2>1. SUFFICES ASSUME ~In(calls, ProcessQueue)', NEW i \in DOMAIN queue
                 PROVE  ~CanExecute(queue[i].action)'
    BY <1>1 DEF NothingEligible
  <2>2. runningTasks' = runningTasks
    BY <1>1, <1>2, <1>5, <2>1 DEF TypeOK
  <2>3. ~CanExecute(queue[i].action)
    BY <1>2, <1>3 DEF NothingEligible
  <2> QED BY <1>1, <2>2, <2>3 DEF CanExecute, HasActiveThunk
<1> QED
  BY <1>6, <1>7, <1>8, <1>9, <1>10 DEF SchedulingInv

LEMMA ActionReportedInv ==
    ASSUME SchedulingInv, NEW a \in Actions, ActionReported(a)
    PROVE  SchedulingInv'
<1>1. /\ calls = <<>> /\ a \in settled
      /\ settled' = settled \ {a} /\ running' = running \ {a}
      /\ Report({a})
      /\ calls' = <<ProcessQueue>>
      /\ UNCHANGED <<executing, root, known, begun, queue, tasks, runningTasks, executor,
                     dispatched>>
  BY DEF ActionReported, Idle, gate, taskScheduler
<1>2. TypeOK /\ Apart /\ OneRunning /\ NothingEligible
  BY DEF SchedulingInv
<1>3. \A f : ~In(calls, f)
  BY <1>1, IdleCalls
<1>4. /\ calls' \in Seq(Frames) /\ Ordered(calls')
      /\ \A f : In(calls', f) <=> f = ProcessQueue
  <2>1. DOMAIN calls' = {1}
    BY <1>1
  <2> QED BY <1>1, <2>1, OnlyOne, FramesDiffer DEF Ordered
<1>5. /\ \A x \in Actions : ~Called(x)' /\ ~Called(x)
      /\ In(calls, ProcessQueue)'
  <2>1. /\ \A x \in Actions : Called(x)' <=> In(calls', Execute(x))
        /\ In(calls, ProcessQueue)' <=> In(calls', ProcessQueue)
    BY DEF Called, In
  <2> QED BY <1>3, <1>4, <2>1, FramesDiffer DEF Called
<1>6. /\ DispatchedOnce' /\ PrioritiesFit' /\ QueueInOrder' /\ CallsInOrder'
      /\ QueueFirst' /\ TasksInOrder' /\ StagesInOrder'
      /\ Queued' = Queued /\ Dispatched' = Dispatched
      /\ \A x : Tasked(x)' <=> Tasked(x)
  BY <1>1, <1>4, <1>5, CallsOnly
<1>7. /\ a \notin Queued /\ ~Tasked(a) /\ a \notin executor
      /\ a \in Dispatched /\ reports[a] = 0
  BY <1>1, <1>2 DEF Apart, TypeOK
<1>8. /\ reports' \in [Actions -> Nat]
      /\ reports'[a] = 1
      /\ \A x \in Actions : x # a => reports'[x] = reports[x]
  <2>1. /\ reports \in [Actions -> Nat]
        /\ reports' = [x \in Actions |-> IF x \in {a} THEN reports[x] + 1 ELSE reports[x]]
    BY <1>1, <1>2 DEF Report, TypeOK
  <2>2. \A x \in Actions : reports[x] \in Nat /\ reports[x] + 1 \in Nat
    BY <2>1
  <2>3. reports' \in [Actions -> Nat]
    BY <2>1, <2>2
  <2> QED BY <1>7, <2>1, <2>3
<1>9. TypeOK'
  BY <1>1, <1>2, <1>4, <1>8 DEF TypeOK, Gate!TypeOK
<1>10. Apart'
  <2>1. SUFFICES ASSUME NEW x \in Actions
        PROVE  /\ x \in Queued => ~Tasked(x)
               /\ x \in Queued \/ Tasked(x) => x \notin executor
               /\ x \in Queued \/ Tasked(x) \/ x \in executor => x \notin settled'
               /\ x \in Queued \/ Tasked(x) \/ x \in executor \/ x \in settled' =>
                     x \in Dispatched /\ reports'[x] = 0
               /\ reports'[x] <= 1
               /\ reports'[x] = 1 => x \in Dispatched
    BY <1>1, <1>5, <1>6 DEF Apart
  <2>2. CASE x = a
    BY <1>1, <1>7, <1>8, <2>2
  <2>3. CASE x # a
    <3>1. reports'[x] = reports[x] /\ (x \in settled' <=> x \in settled)
      BY <1>1, <1>8, <2>3
    <3> QED BY <1>2, <3>1 DEF Apart
  <2> QED BY <2>2, <2>3
<1>11. OneRunning'
  BY <1>1, <1>2 DEF OneRunning
<1>12. NothingEligible'
  BY <1>5 DEF NothingEligible
<1> QED
  BY <1>6, <1>9, <1>10, <1>11, <1>12 DEF SchedulingInv
-----------------------------------------------------------------------------
(* Thunks start and end *)

(* Steps of the thunks leave every action where it is. *)
LEMMA ActionsStay ==
    ASSUME SchedulingInv, UNCHANGED actionState, calls = <<>>,
           calls' \in Seq(Frames),
           \A f : In(calls', f) => f = ProcessTasks \/ f = ProcessQueue,
           \A i, j \in DOMAIN calls' : i < j => calls'[i] # calls'[j],
           executing' \subseteq Thunks, root' \in Thunks \cup {None},
           known' \subseteq begun', begun' \subseteq Thunks
    PROVE  /\ TypeOK' /\ DispatchedOnce' /\ Apart' /\ OneRunning' /\ QueueFirst'
           /\ QueueInOrder' /\ CallsInOrder' /\ TasksInOrder' /\ StagesInOrder'
           /\ root' \in {root, None} /\ begun \subseteq begun' => PrioritiesFit'
<1>1. UNCHANGED <<queue, running, tasks, runningTasks, executor, settled, reports, dispatched>>
  BY DEF actionState, scheduler, taskScheduler
<1>2. TypeOK /\ Apart /\ OneRunning
  BY DEF SchedulingInv
<1>3. \A x \in Actions : ~Called(x)' /\ ~Called(x)
  <2>1. \A x \in Actions : Called(x)' <=> In(calls', Execute(x))
    BY DEF Called, In
  <2> QED BY <2>1, IdleCalls, FramesDiffer DEF Called
<1>4. Ordered(calls')
  <2>1. \A i \in DOMAIN calls' : \A a : calls'[i] # Execute(a)
    BY FramesDiffer DEF In
  <2> QED BY <2>1 DEF Ordered
<1>5. /\ DispatchedOnce' /\ QueueInOrder' /\ CallsInOrder'
      /\ root' \in {root, None} /\ begun \subseteq begun' => PrioritiesFit'
      /\ QueueFirst' /\ TasksInOrder' /\ StagesInOrder'
      /\ Queued' = Queued /\ Dispatched' = Dispatched
      /\ \A x : Tasked(x)' <=> Tasked(x)
  BY <1>1, <1>3, <1>4, CallsOnly
<1>6. TypeOK'
  BY <1>1, <1>2 DEF TypeOK, Gate!TypeOK
<1>7. Apart'
  BY <1>1, <1>2, <1>3, <1>5 DEF Apart
<1>8. OneRunning'
  BY <1>1, <1>2 DEF OneRunning
<1> QED BY <1>5, <1>6, <1>7, <1>8

(* When nothing is pending, what is queued cannot execute; without an active
   root there is nothing. *)
LEMMA NothingQueued ==
    ASSUME SchedulingInv, calls = <<>>, root \notin executing
    PROVE  DOMAIN queue = {}
<1>1. NothingEligible /\ ~In(calls, ProcessQueue)
  BY IdleCalls DEF SchedulingInv
<1>2. \A i \in DOMAIN queue : CanExecute(queue[i].action)
  BY DEF CanExecute, HasActiveThunk
<1> QED BY <1>1, <1>2 DEF NothingEligible

LEMMA ThunkBeginsInv ==
    ASSUME SchedulingInv, NEW t \in Thunks, ThunkBegins(t)
    PROVE  SchedulingInv'
<1>1. /\ calls = <<>> /\ calls' = <<>> /\ t \notin begun
      /\ executing' = executing \cup {t}
      /\ root' = IF root = None THEN t ELSE root
      /\ known' = known \cup {t} /\ begun' = begun \cup {t}
      /\ UNCHANGED actionState
  BY DEF ThunkBegins, Gate!Begin
<1>2. /\ TypeOK /\ NothingEligible /\ PrioritiesFit
      /\ executing \subseteq Thunks /\ root \in Thunks \cup {None}
      /\ known \subseteq begun /\ begun \subseteq Thunks
  BY DEF SchedulingInv, TypeOK, Gate!TypeOK
<1>3. /\ calls' \in Seq(Frames) /\ DOMAIN calls' = {} /\ \A f : ~In(calls', f)
  BY <1>1, EmptySeq, NothingIn
<1>4. /\ executing' \subseteq Thunks /\ root' \in Thunks \cup {None}
      /\ known' \subseteq begun' /\ begun' \subseteq Thunks /\ begun \subseteq begun'
  BY <1>1, <1>2
<1>5. /\ TypeOK' /\ DispatchedOnce' /\ Apart' /\ OneRunning' /\ QueueFirst'
      /\ QueueInOrder' /\ CallsInOrder' /\ TasksInOrder' /\ StagesInOrder'
      /\ root' \in {root, None} /\ begun \subseteq begun' => PrioritiesFit'
  BY <1>1, <1>3, <1>4, ActionsStay
<1>6. /\ queue' = queue /\ runningTasks' = runningTasks
  BY <1>1 DEF actionState, scheduler, taskScheduler
<1>7. CASE root \notin executing
  <2>1. DOMAIN queue = {}
    BY <1>1, <1>7, NothingQueued
  <2>2. root' \in begun' \cup {None}
    BY <1>1, <1>2 DEF PrioritiesFit
  <2>3. PrioritiesFit' /\ NothingEligible'
    BY <1>6, <2>1, <2>2 DEF PrioritiesFit, NothingEligible
  <2> QED BY <1>5, <2>3 DEF SchedulingInv
<1>8. CASE root \in executing
  <2>1. root # None /\ root' = root
    BY <1>1, <1>2, <1>8, ActionAssumption
  <2>2. PrioritiesFit'
    BY <1>4, <1>5, <2>1
  <2>3. \A i \in DOMAIN queue : ~CanExecute(queue[i].action)
    BY <1>1, <1>2, IdleCalls DEF NothingEligible
  <2>4. root' \in executing'
    BY <1>1, <1>8, <2>1
  <2>5. NothingEligible'
    BY <1>6, <1>8, <2>1, <2>3, <2>4 DEF NothingEligible, CanExecute, HasActiveThunk
  <2> QED BY <1>5, <2>2, <2>5 DEF SchedulingInv
<1> QED BY <1>7, <1>8

(* A thunk ends: its end is announced if it was the root. *)
LEMMA ThunkEnds ==
    ASSUME SchedulingInv, NEW t \in Thunks,
           UNCHANGED <<actionState, known, begun>>, calls = <<>>,
           calls' \in Seq(Frames),
           \A f : In(calls', f) => f = ProcessTasks \/ f = ProcessQueue,
           \A i, j \in DOMAIN calls' : i < j => calls'[i] # calls'[j],
           executing' = executing \ {t},
           root = t => In(calls', ProcessQueue),
           root' = root \/ (root = t /\ root' = None)
    PROVE  SchedulingInv'
<1>1. /\ NothingEligible /\ root' \in {root, None} /\ begun' = begun
      /\ executing \subseteq Thunks /\ root \in Thunks \cup {None}
      /\ known \subseteq begun /\ begun \subseteq Thunks
  BY DEF SchedulingInv, TypeOK, Gate!TypeOK
<1>2. /\ executing' \subseteq Thunks /\ root' \in Thunks \cup {None}
      /\ known' \subseteq begun' /\ begun' \subseteq Thunks /\ begun \subseteq begun'
  BY <1>1
<1>3. /\ TypeOK' /\ DispatchedOnce' /\ Apart' /\ OneRunning' /\ QueueFirst'
      /\ QueueInOrder' /\ CallsInOrder' /\ TasksInOrder' /\ StagesInOrder'
      /\ PrioritiesFit'
  BY <1>1, <1>2, ActionsStay
<1>4. queue' = queue /\ runningTasks' = runningTasks
  BY DEF actionState, scheduler, taskScheduler
<1>5. In(calls, ProcessQueue)' <=> In(calls', ProcessQueue)
  BY DEF In
<1>6. NothingEligible'
  <2>1. SUFFICES ASSUME ~In(calls, ProcessQueue)', NEW i \in DOMAIN queue
                 PROVE  ~CanExecute(queue[i].action)'
    BY <1>4 DEF NothingEligible
  <2>2. root # t /\ root' = root
    BY <1>5, <2>1
  <2>3. root' \in executing' <=> root \in executing
    BY <2>2
  <2>4. ~CanExecute(queue[i].action)
    BY <1>1, IdleCalls DEF NothingEligible
  <2> QED BY <1>4, <2>2, <2>3, <2>4 DEF CanExecute, HasActiveThunk
<1> QED BY <1>3, <1>6 DEF SchedulingInv

LEMMA ThunkCompletesInv ==
    ASSUME SchedulingInv, NEW t \in Thunks, ThunkCompletes(t)
    PROVE  SchedulingInv'
<1>1. /\ calls = <<>>
      /\ executing' = executing \ {t} /\ root' = IF root = t THEN None ELSE root
      /\ calls' = (IF root = t THEN <<ProcessQueue>> ELSE <<>>) \o <<ProcessTasks>>
      /\ UNCHANGED <<known, begun, actionState>>
  BY DEF ThunkCompletes, Idle, Gate!Complete
<1>2. CASE root = t
  <2>1. calls' = <<ProcessQueue>> \o <<ProcessTasks>>
    BY <1>1, <1>2
  <2>2. /\ calls' \in Seq(Frames) /\ DOMAIN calls' = {1, 2}
        /\ calls'[1] = ProcessQueue /\ calls'[2] = ProcessTasks
    <3> DEFINE c == <<ProcessQueue>>
               d == <<ProcessTasks>>
    <3>1. /\ c \in Seq(Frames) /\ Len(c) = 1 /\ c[1] = ProcessQueue
          /\ d \in Seq(Frames) /\ Len(d) = 1 /\ d[1] = ProcessTasks
      BY FramesDiffer
    <3> HIDE DEF c, d
    <3>2. /\ c \o d \in Seq(Frames) /\ Len(c \o d) = 2
          /\ (c \o d)[1] = ProcessQueue /\ (c \o d)[2] = ProcessTasks
      BY <3>1, ConcatProperties
    <3>3. DOMAIN (c \o d) = {1, 2}
      BY <3>2
    <3> QED BY <2>1, <3>2, <3>3 DEF c, d
  <2>3. /\ \A f : In(calls', f) => f = ProcessTasks \/ f = ProcessQueue
        /\ In(calls', ProcessQueue)
        /\ \A i, j \in DOMAIN calls' : i < j => calls'[i] # calls'[j]
    BY <2>2, FramesDiffer DEF In
  <2> QED BY <1>1, <1>2, <2>2, <2>3, ThunkEnds
<1>3. CASE root # t
  <2>1. calls' = <<ProcessTasks>>
    BY <1>1, <1>3
  <2>2. /\ calls' \in Seq(Frames) /\ DOMAIN calls' = {1}
        /\ \A f : In(calls', f) <=> f = ProcessTasks
    BY <2>1, OnlyOne, FramesDiffer
  <2>3. \A i, j \in DOMAIN calls' : ~(i < j)
    BY <2>2
  <2> QED BY <1>1, <1>3, <2>2, <2>3, ThunkEnds
<1> QED BY <1>2, <1>3

LEMMA ThunkFailsInv ==
    ASSUME SchedulingInv, NEW t \in Thunks, ThunkFails(t)
    PROVE  SchedulingInv'
<1>1. /\ calls = <<>>
      /\ executing' = executing \ {t} /\ root' = root
      /\ calls' = IF root = t THEN <<ProcessQueue>> ELSE <<>>
      /\ UNCHANGED <<known, begun, actionState>>
  BY DEF ThunkFails, Idle, Gate!Fail
<1>2. /\ calls' \in Seq(Frames)
      /\ \A f : In(calls', f) => f = ProcessQueue
      /\ root = t => In(calls', ProcessQueue)
      /\ \A i, j \in DOMAIN calls' : ~(i < j)
  <2>1. CASE root = t
    <3>1. calls' = <<ProcessQueue>>
      BY <1>1, <2>1
    <3>2. /\ calls' \in Seq(Frames) /\ DOMAIN calls' = {1}
          /\ \A f : In(calls', f) <=> f = ProcessQueue
      BY <3>1, OnlyOne, FramesDiffer
    <3> QED BY <3>2
  <2>2. CASE root # t
    BY <1>1, <2>2, EmptySeq, NothingIn
  <2> QED BY <2>1, <2>2
<1> QED BY <1>1, <1>2, ThunkEnds

LEMMA RootReleasedInv ==
    ASSUME SchedulingInv, RootReleased
    PROVE  SchedulingInv'
<1>1. /\ calls = <<>> /\ calls' = <<>> /\ root \notin executing /\ root' = None
      /\ UNCHANGED <<executing, known, begun, actionState>>
  BY DEF RootReleased, Gate!Release
<1>2. /\ executing \subseteq Thunks /\ known \subseteq begun /\ begun \subseteq Thunks
  BY DEF SchedulingInv, TypeOK, Gate!TypeOK
<1>3. /\ calls' \in Seq(Frames) /\ DOMAIN calls' = {} /\ \A f : ~In(calls', f)
  BY <1>1, EmptySeq, NothingIn
<1>4. /\ TypeOK' /\ DispatchedOnce' /\ Apart' /\ OneRunning' /\ QueueFirst'
      /\ QueueInOrder' /\ CallsInOrder' /\ TasksInOrder' /\ StagesInOrder'
      /\ PrioritiesFit'
  BY <1>1, <1>2, <1>3, ActionsStay
<1>5. queue' = queue
  BY <1>1 DEF actionState, scheduler
<1>6. NothingEligible'
  BY <1>1, <1>5, NothingQueued DEF NothingEligible
<1> QED BY <1>4, <1>6 DEF SchedulingInv

LEMMA ThunkForgottenInv ==
    ASSUME SchedulingInv, NEW t \in Thunks, ThunkForgotten(t)
    PROVE  SchedulingInv'
<1>1. /\ calls = <<>> /\ calls' = <<>> /\ known' = known \ {t}
      /\ UNCHANGED <<executing, root, begun, actionState>>
  BY DEF ThunkForgotten, Idle
<1>2. /\ executing \subseteq Thunks /\ known \subseteq begun /\ begun \subseteq Thunks
      /\ root \in Thunks \cup {None} /\ NothingEligible
  BY DEF SchedulingInv, TypeOK, Gate!TypeOK
<1>3. /\ calls' \in Seq(Frames) /\ DOMAIN calls' = {} /\ \A f : ~In(calls', f)
  BY <1>1, EmptySeq, NothingIn
<1>4. /\ TypeOK' /\ DispatchedOnce' /\ Apart' /\ OneRunning' /\ QueueFirst'
      /\ QueueInOrder' /\ CallsInOrder' /\ TasksInOrder' /\ StagesInOrder'
      /\ PrioritiesFit'
  BY <1>1, <1>2, <1>3, ActionsStay
<1>5. queue' = queue /\ runningTasks' = runningTasks
  BY <1>1 DEF actionState, scheduler, taskScheduler
<1>6. NothingEligible'
  BY <1>1, <1>2, <1>5 DEF NothingEligible, CanExecute, HasActiveThunk
<1> QED BY <1>4, <1>6 DEF SchedulingInv
-----------------------------------------------------------------------------
(* The invariant, and what it shows *)

LEMMA InitInv == Init => SchedulingInv
<1> SUFFICES ASSUME Init PROVE SchedulingInv
  OBVIOUS
<1>1. /\ executing = {} /\ root = None /\ known = {} /\ begun = {}
      /\ queue = <<>> /\ running = {} /\ tasks = <<>> /\ runningTasks = {}
      /\ executor = {} /\ settled = {} /\ reports = [a \in Actions |-> 0]
      /\ dispatched = <<>> /\ calls = <<>>
  BY DEF Init, Gate!Init
<1>2. /\ DOMAIN queue = {} /\ DOMAIN tasks = {} /\ DOMAIN dispatched = {}
      /\ DOMAIN calls = {}
  BY <1>1, NothingIn
<1>3. TypeOK
  BY <1>1, EmptySeq DEF TypeOK, Gate!TypeOK
<1>4. /\ Queued = {} /\ \A f : ~In(calls, f) /\ \A a : ~Tasked(a)
  BY <1>1, <1>2 DEF Queued, Tasked, In
<1>5. \A a \in Actions : reports[a] = 0
  BY <1>1
<1>6. Apart
  BY <1>1, <1>4, <1>5 DEF Apart, Called
<1>7. DispatchedOnce /\ OneRunning /\ QueueFirst /\ NothingEligible
  BY <1>1, <1>2, <1>4 DEF DispatchedOnce, OneRunning, QueueFirst, NothingEligible
<1>8. PrioritiesFit /\ QueueInOrder /\ CallsInOrder /\ TasksInOrder
  BY <1>1, <1>2 DEF PrioritiesFit, QueueInOrder, CallsInOrder, TasksInOrder
<1>9. StagesInOrder
  BY <1>4 DEF StagesInOrder, Called
<1> QED BY <1>3, <1>6, <1>7, <1>8, <1>9 DEF SchedulingInv

LEMMA NextInv == SchedulingInv /\ [Next]_vars => SchedulingInv'
<1> SUFFICES ASSUME SchedulingInv, [Next]_vars PROVE SchedulingInv'
  OBVIOUS
<1>1. CASE DecideQueue
  BY <1>1, DecideQueueInv
<1>2. CASE StartTask
  BY <1>2, StartTaskInv
<1>3. CASE NoTaskToStart
  BY <1>3, NoTaskToStartInv
<1>4. ASSUME NEW a \in Actions, ExecuteDirectly(a) \/ ExecuteAsTask(a) PROVE SchedulingInv'
  BY <1>4, ExecuteDirectlyInv, ExecuteAsTaskInv
<1>5. ASSUME NEW a \in Actions, EnqueueAndExecute(a) PROVE SchedulingInv'
  BY <1>5, EnqueueAndExecuteInv
<1>6. ASSUME NEW a \in Actions, EnqueueAndWait(a) PROVE SchedulingInv'
  BY <1>6, EnqueueAndWaitInv
<1>7. ASSUME NEW a \in Actions, EnqueueAndOverflow(a) PROVE SchedulingInv'
  BY <1>7, EnqueueAndOverflowInv
<1>8. ASSUME NEW a \in Actions, ActionProcessed(a) \/ ActionReported(a) PROVE SchedulingInv'
  BY <1>8, ActionProcessedInv, ActionReportedInv
<1>9. ASSUME NEW t \in Thunks, ThunkBegins(t) \/ ThunkCompletes(t) PROVE SchedulingInv'
  BY <1>9, ThunkBeginsInv, ThunkCompletesInv
<1>10. ASSUME NEW t \in Thunks, ThunkFails(t) \/ ThunkForgotten(t) PROVE SchedulingInv'
  BY <1>10, ThunkFailsInv, ThunkForgottenInv
<1>11. CASE RootReleased
  BY <1>11, RootReleasedInv
<1>12. CASE UNCHANGED vars
  <2>1. /\ UNCHANGED <<executing, root, known, begun, actionState, calls>>
        /\ UNCHANGED <<queue, running, tasks, runningTasks, executor, settled, reports,
                       dispatched>>
    BY <1>12 DEF vars, gate, scheduler, taskScheduler, actionState
  <2>2. /\ TypeOK' /\ DispatchedOnce' /\ Apart' /\ OneRunning' /\ QueueFirst'
    BY <2>1 DEF SchedulingInv, TypeOK, Gate!TypeOK, DispatchedOnce, Apart, OneRunning,
                QueueFirst, Queued, Called, Tasked, In, Dispatched
  <2>3. /\ NothingEligible' /\ PrioritiesFit' /\ QueueInOrder' /\ CallsInOrder'
        /\ TasksInOrder' /\ StagesInOrder'
    BY <2>1 DEF SchedulingInv, NothingEligible, PrioritiesFit, QueueInOrder, CallsInOrder,
                TasksInOrder, StagesInOrder, CanExecute, HasActiveThunk, Earlier, Before,
                Queued, Called, Tasked, In
  <2> QED BY <2>2, <2>3 DEF SchedulingInv
<1> QED
  BY <1>1, <1>2, <1>3, <1>4, <1>5, <1>6, <1>7, <1>8, <1>9, <1>10, <1>11, <1>12
  DEF Next, Code

(* What the scheduler's bookkeeping is about holds for any thunks, actions and
   size of the queue. *)
THEOREM SchedulingHolds == Spec => []SchedulingInv
BY InitInv, NextInv, PTL DEF Spec

(* Each action is in one place of the schedulers, and onComplete is called once
   at most, after it has left them all; one task runs at a time: OnePlace. *)
THEOREM InOnePlace == Spec => []OnePlace
<1>1. ASSUME SchedulingInv PROVE OnePlace
  <2> DEFINE Places(a) == <<a \in Queued, Called(a), Tasked(a), a \in executor,
                            a \in settled, reports[a] > 0>>
  <2>1. TypeOK /\ Apart /\ OneRunning
    BY <1>1 DEF SchedulingInv
  <2>2. ASSUME NEW a \in Actions
        PROVE  reports[a] <= 1 /\ Cardinality({i \in 1 .. 6 : Places(a)[i]}) <= 1
    <3> DEFINE held == {i \in 1 .. 6 : Places(a)[i]}
    <3>1. reports[a] \in Nat /\ reports[a] <= 1
      BY <2>1 DEF TypeOK, Apart
    <3>2. /\ 1 \in held <=> a \in Queued
          /\ 2 \in held <=> Called(a)
          /\ 3 \in held <=> Tasked(a)
          /\ 4 \in held <=> a \in executor
          /\ 5 \in held <=> a \in settled
          /\ 6 \in held <=> reports[a] > 0
      <4>1. /\ Places(a)[1] = (a \in Queued) /\ Places(a)[2] = Called(a)
            /\ Places(a)[3] = Tasked(a) /\ Places(a)[4] = (a \in executor)
            /\ Places(a)[5] = (a \in settled) /\ Places(a)[6] = (reports[a] > 0)
        OBVIOUS
      <4> HIDE DEF Places
      <4>2. \A i \in {1, 2, 3, 4, 5, 6} : i \in held <=> Places(a)[i]
        OBVIOUS
      <4> QED BY <4>1, <4>2
    <3>3. held \subseteq 1 .. 6
      OBVIOUS
    <3> HIDE DEF held
    <3>4. \A i, j \in held : i = j
      <4>1. \A i \in held : i = 1 \/ i = 2 \/ i = 3 \/ i = 4 \/ i = 5 \/ i = 6
        BY <3>3
      <4>2. /\ 1 \in held => 2 \notin held
            /\ 1 \in held \/ 2 \in held => 3 \notin held
            /\ 1 \in held \/ 2 \in held \/ 3 \in held => 4 \notin held
            /\ 1 \in held \/ 2 \in held \/ 3 \in held \/ 4 \in held => 5 \notin held
            /\ 1 \in held \/ 2 \in held \/ 3 \in held \/ 4 \in held \/ 5 \in held =>
                  6 \notin held
        BY <2>1, <3>1, <3>2 DEF Apart
      <4> QED BY <4>1, <4>2
    <3>5. Cardinality(held) <= 1
      <4>1. CASE held = {}
        BY <4>1, FS_EmptySet
      <4>2. ASSUME NEW i \in held PROVE Cardinality(held) <= 1
        <5>1. held = {i}
          BY <3>4, <4>2
        <5> QED BY <5>1, FS_Singleton
      <4> QED BY <4>1, <4>2
    <3> QED BY <3>1, <3>5 DEF held
  <2>3. runningTasks = executor \cap Tasks /\ \A a, b \in runningTasks : a = b
    BY <2>1 DEF OneRunning
  <2> QED BY <2>1, <2>2, <2>3 DEF OnePlace, Called, Tasked, In
<1> QED BY <1>1, SchedulingHolds, PTL

(* No action is left in the queue when the event loop is free and no root
   executes: NoStrandedAction. *)
THEOREM NoneStranded == Spec => []NoStrandedAction
<1>1. ASSUME SchedulingInv PROVE NoStrandedAction
  <2>1. SUFFICES ASSUME Idle, ~HasActiveThunk PROVE queue = <<>>
    BY DEF NoStrandedAction
  <2>2. NothingEligible /\ queue \in Seq(QueuedAction)
    BY <1>1 DEF SchedulingInv, TypeOK
  <2>3. ~In(calls, ProcessQueue)
    BY <2>1, IdleCalls DEF Idle
  <2>4. DOMAIN queue = {}
    BY <2>1, <2>2, <2>3 DEF NothingEligible, CanExecute
  <2> QED BY <2>2, <2>4, EmptySeq
<1> QED BY <1>1, SchedulingHolds, PTL

(* Only these two steps give an action to the state manager. *)
LEMMA StepsThatStart ==
    ASSUME Next, NEW b \in Actions, Starts(b)
    PROVE  \/ ExecuteDirectly(b)
           \/ StartTask /\ b = Head(tasks)
<1>1. CASE DecideQueue
  BY <1>1 DEF DecideQueue, Starts
<1>2. CASE StartTask
  BY <1>2 DEF StartTask, Starts
<1>3. CASE NoTaskToStart
  BY <1>3 DEF NoTaskToStart, Starts
<1>4. ASSUME NEW a \in Actions, ExecuteDirectly(a) PROVE ExecuteDirectly(b)
  <2>1. a = b
    BY <1>4 DEF ExecuteDirectly, Starts
  <2> QED BY <1>4, <2>1
<1>5. ASSUME NEW a \in Actions,
             \/ ExecuteAsTask(a) \/ EnqueueAndExecute(a) \/ EnqueueAndWait(a)
             \/ EnqueueAndOverflow(a) \/ ActionProcessed(a) \/ ActionReported(a)
      PROVE  FALSE
  BY <1>5 DEF Starts, ExecuteAsTask, EnqueueAndExecute, EnqueueAndWait,
              EnqueueAndOverflow, ActionProcessed, ActionReported
<1>6. ASSUME NEW t \in Thunks,
             ThunkBegins(t) \/ ThunkCompletes(t) \/ ThunkFails(t) \/ ThunkForgotten(t)
      PROVE  FALSE
  BY <1>6 DEF Starts, ThunkBegins, ThunkCompletes, ThunkFails, ThunkForgotten, actionState
<1>7. CASE RootReleased
  BY <1>7 DEF RootReleased, Starts, actionState
<1> QED BY <1>1, <1>2, <1>3, <1>4, <1>5, <1>6, <1>7 DEF Next, Code

(* No action reaches the state manager before an earlier one of its stream that
   is still waiting: NoOvertaking. *)
THEOREM NoneOvertakes == Spec => NoOvertaking
<1>1. ASSUME SchedulingInv, Next,
             NEW i \in DOMAIN dispatched, NEW j \in DOMAIN dispatched,
             i < j, SameStream(dispatched[i], dispatched[j]), Starts(dispatched[j])
      PROVE  ~Waits(dispatched[i])
  <2> DEFINE a == dispatched[i]
             b == dispatched[j]
  <2>1. /\ TypeOK /\ DispatchedOnce /\ CallsInOrder /\ TasksInOrder /\ StagesInOrder
        /\ dispatched \in Seq(Actions) /\ tasks \in Seq(Tasks)
    BY <1>1 DEF SchedulingInv, TypeOK
  <2>2. a \in Actions /\ b \in Actions /\ i \in Nat /\ j \in Nat
    BY <2>1, LenProperties
  <2>3. Earlier(a, b) /\ a # b
    BY <1>1, <2>1, <2>2 DEF Earlier, Before, DispatchedOnce
  <2>4. SameStream(a, b) /\ Starts(b)
    BY <1>1
  <2> HIDE DEF a, b
  <2>5. a \in Tasks <=> b \in Tasks
    BY <2>2, <2>4, StreamsAgree
  <2>6. CASE ExecuteDirectly(b)
    <3>1. calls # <<>> /\ Head(calls) = Execute(b) /\ b \notin Tasks
      BY <2>6 DEF ExecuteDirectly, Calling
    <3>2. /\ \A f : In(calls, f) <=> f = Head(calls) \/ In(Tail(calls), f)
          /\ In(Tail(calls), Execute(a)) => ~Earlier(a, b)
      BY <2>1, <2>2, <3>1, HeadReturns
    <3>3. ~Called(a)
      BY <2>3, <3>1, <3>2, FramesDiffer DEF Called
    <3>4. Called(b)
      BY <3>1, <3>2 DEF Called
    <3>5. a \notin Queued /\ ~Tasked(a)
      BY <2>1, <2>2, <2>3, <2>5, <3>1, <3>4, TaskEntries DEF StagesInOrder
    <3> QED BY <3>3, <3>5 DEF Waits, Called, Tasked, In, a
  <2>7. CASE StartTask /\ b = Head(tasks)
    <3>1. tasks # <<>>
      BY <2>7 DEF StartTask
    <3>2. /\ 1 \in DOMAIN tasks /\ tasks[1] = b
          /\ \A f : In(tasks, f) <=> f = b \/ In(Tail(tasks), f)
          /\ \A f : In(Tail(tasks), f) => \E k \in DOMAIN tasks : 1 < k /\ tasks[k] = f
      BY <2>1, <2>7, <3>1, Returned
    <3>3. Tasked(b)
      BY <3>2 DEF Tasked
    <3>4. a \notin Queued /\ ~Called(a)
      BY <2>1, <2>2, <2>3, <3>3 DEF StagesInOrder
    <3>5. ~Tasked(a)
      BY <2>1, <2>3, <3>2 DEF Tasked, TasksInOrder
    <3> QED BY <3>4, <3>5 DEF Waits, Called, Tasked, In, a
  <2> QED BY <1>1, <2>2, <2>4, <2>6, <2>7, StepsThatStart
<1>2. SchedulingInv /\ [Next]_vars =>
         [\A i, j \in DOMAIN dispatched :
             /\ i < j
             /\ SameStream(dispatched[i], dispatched[j])
             /\ Starts(dispatched[j])
             => ~Waits(dispatched[i])]_vars
  BY <1>1
<1> QED BY <1>2, SchedulingHolds, PTL DEF Spec, NoOvertaking
=============================================================================
