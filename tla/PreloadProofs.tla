--------------------------- MODULE PreloadProofs ----------------------------
(***************************************************************************)
(* What the preload script promises for the state it holds and the actions *)
(* it collects.                                                            *)
(*                                                                         *)
(* The subscriptions of a window to nested keys (NestedSync), for every    *)
(* set of keys and of values, of any depth, and any number of changes and  *)
(* calls: what the window may read is what the store has there, what it    *)
(* may dispatch for is there, and a root that leaves the store leaves      *)
(* nothing behind. Values are sets of paths, and two of them are compared  *)
(* path by path (Agree). The copy is right at every path the window may    *)
(* read (Fresh), not only at the keys it subscribed, since a key that      *)
(* comes overwrites what is around it; and it stays right because each     *)
(* subscription compares with what the store has at its keys (Baselines)   *)
(* and because every path that may be read and changes lies below one that *)
(* a subscription compares (Covering).                                     *)
(*                                                                         *)
(* The scheduling of the ActionBatcher, for any actions, any callers of    *)
(* flushWithResult and any limits: no queue is left behind, no two batches *)
(* are on their way, and no caller waits for a flush that is over. The two *)
(* invariants need the type invariant, since a batch in progress is told   *)
(* from none by its id, its place in sent, not being 0. Then that an       *)
(* action is in one place and is settled once, and that what has one       *)
(* priority is sent in the order it was enqueued in.                       *)
(***************************************************************************)
EXTENDS ActionBatcher, NestedSync, SequenceTheorems, FiniteSetTheorems,
        WellFoundedInduction, TLAPS

-----------------------------------------------------------------------------
(* Nested keys *)

Paths == Seq(Names)

(* A prefix goes along with the path. *)
LEMMA PrefixChars ==
    ASSUME NEW p \in Paths, NEW r \in Paths
    PROVE  IsPrefix(p, r) <=> Len(p) <= Len(r) /\ \A i \in 1..Len(p) : p[i] = r[i]
<1>1. /\ Len(p) \in Nat /\ Len(r) \in Nat
      /\ \A i \in 1..Len(p) : p[i] \in Names
      /\ \A i \in 1..Len(r) : r[i] \in Names
  BY LenProperties, ElementOfSeq DEF Paths
<1>2. SubSeq(p, 1, Len(p)) = p
  BY SubSeqFull DEF Paths
<1>3. ASSUME Len(p) <= Len(r)
      PROVE  (SubSeq(p, 1, Len(p)) = SubSeq(r, 1, Len(p))) <=> \A i \in 1..Len(p) : p[i] = r[i]
  <2> DEFINE s == SubSeq(r, 1, Len(p))
  <2>1. \A i \in 1..Len(p) : r[i] \in Names
    BY <1>1, <1>3
  <2>2. /\ s \in Seq(Names) /\ Len(s) = Len(p)
        /\ \A i \in 1..Len(p) : s[i] = r[i]
    <3>1. /\ s \in Seq(Names) /\ Len(s) = IF 1 <= Len(p) THEN Len(p) - 1 + 1 ELSE 0
          /\ \A i \in 1..(Len(p) - 1 + 1) : s[i] = r[1 + i - 1]
      BY <1>1, <2>1, SubSeqProperties
    <3> QED BY <3>1, <1>1
  <2> HIDE DEF s
  <2>3. (p = s) <=> \A i \in 1..Len(p) : p[i] = s[i]
    BY <2>2, SeqEqual DEF Paths
  <2> QED BY <1>2, <2>2, <2>3 DEF s
<1> QED BY <1>3 DEF IsPrefix

LEMMA LenNat == \A p \in Paths : Len(p) \in Nat
BY LenProperties DEF Paths

LEMMA PathsEqual ==
    \A p, r \in Paths : Len(p) = Len(r) /\ (\A i \in 1..Len(p) : p[i] = r[i]) => p = r
BY SeqEqual DEF Paths

(* To be a prefix is a partial order, and total below one path. *)
LEMMA PrefixOrder ==
    /\ \A p \in Paths : IsPrefix(p, p)
    /\ \A p, q, r \in Paths : IsPrefix(p, q) /\ IsPrefix(q, r) => IsPrefix(p, r)
    /\ \A p, q \in Paths : IsPrefix(p, q) /\ IsPrefix(q, p) => p = q
    /\ \A p, q, r \in Paths : IsPrefix(p, r) /\ IsPrefix(q, r) => Related(p, q)
    /\ \A p, q \in Paths : IsPrefix(p, q) => Len(p) <= Len(q)
    /\ \A p, q \in Paths : IsPrefix(p, q) /\ Len(p) = Len(q) => p = q
<1>1. \A p \in Paths : IsPrefix(p, p)
  BY PrefixChars, LenNat
<1>2. \A p, q, r \in Paths : IsPrefix(p, q) /\ IsPrefix(q, r) => IsPrefix(p, r)
  BY PrefixChars, LenNat
<1>3. \A p, q \in Paths : IsPrefix(p, q) => Len(p) <= Len(q)
  BY PrefixChars
<1>4. \A p, q \in Paths : IsPrefix(p, q) /\ Len(p) = Len(q) => p = q
  BY PrefixChars, PathsEqual
<1>5. \A p, q \in Paths : IsPrefix(p, q) /\ IsPrefix(q, p) => p = q
  <2> SUFFICES ASSUME NEW p \in Paths, NEW q \in Paths, IsPrefix(p, q), IsPrefix(q, p)
               PROVE  p = q
    OBVIOUS
  <2>1. Len(p) = Len(q)
    BY <1>3, LenNat
  <2> QED BY <1>4, <2>1
<1>6. \A p, q, r \in Paths : IsPrefix(p, r) /\ IsPrefix(q, r) => Related(p, q)
  <2> SUFFICES ASSUME NEW p \in Paths, NEW q \in Paths, NEW r \in Paths,
                      IsPrefix(p, r), IsPrefix(q, r)
               PROVE  Related(p, q)
    OBVIOUS
  <2>1. Len(p) \in Nat /\ Len(q) \in Nat
    BY LenNat
  <2>2. (\A i \in 1..Len(p) : p[i] = r[i]) /\ (\A i \in 1..Len(q) : q[i] = r[i])
    BY PrefixChars
  <2>3. CASE Len(p) <= Len(q)
    BY <2>1, <2>2, <2>3, PrefixChars DEF Related
  <2>4. CASE Len(q) <= Len(p)
    BY <2>1, <2>2, <2>4, PrefixChars DEF Related
  <2> QED BY <2>1, <2>3, <2>4
<1> QED BY <1>1, <1>2, <1>3, <1>4, <1>5, <1>6

LEMMA EmptyPath ==
    /\ <<>> \in Paths /\ Len(<<>>) = 0
    /\ \A p \in Paths : IsPrefix(<<>>, p) /\ (IsPrefix(p, <<>>) => p = <<>>)
    /\ \A p \in Paths : Len(p) = 0 => p = <<>>
<1>1. <<>> \in Paths /\ Len(<<>>) = 0
  BY EmptySeq DEF Paths
<1>2. \A p \in Paths : Len(p) = 0 => p = <<>>
  BY <1>1, PathsEqual
<1>3. ASSUME NEW p \in Paths
      PROVE  IsPrefix(<<>>, p) /\ (IsPrefix(p, <<>>) => p = <<>>)
  <2>1. IsPrefix(<<>>, p)
    BY <1>1, PrefixChars, LenNat
  <2> QED BY <2>1, <1>1, PrefixOrder
<1> QED BY <1>1, <1>2, <1>3

(* The start of a path of a given length. *)
LEMMA StartOf ==
    ASSUME NEW r \in Paths, NEW n \in 0..Len(r)
    PROVE  /\ SubSeq(r, 1, n) \in Paths /\ Len(SubSeq(r, 1, n)) = n
           /\ IsPrefix(SubSeq(r, 1, n), r)
<1> DEFINE s == SubSeq(r, 1, n)
<1>1. Len(r) \in Nat /\ n \in Nat /\ n <= Len(r) /\ \A i \in 1..n : r[i] \in Names
  BY LenNat, ElementOfSeq DEF Paths
<1>2. /\ s \in Seq(Names) /\ Len(s) = IF 1 <= n THEN n - 1 + 1 ELSE 0
      /\ \A i \in 1..(n - 1 + 1) : s[i] = r[1 + i - 1]
  BY <1>1, SubSeqProperties
<1>3. s \in Paths /\ Len(s) = n /\ \A i \in 1..n : s[i] = r[i]
  BY <1>1, <1>2 DEF Paths
<1> HIDE DEF s
<1>4. IsPrefix(s, r)
  BY <1>1, <1>3, PrefixChars
<1> QED BY <1>3, <1>4 DEF s

(* What is above a path are the prefixes that are not the path. *)
LEMMA AbovePrefixes ==
    ASSUME NEW r \in Paths
    PROVE  Above(r) = {q \in Paths : IsPrefix(q, r) /\ q # r}
<1>1. Len(r) \in Nat
  BY LenNat
<1>2. ASSUME NEW q \in Above(r)
      PROVE  q \in Paths /\ IsPrefix(q, r) /\ q # r
  <2>1. PICK i \in 0..(Len(r) - 1) : q = SubSeq(r, 1, i)
    BY DEF Above
  <2>2. i \in 0..Len(r) /\ i # Len(r)
    BY <1>1
  <2> QED BY <2>1, <2>2, StartOf
<1>3. ASSUME NEW q \in Paths, IsPrefix(q, r), q # r
      PROVE  q \in Above(r)
  <2>1. Len(q) \in Nat /\ Len(q) <= Len(r) /\ Len(q) # Len(r)
    BY <1>3, LenNat, PrefixOrder
  <2>2. Len(q) \in 0..Len(r) /\ Len(q) \in 0..(Len(r) - 1)
    BY <1>1, <2>1
  <2>3. /\ SubSeq(r, 1, Len(q)) \in Paths /\ Len(SubSeq(r, 1, Len(q))) = Len(q)
        /\ IsPrefix(SubSeq(r, 1, Len(q)), r)
    BY <2>2, StartOf
  <2>4. q = SubSeq(r, 1, Len(q))
    <3> DEFINE s == SubSeq(r, 1, Len(q))
    <3>1. s \in Paths /\ Len(s) = Len(q) /\ IsPrefix(s, r)
      BY <2>3
    <3> HIDE DEF s
    <3>2. IsPrefix(q, s) \/ IsPrefix(s, q)
      BY <1>3, <3>1, PrefixOrder DEF Related
    <3>3. q = s
      BY <1>3, <3>1, <3>2, PrefixOrder
    <3> QED BY <3>3 DEF s
  <2> QED BY <2>2, <2>4 DEF Above
<1> QED BY <1>2, <1>3

(* The first name of a key. *)
LEMMA Roots ==
    ASSUME NEW p \in Paths, Len(p) > 0
    PROVE  /\ Root(p) \in Paths /\ Len(Root(p)) = 1 /\ IsPrefix(Root(p), p)
           /\ \A q \in Paths : Len(q) = 1 /\ IsPrefix(q, p) => q = Root(p)
<1>1. 1 \in 0..Len(p)
  BY LenNat
<1>2. Root(p) \in Paths /\ Len(Root(p)) = 1 /\ IsPrefix(Root(p), p)
  BY <1>1, StartOf DEF Root
<1>3. ASSUME NEW q \in Paths, Len(q) = 1, IsPrefix(q, p)
      PROVE  q = Root(p)
  <2>1. Related(q, Root(p))
    BY <1>2, <1>3, PrefixOrder
  <2> QED BY <1>2, <1>3, <2>1, PrefixOrder DEF Related
<1> QED BY <1>2, <1>3

(* The rest of a path and the path put together again. *)
LEMMA Concatenation ==
    ASSUME NEW p \in Paths, NEW q \in Paths
    PROVE  /\ p \o q \in Paths /\ IsPrefix(p, p \o q) /\ After(p, p \o q) = q
           /\ Len(p \o q) = Len(p) + Len(q)
<1>1. /\ p \o q \in Paths /\ Len(p \o q) = Len(p) + Len(q)
      /\ \A i \in 1..(Len(p) + Len(q)) : (p \o q)[i] = IF i <= Len(p) THEN p[i] ELSE q[i - Len(p)]
  BY ConcatProperties DEF Paths
<1>2. Len(p) \in Nat /\ Len(q) \in Nat /\ \A i \in 1..Len(q) : q[i] \in Names
  BY LenNat, ElementOfSeq DEF Paths
<1> DEFINE r == p \o q
           s == SubSeq(r, Len(p) + 1, Len(r))
<1>3. r \in Paths /\ Len(r) = Len(p) + Len(q)
  BY <1>1
<1>4. /\ \A i \in 1..Len(p) : r[i] = p[i]
      /\ \A i \in 1..Len(q) : r[Len(p) + i] = q[i]
  BY <1>1, <1>2
<1>5. \A i \in 1..Len(r) : r[i] \in Names
  BY <1>3, ElementOfSeq DEF Paths
<1> HIDE DEF r
<1>6. IsPrefix(p, r)
  BY <1>2, <1>3, <1>4, PrefixChars
<1>7. /\ s \in Seq(Names)
      /\ Len(s) = IF Len(p) + 1 <= Len(r) THEN Len(r) - (Len(p) + 1) + 1 ELSE 0
      /\ \A i \in 1..(Len(r) - (Len(p) + 1) + 1) : s[i] = r[Len(p) + 1 + i - 1]
  <2>1. Len(p) + 1 \in Int /\ Len(r) \in Int /\ \A i \in (Len(p) + 1)..Len(r) : r[i] \in Names
    BY <1>2, <1>3, <1>5
  <2> QED BY <2>1, SubSeqProperties
<1>8. s \in Paths /\ Len(s) = Len(q) /\ \A i \in 1..Len(q) : s[i] = q[i]
  BY <1>2, <1>3, <1>4, <1>7 DEF Paths
<1>9. s = q
  <2> HIDE DEF s
  <2> QED BY <1>8, PathsEqual
<1> QED BY <1>3, <1>6, <1>9 DEF r, After

LEMMA Division ==
    ASSUME NEW p \in Paths, NEW r \in Paths, IsPrefix(p, r)
    PROVE  After(p, r) \in Paths /\ p \o After(p, r) = r /\ Len(r) = Len(p) + Len(After(p, r))
<1>1. /\ Len(p) \in Nat /\ Len(r) \in Nat /\ Len(p) <= Len(r)
      /\ \A i \in 1..Len(p) : p[i] = r[i]
      /\ \A i \in 1..Len(r) : r[i] \in Names
  BY LenNat, PrefixChars, ElementOfSeq DEF Paths
<1> DEFINE s == SubSeq(r, Len(p) + 1, Len(r))
<1>2. /\ s \in Seq(Names)
      /\ Len(s) = IF Len(p) + 1 <= Len(r) THEN Len(r) - (Len(p) + 1) + 1 ELSE 0
      /\ \A i \in 1..(Len(r) - (Len(p) + 1) + 1) : s[i] = r[Len(p) + 1 + i - 1]
  <2>1. Len(p) + 1 \in Int /\ Len(r) \in Int /\ \A i \in (Len(p) + 1)..Len(r) : r[i] \in Names
    BY <1>1
  <2> QED BY <2>1, SubSeqProperties
<1>3. s \in Paths /\ Len(s) = Len(r) - Len(p) /\ \A i \in 1..Len(s) : s[i] = r[Len(p) + i]
  BY <1>1, <1>2 DEF Paths
<1> HIDE DEF s
<1>4. /\ p \o s \in Paths /\ Len(p \o s) = Len(p) + Len(s)
      /\ \A i \in 1..(Len(p) + Len(s)) : (p \o s)[i] = IF i <= Len(p) THEN p[i] ELSE s[i - Len(p)]
  BY <1>3, ConcatProperties DEF Paths
<1>5. \A i \in 1..Len(r) : (p \o s)[i] = r[i]
  <2> SUFFICES ASSUME NEW i \in 1..Len(r) PROVE (p \o s)[i] = r[i]
    OBVIOUS
  <2>1. CASE i <= Len(p)
    BY <1>1, <1>3, <1>4, <2>1
  <2>2. CASE i > Len(p)
    <3>1. i - Len(p) \in 1..Len(s) /\ Len(p) + (i - Len(p)) = i
      BY <1>1, <1>3, <2>2
    <3>2. s[i - Len(p)] = r[i]
      BY <1>3, <3>1
    <3>3. i \in 1..(Len(p) + Len(s)) /\ ~(i <= Len(p))
      BY <1>1, <1>3, <2>2
    <3>4. (p \o s)[i] = s[i - Len(p)]
      BY <1>4, <3>3
    <3> QED BY <3>2, <3>4
  <2>3. i <= Len(p) \/ i > Len(p)
    BY <1>1
  <2> QED BY <2>1, <2>2, <2>3
<1>6. p \o s = r
  <2>1. Len(p \o s) = Len(r)
    BY <1>1, <1>3, <1>4
  <2> QED BY <1>4, <1>5, <2>1, PathsEqual
<1> QED BY <1>1, <1>3, <1>6 DEF After, s

(* What is below a path keeps its order there. *)
LEMMA AfterKeepsOrder ==
    ASSUME NEW p \in Paths, NEW q \in Paths, NEW r \in Paths, IsPrefix(p, q), IsPrefix(q, r)
    PROVE  IsPrefix(After(p, q), After(p, r)) /\ (After(p, q) = After(p, r) => q = r)
<1>1. IsPrefix(p, r)
  BY PrefixOrder
<1>2. /\ After(p, q) \in Paths /\ p \o After(p, q) = q
      /\ After(p, r) \in Paths /\ p \o After(p, r) = r
  BY <1>1, Division
<1> DEFINE s == After(p, q)
           t == After(p, r)
<1>3. /\ Len(p) \in Nat /\ Len(s) \in Nat /\ Len(t) \in Nat
      /\ Len(q) = Len(p) + Len(s) /\ Len(r) = Len(p) + Len(t)
  BY <1>1, <1>2, Division, LenNat
<1>4. /\ \A i \in 1..(Len(p) + Len(s)) : (p \o s)[i] = IF i <= Len(p) THEN p[i] ELSE s[i - Len(p)]
      /\ \A i \in 1..(Len(p) + Len(t)) : (p \o t)[i] = IF i <= Len(p) THEN p[i] ELSE t[i - Len(p)]
  BY <1>2, ConcatProperties DEF Paths
<1>5. Len(q) <= Len(r) /\ \A i \in 1..Len(q) : q[i] = r[i]
  BY PrefixChars
<1> HIDE DEF s, t
<1>6. \A i \in 1..Len(s) : s[i] = t[i]
  <2> SUFFICES ASSUME NEW i \in 1..Len(s) PROVE s[i] = t[i]
    OBVIOUS
  <2>1. /\ Len(p) + i \in 1..(Len(p) + Len(s)) /\ Len(p) + i \in 1..(Len(p) + Len(t))
        /\ ~(Len(p) + i <= Len(p)) /\ (Len(p) + i) - Len(p) = i
    BY <1>3, <1>5
  <2>2. (p \o s)[Len(p) + i] = s[i] /\ (p \o t)[Len(p) + i] = t[i]
    BY <1>4, <2>1
  <2> QED BY <1>2, <1>3, <1>5, <2>1, <2>2 DEF s, t
<1>7. IsPrefix(s, t)
  BY <1>2, <1>3, <1>5, <1>6, PrefixChars DEF s, t
<1> QED BY <1>2, <1>7 DEF s, t

-----------------------------------------------------------------------------
(* Two values agree at a path: both have nothing there, or the same. *)
Agree(v, w, r) == (r \in DOMAIN v <=> r \in DOMAIN w) /\ (r \in DOMAIN v => v[r] = w[r])

LEMMA AgreeTwice ==
    ASSUME NEW u, NEW v, NEW w, NEW r, Agree(u, v, r), Agree(v, w, r)
    PROVE  Agree(u, w, r) /\ Agree(v, u, r)
BY DEF Agree

(* What is above something of a value is an object in it. *)
LEMMA ValueAbove ==
    ASSUME NEW v
    PROVE  IsValue(v) <=>
             /\ v \in [DOMAIN v -> Leaves \cup {Obj}]
             /\ DOMAIN v \subseteq Paths
             /\ \A r \in DOMAIN v, q \in Paths :
                  IsPrefix(q, r) /\ q # r => q \in DOMAIN v /\ v[q] = Obj
<1>1. ASSUME DOMAIN v \subseteq Paths
      PROVE  \A r \in DOMAIN v : Above(r) = {q \in Paths : IsPrefix(q, r) /\ q # r}
  BY <1>1, AbovePrefixes
<1>2. CASE DOMAIN v \subseteq Paths
  <2>1. (\A r \in DOMAIN v : Above(r) \subseteq {q \in DOMAIN v : v[q] = Obj}) <=>
        (\A r \in DOMAIN v, q \in Paths :
            IsPrefix(q, r) /\ q # r => q \in DOMAIN v /\ v[q] = Obj)
    BY <1>1, <1>2
  <2> QED BY <2>1, <1>2 DEF IsValue, Paths
<1> QED BY <1>2 DEF IsValue, Paths

(* The same, with what follows from it for the path itself. *)
LEMMA ValuePrefix ==
    ASSUME NEW v, IsValue(v), NEW r \in DOMAIN v, NEW q \in Paths, IsPrefix(q, r)
    PROVE  r \in Paths /\ q \in DOMAIN v /\ (q # r => v[q] = Obj)
BY ValueAbove

(* deepGet, path by path. *)
LEMMA PartOf ==
    ASSUME NEW v, IsValue(v), NEW p \in Paths
    PROVE  /\ At(v, p) = [q \in DOMAIN At(v, p) |-> v[p \o q]]
           /\ DOMAIN At(v, p) = {q \in Paths : p \o q \in DOMAIN v}
           /\ \A q \in DOMAIN At(v, p) :
                q \in Paths /\ p \o q \in DOMAIN v /\ At(v, p)[q] = v[p \o q]
<1> DEFINE inside == {r \in DOMAIN v : IsPrefix(p, r)}
<1>1. At(v, p) = [q \in {After(p, r) : r \in inside} |-> v[p \o q]]
  BY DEF At
<1>2. DOMAIN v \subseteq Paths
  BY ValueAbove
<1>3. ASSUME NEW r \in inside
      PROVE  After(p, r) \in Paths /\ p \o After(p, r) \in DOMAIN v
  BY <1>2, Division
<1>4. ASSUME NEW q \in Paths, p \o q \in DOMAIN v
      PROVE  q \in {After(p, r) : r \in inside}
  <2>1. p \o q \in inside /\ After(p, p \o q) = q
    BY <1>4, Concatenation
  <2> QED BY <2>1
<1>5. {After(p, r) : r \in inside} = {q \in Paths : p \o q \in DOMAIN v}
  BY <1>3, <1>4
<1>6. \A q \in {After(p, r) : r \in inside} : At(v, p)[q] = v[p \o q]
  BY <1>1
<1> QED BY <1>1, <1>5, <1>6

LEMMA PartAt ==
    ASSUME NEW v, IsValue(v), NEW p \in Paths, NEW r \in Paths, IsPrefix(p, r)
    PROVE  /\ r \in DOMAIN v <=> After(p, r) \in DOMAIN At(v, p)
           /\ r \in DOMAIN v => At(v, p)[After(p, r)] = v[r]
<1>1. After(p, r) \in Paths /\ p \o After(p, r) = r
  BY Division
<1> DEFINE q == After(p, r)
<1>2. q \in DOMAIN At(v, p) <=> p \o q \in DOMAIN v
  <2>1. DOMAIN At(v, p) = {x \in Paths : p \o x \in DOMAIN v}
    BY PartOf
  <2> HIDE DEF q
  <2> QED BY <1>1, <2>1 DEF q
<1>3. q \in DOMAIN At(v, p) => At(v, p)[q] = v[p \o q]
  BY PartOf
<1> QED BY <1>1, <1>2, <1>3

(* Two values have the same part exactly if they agree on what is in it. *)
LEMMA SameParts ==
    ASSUME NEW v, IsValue(v), NEW w, IsValue(w), NEW p \in Paths
    PROVE  (At(v, p) = At(w, p)) <=> \A r \in Paths : IsPrefix(p, r) => Agree(v, w, r)
<1>1. ASSUME At(v, p) = At(w, p), NEW r \in Paths, IsPrefix(p, r)
      PROVE  Agree(v, w, r)
  BY <1>1, PartAt DEF Agree
<1>2. ASSUME \A r \in Paths : IsPrefix(p, r) => Agree(v, w, r)
      PROVE  At(v, p) = At(w, p)
  <2>1. \A q \in Paths : p \o q \in Paths /\ IsPrefix(p, p \o q)
    BY Concatenation
  <2>2. \A q \in Paths : Agree(v, w, p \o q)
    BY <1>2, <2>1
  <2>3. /\ DOMAIN At(v, p) = {q \in Paths : p \o q \in DOMAIN v}
        /\ DOMAIN At(w, p) = {q \in Paths : p \o q \in DOMAIN w}
    BY PartOf
  <2>4. DOMAIN At(v, p) = DOMAIN At(w, p)
    BY <2>2, <2>3 DEF Agree
  <2>5. \A q \in DOMAIN At(v, p) : v[p \o q] = w[p \o q]
    BY <2>2, <2>3 DEF Agree
  <2>6. /\ At(v, p) = [q \in DOMAIN At(v, p) |-> v[p \o q]]
        /\ At(w, p) = [q \in DOMAIN At(w, p) |-> w[p \o q]]
    BY PartOf
  <2> QED BY <2>4, <2>5, <2>6
<1> QED BY <1>1, <1>2

(* The parts of one state, set in another: what is related to a key is as in the
   one, everything else as in the other. *)
LEMMA PartsSet ==
    ASSUME NEW v, IsState(v), NEW w, IsState(w), NEW S \in SUBSET DOMAIN w,
           NEW n, n = SetAll(v, [k \in S |-> At(w, k)])
    PROVE  /\ IsState(n)
           /\ \A r \in Paths : (\E k \in S : Related(k, r)) => Agree(n, w, r)
           /\ \A r \in Paths : (\A k \in S : ~Related(k, r)) => Agree(n, v, r)
<1> DEFINE changed == [k \in S |-> At(w, k)]
           From(r) == {k \in S : IsPrefix(k, r)}
           kept == {r \in DOMAIN v : From(r) = {}}
           way == UNION {Above(k) : k \in S}
           set == UNION {{k \o q : q \in DOMAIN At(w, k)} : k \in S}
           value(r) ==
             CASE From(r) # {} -> LET k == CHOOSE k \in From(r) : TRUE
                                  IN  At(w, k)[After(k, r)]
               [] From(r) = {} /\ r \in way -> Obj
               [] OTHER -> v[r]
<1>1. n = [r \in kept \cup way \cup set |-> value(r)]
  BY DEF SetAll
<1>2. IsValue(v) /\ IsValue(w) /\ DOMAIN v \subseteq Paths /\ DOMAIN w \subseteq Paths /\ S \subseteq Paths
  BY ValueAbove DEF IsState
<1>3. way = {q \in Paths : \E k \in S : IsPrefix(q, k) /\ q # k}
  BY <1>2, AbovePrefixes
<1>4. set = {r \in DOMAIN w : From(r) # {}}
  <2>1. ASSUME NEW k \in S, NEW q \in DOMAIN At(w, k)
        PROVE  k \o q \in DOMAIN w /\ IsPrefix(k, k \o q)
    <3>1. q \in Paths /\ k \o q \in DOMAIN w
      <4>1. k \in Paths /\ IsValue(w)
        BY <1>2
      <4> QED BY <4>1, PartOf
    <3> QED BY <1>2, <3>1, Concatenation
  <2>2. ASSUME NEW r \in DOMAIN w, NEW k \in S, IsPrefix(k, r)
        PROVE  r \in set
    <3>1. After(k, r) \in DOMAIN At(w, k) /\ k \o After(k, r) = r
      BY <1>2, <2>2, PartAt, Division
    <3> QED BY <3>1
  <2>3. ASSUME NEW r \in set
        PROVE  r \in DOMAIN w /\ From(r) # {}
    <3>1. PICK k \in S : r \in {k \o q : q \in DOMAIN At(w, k)}
      OBVIOUS
    <3>2. r \in DOMAIN w /\ IsPrefix(k, r)
      BY <2>1, <3>1
    <3> QED BY <3>2
  <2>4. ASSUME NEW r \in DOMAIN w, From(r) # {}
        PROVE  r \in set
    BY <2>2, <2>4
  <2> HIDE DEF set, From
  <2> QED BY <2>3, <2>4
<1>5. ASSUME NEW k \in S, NEW q \in Paths, IsPrefix(q, k)
      PROVE  q \in DOMAIN w /\ (q # k => w[q] = Obj)
  BY <1>2, <1>5, ValuePrefix
<1>6. ASSUME NEW r \in Paths, From(r) # {}
      PROVE  Agree(n, w, r)
  <2>1. r \in kept \cup way \cup set <=> r \in DOMAIN w
    <3>1. r \notin kept
      BY <1>6
    <3>2. r \in way => r \in DOMAIN w
      BY <1>3, <1>5
    <3> QED BY <1>4, <1>6, <3>1, <3>2
  <2> DEFINE k == CHOOSE k \in From(r) : TRUE
  <2>2. k \in S /\ IsPrefix(k, r)
    BY <1>6
  <2>3. value(r) = At(w, k)[After(k, r)]
    BY <1>6
  <2> HIDE DEF k
  <2>4. r \in DOMAIN w => value(r) = w[r]
    BY <1>2, <2>2, <2>3, PartAt
  <2> HIDE DEF value, kept, way, set
  <2> QED BY <1>1, <2>1, <2>4 DEF Agree
<1>7. ASSUME NEW r \in Paths, From(r) = {}, NEW k \in S, IsPrefix(r, k)
      PROVE  Agree(n, w, r)
  <2>1. r # k
    BY <1>2, <1>7, PrefixOrder
  <2>2. r \in way
    BY <1>3, <1>7, <2>1
  <2>3. r \in DOMAIN w /\ w[r] = Obj
    BY <1>5, <1>7, <2>1
  <2>4. value(r) = Obj
    BY <1>7, <2>2
  <2> HIDE DEF value, kept, way, set
  <2> QED BY <1>1, <2>2, <2>3, <2>4 DEF Agree
<1>8. ASSUME NEW r \in Paths, \A k \in S : ~Related(k, r)
      PROVE  Agree(n, v, r)
  <2>1. From(r) = {} /\ r \notin way /\ r \notin set
    BY <1>3, <1>4, <1>8 DEF Related
  <2>2. r \in kept \cup way \cup set <=> r \in DOMAIN v
    BY <2>1
  <2>3. value(r) = v[r]
    BY <2>1
  <2> HIDE DEF value, kept, way, set
  <2> QED BY <1>1, <2>2, <2>3 DEF Agree
<1>9. \A r \in Paths : (\E k \in S : Related(k, r)) => Agree(n, w, r)
  <2> SUFFICES ASSUME NEW r \in Paths, NEW k \in S, Related(k, r)
               PROVE  Agree(n, w, r)
    OBVIOUS
  <2>1. CASE From(r) = {}
    BY <1>7, <2>1 DEF Related
  <2> QED BY <1>6, <2>1
<1>10. DOMAIN n \subseteq Paths /\ n = [r \in DOMAIN n |-> n[r]]
  <2>1. kept \cup way \cup set \subseteq Paths
    BY <1>2, <1>3, <1>4
  <2> HIDE DEF value, kept, way, set
  <2> QED BY <1>1, <2>1
<1> HIDE DEF changed, From, kept, way, set, value
<1>11. ASSUME NEW r \in Paths
       PROVE  Agree(n, w, r) \/ Agree(n, v, r)
  BY <1>8, <1>9
<1>12. \A r \in DOMAIN n : n[r] \in Leaves \cup {Obj}
  <2> SUFFICES ASSUME NEW r \in DOMAIN n PROVE n[r] \in Leaves \cup {Obj}
    OBVIOUS
  <2>1. /\ \A q \in DOMAIN v : v[q] \in Leaves \cup {Obj}
        /\ \A q \in DOMAIN w : w[q] \in Leaves \cup {Obj}
    BY <1>2, ValueAbove
  <2> QED BY <1>10, <1>11, <2>1 DEF Agree
<1>13. ASSUME NEW r \in DOMAIN n, NEW q \in Paths, IsPrefix(q, r), q # r
       PROVE  q \in DOMAIN n /\ n[q] = Obj
  <2>1. r \in Paths
    BY <1>10
  <2>2. CASE \E k \in S : Related(k, r)
    <3>1. PICK k \in S : Related(k, r)
      BY <2>2
    <3>2. r \in DOMAIN w
      BY <1>9, <2>1, <3>1 DEF Agree
    <3>3. q \in DOMAIN w /\ w[q] = Obj
      BY <1>2, <1>13, <3>2, ValuePrefix
    <3>4. Related(k, q)
      BY <1>2, <1>13, <2>1, <3>1, PrefixOrder DEF Related
    <3> QED BY <1>9, <3>3, <3>4 DEF Agree
  <2>3. CASE \A k \in S : ~Related(k, r)
    <3>1. r \in DOMAIN v
      BY <1>8, <2>1, <2>3 DEF Agree
    <3>2. q \in DOMAIN v /\ v[q] = Obj
      BY <1>2, <1>13, <3>1, ValuePrefix
    <3>3. CASE \E k \in S : Related(k, q)
      <4>1. PICK k \in S : Related(k, q)
        BY <3>3
      <4>2. IsPrefix(q, k) /\ q # k
        <5>1. ~IsPrefix(k, q)
          BY <1>2, <1>13, <2>1, <2>3, PrefixOrder DEF Related
        <5> QED BY <1>2, <4>1, <5>1, PrefixOrder DEF Related
      <4>3. q \in DOMAIN w /\ w[q] = Obj
        BY <1>5, <4>2
      <4> QED BY <1>9, <4>1, <4>3 DEF Agree
    <3>4. CASE \A k \in S : ~Related(k, q)
      BY <1>8, <3>2, <3>4 DEF Agree
    <3> QED BY <3>3, <3>4
  <2> QED BY <2>2, <2>3
<1>14. IsValue(n)
  BY <1>10, <1>12, <1>13, ValueAbove
<1>15. <<>> \in DOMAIN n /\ n[<<>>] = Obj
  BY <1>11, EmptyPath DEF Agree, IsState
<1> QED BY <1>8, <1>9, <1>14, <1>15 DEF IsState

(* deleteDeep, of each key. *)
LEMMA PartsDeleted ==
    ASSUME NEW v, IsState(v), NEW S \in SUBSET Paths, <<>> \notin S, NEW n, n = DeleteAll(v, S)
    PROVE  /\ IsState(n)
           /\ \A r \in Paths : (\E k \in S : IsPrefix(k, r)) => r \notin DOMAIN n
           /\ \A r \in Paths : (\A k \in S : ~IsPrefix(k, r)) => Agree(n, v, r)
<1>1. n = [r \in {r \in DOMAIN v : \A k \in S : ~IsPrefix(k, r)} |-> v[r]]
  BY DEF DeleteAll
<1>2. \A r : r \in DOMAIN n <=> r \in DOMAIN v /\ \A k \in S : ~IsPrefix(k, r)
  BY <1>1
<1>3. \A r \in DOMAIN n : n[r] = v[r]
  BY <1>1
<1>4. IsValue(v) /\ DOMAIN v \subseteq Paths /\ \A r \in DOMAIN v : v[r] \in Leaves \cup {Obj}
  BY ValueAbove DEF IsState
<1>5. ASSUME NEW r \in DOMAIN n, NEW q \in Paths, IsPrefix(q, r), q # r
      PROVE  q \in DOMAIN n /\ n[q] = Obj
  <2>1. q \in DOMAIN v /\ v[q] = Obj
    BY <1>2, <1>4, <1>5, ValuePrefix
  <2>2. \A k \in S : ~IsPrefix(k, q)
    BY <1>2, <1>4, <1>5, PrefixOrder
  <2> QED BY <1>2, <1>3, <2>1, <2>2
<1>6. IsValue(n)
  <2>1. n \in [DOMAIN n -> Leaves \cup {Obj}]
    BY <1>1, <1>4
  <2> QED BY <1>2, <1>4, <1>5, <2>1, ValueAbove
<1>7. <<>> \in DOMAIN n /\ n[<<>>] = Obj
  <2>1. \A k \in S : ~IsPrefix(k, <<>>)
    BY EmptyPath
  <2> QED BY <1>2, <1>3, <2>1 DEF IsState
<1> QED BY <1>2, <1>3, <1>6, <1>7 DEF IsState, Agree

(* getPartialState: a state that has only what the whole one has, and all of it
   at and below the keys, and above those that are there. *)
LEMMA PartialOf ==
    ASSUME NEW v, IsState(v), NEW keys \in SUBSET Paths, NEW n, n = Partial(v, keys)
    PROVE  /\ IsState(n)
           /\ \A r \in DOMAIN n : r \in DOMAIN v /\ n[r] = v[r]
           /\ \A k \in keys, r \in Paths :
                IsPrefix(k, r) \/ (k \in DOMAIN v /\ IsPrefix(r, k)) => Agree(n, v, r)
<1> DEFINE near(r) == \E k \in keys \cap DOMAIN v : Related(k, r)
<1>1. n = [r \in {<<>>} \cup {r \in DOMAIN v : near(r)} |-> v[r]]
  BY DEF Partial
<1>2. /\ IsValue(v) /\ DOMAIN v \subseteq Paths /\ \A r \in DOMAIN v : v[r] \in Leaves \cup {Obj}
      /\ <<>> \in DOMAIN v /\ v[<<>>] = Obj
  BY ValueAbove DEF IsState
<1>3. /\ \A r : r \in DOMAIN n <=> r = <<>> \/ (r \in DOMAIN v /\ near(r))
      /\ \A r \in DOMAIN n : n[r] = v[r]
  BY <1>1
<1>4. \A r \in DOMAIN n : r \in DOMAIN v /\ n[r] = v[r]
  BY <1>2, <1>3
<1>5. ASSUME NEW r \in DOMAIN n, NEW q \in Paths, IsPrefix(q, r), q # r
      PROVE  q \in DOMAIN n /\ n[q] = Obj
  <2>1. r \in Paths /\ q \in DOMAIN v /\ v[q] = Obj
    BY <1>2, <1>4, <1>5, ValuePrefix
  <2>2. r # <<>>
    BY <1>5, EmptyPath
  <2>3. PICK k \in keys \cap DOMAIN v : Related(k, r)
    BY <1>3, <2>2
  <2>4. Related(k, q)
    BY <1>2, <1>5, <2>1, <2>3, PrefixOrder DEF Related
  <2> QED BY <1>3, <2>1, <2>3, <2>4
<1>6. IsValue(n)
  <2>1. n \in [DOMAIN n -> Leaves \cup {Obj}]
    BY <1>1, <1>2, <1>4
  <2> QED BY <1>2, <1>4, <1>5, <2>1, ValueAbove
<1>7. ASSUME NEW k \in keys, NEW r \in Paths, IsPrefix(k, r) \/ (k \in DOMAIN v /\ IsPrefix(r, k))
      PROVE  Agree(n, v, r)
  <2>1. r \in DOMAIN v => k \in DOMAIN v
    BY <1>2, <1>7, ValuePrefix
  <2>2. r \in DOMAIN v => r \in DOMAIN n
    BY <1>3, <1>7, <2>1 DEF Related
  <2> QED BY <1>4, <2>2 DEF Agree
<1> QED BY <1>2, <1>3, <1>4, <1>6, <1>7 DEF IsState

(* What sanitizeState leaves. *)
IsClean(v, d) ==
    \A r \in DOMAIN v :
        Len(r) <= d + 1 /\ v[r] # Function /\ (Len(r) > d => v[r] = Cut)

LEMMA SanitizedState ==
    ASSUME NEW v, IsState(v), NEW d \in Nat, NEW n, n = Sanitize(v, d)
    PROVE  IsState(n) /\ IsClean(n, d) /\ DOMAIN n \subseteq DOMAIN v
<1> DEFINE kept == {r \in DOMAIN v : Len(r) <= d + 1 /\ (v[r] # Function \/ Len(r) > d)}
<1>1. n = [r \in kept |-> IF Len(r) > d THEN Cut ELSE v[r]]
  BY DEF Sanitize
<1>2. /\ IsValue(v) /\ DOMAIN v \subseteq Paths /\ \A r \in DOMAIN v : v[r] \in Leaves \cup {Obj}
      /\ <<>> \in DOMAIN v /\ v[<<>>] = Obj
  BY ValueAbove DEF IsState
<1>3. Obj # Function /\ Cut # Function /\ Cut \in Leaves
  BY NestedStateAssumption
<1>4. /\ \A r : r \in DOMAIN n <=> r \in kept
      /\ \A r \in kept : n[r] = IF Len(r) > d THEN Cut ELSE v[r]
  BY <1>1
<1>5. ASSUME NEW r \in DOMAIN n, NEW q \in Paths, IsPrefix(q, r), q # r
      PROVE  q \in DOMAIN n /\ n[q] = Obj
  <2>1. r \in Paths /\ Len(r) <= d + 1 /\ q \in DOMAIN v /\ v[q] = Obj
    BY <1>2, <1>4, <1>5, ValuePrefix
  <2>2. Len(q) \in Nat /\ Len(r) \in Nat /\ Len(q) <= Len(r) /\ Len(q) # Len(r)
    BY <1>5, <2>1, PrefixOrder, LenNat
  <2>3. Len(q) <= d + 1 /\ ~(Len(q) > d)
    BY <2>1, <2>2
  <2> QED BY <1>3, <1>4, <2>1, <2>3
<1>6. IsValue(n)
  <2>1. n \in [DOMAIN n -> Leaves \cup {Obj}]
    BY <1>1, <1>2, <1>3
  <2> QED BY <1>2, <1>4, <1>5, <2>1, ValueAbove
<1>7. <<>> \in kept /\ ~(Len(<<>>) > d)
  BY <1>2, <1>3, EmptyPath
<1>8. IsClean(n, d)
  BY <1>2, <1>3, <1>4, LenNat DEF IsClean
<1> QED BY <1>2, <1>4, <1>6, <1>7, <1>8 DEF IsState

LEMMA SanitizeAgrees ==
    ASSUME NEW v, NEW w, NEW r, Agree(v, w, r), NEW d
    PROVE  Agree(Sanitize(v, d), Sanitize(w, d), r)
BY DEF Agree, Sanitize

(* sanitizeDelta finds nothing to do in the parts of a sanitized state. *)
LEMMA CleanParts ==
    ASSUME NEW w, IsState(w), NEW d \in Nat, IsClean(w, d), NEW k \in DOMAIN w
    PROVE  Sanitize(At(w, k), d) = At(w, k) /\ At(w, k) # Undefined
<1>1. IsValue(w) /\ k \in Paths
  BY ValueAbove DEF IsState
<1> DEFINE part == At(w, k)
<1>2. /\ part = [q \in DOMAIN part |-> w[k \o q]]
      /\ \A q \in DOMAIN part : q \in Paths /\ k \o q \in DOMAIN w /\ part[q] = w[k \o q]
  BY <1>1, PartOf
<1>3. <<>> \in DOMAIN part
  <2>1. IsPrefix(k, k) /\ After(k, k) = <<>>
    <3>1. /\ IsPrefix(k, k) /\ After(k, k) \in Paths /\ Len(k) = Len(k) + Len(After(k, k))
          /\ Len(k) \in Nat /\ Len(After(k, k)) \in Nat
      BY <1>1, PrefixOrder, Division, LenNat
    <3>2. Len(After(k, k)) = 0
      BY <3>1
    <3> QED BY <3>1, <3>2, EmptyPath
  <2> QED BY <1>1, <2>1, PartAt
<1> HIDE DEF part
<1>4. ASSUME NEW q \in DOMAIN part
      PROVE  Len(q) <= d + 1 /\ part[q] # Function /\ (Len(q) > d => part[q] = Cut)
  <2>1. Len(k \o q) = Len(k) + Len(q) /\ Len(k) \in Nat /\ Len(q) \in Nat
    BY <1>1, <1>2, Concatenation, LenNat
  <2>2. Len(k \o q) <= d + 1 /\ w[k \o q] # Function /\ (Len(k \o q) > d => w[k \o q] = Cut)
    BY <1>2 DEF IsClean
  <2> QED BY <1>2, <2>1, <2>2
<1>5. Sanitize(part, d) = part
  <2>1. {r \in DOMAIN part : Len(r) <= d + 1 /\ (part[r] # Function \/ Len(r) > d)} = DOMAIN part
    BY <1>4
  <2>2. \A r \in DOMAIN part : (IF Len(r) > d THEN Cut ELSE part[r]) = part[r]
    BY <1>4
  <2>3. Sanitize(part, d) = [r \in DOMAIN part |-> part[r]]
    BY <2>1, <2>2 DEF Sanitize
  <2>4. part = [r \in DOMAIN part |-> part[r]]
    BY <1>2
  <2> QED BY <2>3, <2>4
<1>6. part # Undefined
  BY <1>3 DEF Undefined
<1> QED BY <1>5, <1>6 DEF part

(* An action gives a root of a state another value. *)
LEMMA RootSet ==
    ASSUME NEW v, IsState(v), NEW root \in Paths, Len(root) = 1,
           NEW value, IsValue(value), value # Undefined,
           NEW n, n = SetDeep(v, root, value)
    PROVE  IsState(n)
<1> DEFINE kept == {r \in DOMAIN v : ~IsPrefix(root, r)}
           set == {root \o q : q \in DOMAIN value}
           new(r) == IF IsPrefix(root, r) THEN value[After(root, r)]
                     ELSE IF r = <<>> THEN Obj ELSE v[r]
<1>1. Above(root) = {<<>>} /\ root # <<>> /\ ~IsPrefix(root, <<>>)
  <2>1. <<>> \in Paths /\ IsPrefix(<<>>, root) /\ root # <<>> /\ ~IsPrefix(root, <<>>)
    BY EmptyPath
  <2>2. ASSUME NEW q \in Paths, IsPrefix(q, root), q # root
        PROVE  q = <<>>
    <3>1. Len(q) \in Nat /\ Len(q) <= Len(root) /\ Len(q) # Len(root)
      BY <2>2, PrefixOrder, LenNat
    <3> QED BY <2>2, <3>1, EmptyPath
  <2> QED BY <2>1, <2>2, AbovePrefixes
<1>2. n = [r \in kept \cup {<<>>} \cup set |-> new(r)]
  <2> DEFINE changed == [k \in {root} |-> value]
             From(r) == {k \in DOMAIN changed : IsPrefix(k, r)}
  <2>1. \A r : From(r) = IF IsPrefix(root, r) THEN {root} ELSE {}
    OBVIOUS
  <2>2. UNION {Above(k) : k \in DOMAIN changed} = {<<>>}
    BY <1>1
  <2>3. UNION {{k \o q : q \in DOMAIN changed[k]} : k \in DOMAIN changed} = set
    OBVIOUS
  <2>4. {r \in DOMAIN v : From(r) = {}} = kept
    BY <2>1
  <2>5. \A r \in kept \cup {<<>>} \cup set :
            new(r) = CASE From(r) # {} -> LET k == CHOOSE k \in From(r) : TRUE
                                          IN  changed[k][After(k, r)]
                       [] From(r) = {} /\ r \in {<<>>} -> Obj
                       [] OTHER -> v[r]
    BY <2>1
  <2> QED BY <2>2, <2>3, <2>4, <2>5 DEF SetDeep, SetAll
<1>3. /\ IsValue(v) /\ DOMAIN v \subseteq Paths /\ \A r \in DOMAIN v : v[r] \in Leaves \cup {Obj}
      /\ DOMAIN value \subseteq Paths /\ \A q \in DOMAIN value : value[q] \in Leaves \cup {Obj}
  BY ValueAbove DEF IsState
<1>4. \A r \in set : r \in Paths /\ IsPrefix(root, r) /\ After(root, r) \in DOMAIN value
  BY <1>3, Concatenation
<1>5. \A r \in Paths : IsPrefix(root, r) /\ After(root, r) \in DOMAIN value => r \in set
  BY Division
<1>6. /\ \A r : r \in DOMAIN n <=> r \in kept \/ r = <<>> \/ r \in set
      /\ \A r \in DOMAIN n : n[r] = new(r)
  BY <1>2
<1>7. DOMAIN n \subseteq Paths
  BY <1>3, <1>4, <1>6, EmptyPath
<1>8. ASSUME NEW r \in DOMAIN n, NEW q \in Paths, IsPrefix(q, r), q # r
      PROVE  q \in DOMAIN n /\ n[q] = Obj
  <2>1. r \in Paths
    BY <1>7
  <2>2. CASE r \in set
    <3>1. CASE IsPrefix(root, q)
      <4>1. /\ After(root, q) \in Paths /\ IsPrefix(After(root, q), After(root, r))
            /\ After(root, q) # After(root, r)
        BY <1>8, <2>1, <3>1, AfterKeepsOrder, Division
      <4>2. After(root, q) \in DOMAIN value /\ value[After(root, q)] = Obj
        BY <1>4, <2>2, <4>1, ValuePrefix
      <4>3. q \in set
        BY <1>5, <3>1, <4>2
      <4> QED BY <1>6, <3>1, <4>2, <4>3
    <3>2. CASE ~IsPrefix(root, q)
      <4>1. IsPrefix(q, root) /\ q # root
        BY <1>4, <1>8, <2>1, <2>2, <3>2, PrefixOrder DEF Related
      <4>2. q = <<>>
        BY <1>1, <4>1, AbovePrefixes
      <4> QED BY <1>6, <3>2, <4>2
    <3> QED BY <3>1, <3>2
  <2>3. CASE r \notin set
    <3>1. r # <<>>
      BY <1>8, EmptyPath
    <3>2. r \in DOMAIN v /\ ~IsPrefix(root, r)
      BY <1>6, <2>3, <3>1
    <3>3. q \in DOMAIN v /\ v[q] = Obj
      BY <1>3, <1>8, <3>2, ValuePrefix
    <3>4. ~IsPrefix(root, q)
      BY <1>8, <2>1, <3>2, PrefixOrder
    <3> QED BY <1>6, <3>3, <3>4
  <2> QED BY <2>2, <2>3
<1>9. n \in [DOMAIN n -> Leaves \cup {Obj}]
  <2>1. \A r \in DOMAIN n : new(r) \in Leaves \cup {Obj}
    <3> SUFFICES ASSUME NEW r \in DOMAIN n PROVE new(r) \in Leaves \cup {Obj}
      OBVIOUS
    <3>1. CASE IsPrefix(root, r)
      <4>1. r \in set
        BY <1>1, <1>6, <3>1
      <4> QED BY <1>3, <1>4, <3>1, <4>1
    <3>2. CASE ~IsPrefix(root, r)
      <4>1. r \in set => IsPrefix(root, r)
        BY <1>4
      <4> QED BY <1>3, <1>6, <3>2, <4>1
    <3> QED BY <3>1, <3>2
  <2> HIDE DEF new, kept, set
  <2> QED BY <1>2, <1>6, <2>1
<1>10. IsValue(n)
  BY <1>7, <1>8, <1>9, ValueAbove
<1>11. <<>> \in DOMAIN n /\ n[<<>>] = Obj
  BY <1>1, <1>6
<1> QED BY <1>10, <1>11 DEF IsState

-----------------------------------------------------------------------------
(* Deltas. *)

(* A delta of parts of a state. *)
PartsDelta(w, S, R) == [changed |-> [k \in S |-> At(w, k)], removed |-> R]

(* n is copy with the parts of w at the keys of S, and without those at R. *)
IsMerged(n, copy, w, S, R) ==
    /\ IsState(n)
    /\ \A r \in Paths : (\E x \in R : IsPrefix(x, r)) => r \notin DOMAIN n
    /\ \A r \in Paths : (\A x \in R : ~IsPrefix(x, r)) =>
         /\ (\E k \in S : Related(k, r)) => Agree(n, w, r)
         /\ (\A k \in S : ~Related(k, r)) => Agree(n, copy, r)

LEMMA Merged ==
    ASSUME NEW copy, IsState(copy), NEW w, IsState(w), NEW S \in SUBSET DOMAIN w,
           NEW R \in SUBSET Paths, <<>> \notin R
    PROVE  IsMerged(MergeDelta(copy, PartsDelta(w, S, R)), copy, w, S, R)
<1> DEFINE n == MergeDelta(copy, PartsDelta(w, S, R))
           m == SetAll(copy, [k \in S |-> At(w, k)])
<1>1. n = DeleteAll(m, R)
  BY DEF MergeDelta, PartsDelta
<1>2. /\ IsState(m)
      /\ \A r \in Paths : (\E k \in S : Related(k, r)) => Agree(m, w, r)
      /\ \A r \in Paths : (\A k \in S : ~Related(k, r)) => Agree(m, copy, r)
  BY PartsSet
<1> HIDE DEF m, n
<1>3. /\ IsState(n)
      /\ \A r \in Paths : (\E x \in R : IsPrefix(x, r)) => r \notin DOMAIN n
      /\ \A r \in Paths : (\A x \in R : ~IsPrefix(x, r)) => Agree(n, m, r)
  BY <1>1, <1>2, PartsDeleted
<1>4. IsMerged(n, copy, w, S, R)
  BY <1>2, <1>3, AgreeTwice DEF IsMerged
<1> QED BY <1>4 DEF n

(* What a subscription is given of a state: part of it, but all of it at its keys. *)
IsSlice(state, next, keys) ==
    /\ IsState(state)
    /\ \A r \in DOMAIN state : r \in DOMAIN next /\ state[r] = next[r]
    /\ \A k \in keys, r \in Paths :
         IsPrefix(k, r) \/ (k \in DOMAIN next /\ IsPrefix(r, k)) => Agree(state, next, r)

Apart(r, keys) == \A k \in keys : ~Related(k, r)

(* A delta about the keys all: of a slice, the parts at S, and the removal of R. *)
IsDeltaOf(state, next, all, keys, S, R) ==
    /\ all \in SUBSET Paths /\ keys \in SUBSET all /\ <<>> \notin all
    /\ IsSlice(state, next, keys)
    /\ S \in SUBSET (all \cap DOMAIN state)
    /\ R \in SUBSET Paths /\ <<>> \notin R
    /\ \A x \in R : x \notin DOMAIN state /\ (x \in all \/ x \notin DOMAIN next)

(* What it brings: apart from the keys taken out of the subscription, either
   nothing or what the store has. *)
Brings(n, copy, next, all, keys, S, R) ==
    /\ IsState(n)
    /\ \A r \in Paths : r \notin DOMAIN next /\ r \notin DOMAIN copy => r \notin DOMAIN n
    /\ \A r \in Paths : Apart(r, all \ keys) =>
         /\ Agree(n, copy, r) \/ Agree(n, next, r)
         /\ (\E k \in S : Related(k, r)) => Agree(n, next, r)
         /\ (\E x \in R : IsPrefix(x, r)) => Agree(n, next, r)
    /\ \A r \in Paths : (\E x \in R : IsPrefix(x, r)) => r \notin DOMAIN n

LEMMA Delivered ==
    ASSUME NEW copy, IsState(copy), NEW next, IsState(next), NEW state, NEW all, NEW keys,
           NEW S, NEW R, IsDeltaOf(state, next, all, keys, S, R)
    PROVE  Brings(MergeDelta(copy, PartsDelta(state, S, R)), copy, next, all, keys, S, R)
<1> DEFINE n == MergeDelta(copy, PartsDelta(state, S, R))
<1> USE DEF IsDeltaOf
<1>1. /\ IsState(n)
      /\ \A r \in Paths : (\E x \in R : IsPrefix(x, r)) => r \notin DOMAIN n
      /\ \A r \in Paths : (\A x \in R : ~IsPrefix(x, r)) =>
           /\ (\E k \in S : Related(k, r)) => Agree(n, state, r)
           /\ (\A k \in S : ~Related(k, r)) => Agree(n, copy, r)
  <2>1. IsState(state) /\ S \in SUBSET DOMAIN state
    BY DEF IsSlice
  <2>2. IsMerged(n, copy, state, S, R)
    BY <2>1, Merged
  <2> QED BY <2>2 DEF IsMerged
<1> HIDE DEF n
<1>2. ASSUME NEW r \in Paths, Apart(r, all \ keys), NEW x \in R, IsPrefix(x, r)
      PROVE  Agree(n, next, r)
  <2>1. x \in all => x \in keys
    BY <1>2 DEF Apart, Related
  <2>2. IsPrefix(x, x)
    BY PrefixOrder
  <2>3. x \notin DOMAIN next
    BY <2>1, <2>2 DEF IsSlice, Agree
  <2>4. r \notin DOMAIN next
    BY <1>2, <2>3, ValuePrefix DEF IsState
  <2> QED BY <1>1, <1>2, <2>4 DEF Agree
<1>3. ASSUME NEW r \in Paths, Apart(r, all \ keys), NEW k \in S, Related(k, r)
      PROVE  Agree(n, next, r)
  <2>1. k \in keys
    BY <1>3 DEF Apart
  <2>2. k \in DOMAIN next
    BY DEF IsSlice
  <2>3. Agree(state, next, r)
    BY <1>3, <2>1, <2>2 DEF IsSlice, Related
  <2>4. CASE \E x \in R : IsPrefix(x, r)
    BY <1>2, <1>3, <2>4
  <2>5. CASE \A x \in R : ~IsPrefix(x, r)
    BY <1>1, <1>3, <2>3, <2>5, AgreeTwice
  <2> QED BY <2>4, <2>5
<1>4. ASSUME NEW r \in Paths, Apart(r, all \ keys)
      PROVE  Agree(n, copy, r) \/ Agree(n, next, r)
  BY <1>1, <1>2, <1>3, <1>4
<1>5. ASSUME NEW r \in Paths, r \notin DOMAIN next, r \notin DOMAIN copy
      PROVE  r \notin DOMAIN n
  <2>1. r \notin DOMAIN state
    BY <1>5 DEF IsSlice
  <2> QED BY <1>1, <1>5, <2>1 DEF Agree
<1>6. Brings(n, copy, next, all, keys, S, R)
  BY <1>1, <1>2, <1>3, <1>4, <1>5 DEF Brings
<1> QED BY <1>6 DEF n

(* Keys are paths of at least one name. *)
LEMMA KeyPaths ==
    /\ Keys \subseteq Paths /\ <<>> \notin Keys
    /\ \A k \in Keys : Len(k) > 0 /\ Root(k) \in DOMAIN RootValues
    /\ DOMAIN RootValues \subseteq Paths
    /\ \A root \in DOMAIN RootValues : Len(root) = 1 /\ root # <<>>
BY NestedAssumption, EmptyPath DEF Paths

(* sanitizeDelta does nothing to a delta made from sanitized states. *)
LEMMA DeltaIsClean ==
    ASSUME NEW w, IsState(w), maxDepth \in Nat, IsClean(w, maxDepth),
           NEW S \in SUBSET DOMAIN w, NEW R,
           NEW d, d = PartsDelta(w, S, R)
    PROVE  SanitizeDelta(d) = d
<1> DEFINE clean == [k \in DOMAIN d.changed |-> Sanitize(d.changed[k], maxDepth)]
<1>1. \A k \in S : Sanitize(At(w, k), maxDepth) = At(w, k) /\ At(w, k) # Undefined
  BY CleanParts
<1>2. clean = [k \in S |-> At(w, k)]
  BY <1>1 DEF PartsDelta
<1>3. [k \in {k \in DOMAIN clean : clean[k] # Undefined} |-> clean[k]] = [k \in S |-> At(w, k)]
  BY <1>1, <1>2
<1>4. SanitizeDelta(d) = [d EXCEPT !.changed = [k \in S |-> At(w, k)]]
  BY <1>3 DEF SanitizeDelta
<1> QED BY <1>4 DEF PartsDelta

(* The keys a callback compares. *)
Compared(s, next) == IF s.star THEN RootsOf(s.prevState) \cup RootsOf(next) ELSE s.keys
Withdrawn(s) == IF s.star THEN {} ELSE s.callbackKeys \ s.keys

IsSubscription(s) ==
    /\ s = [star |-> s.star, keys |-> s.keys, callbackKeys |-> s.callbackKeys,
            prevState |-> s.prevState]
    /\ s.star \in BOOLEAN
    /\ s.keys \subseteq s.callbackKeys /\ s.callbackKeys \subseteq Keys
    /\ IsState(s.prevState)

(* What one callback brings: at each path apart from withdrawn keys the copy stays
   or becomes as the store, and it becomes so where a compared key has changed. *)
LEMMA ReceivedCopy ==
    ASSUME NEW copy, IsState(copy), NEW next, IsState(next),
           maxDepth \in Nat, IsClean(next, maxDepth), deltasEnabled \in BOOLEAN,
           NEW s, IsSubscription(s), NEW n, n = Received(copy, s, next)
    PROVE  /\ IsState(n)
           /\ \A r \in Paths : r \notin DOMAIN next /\ r \notin DOMAIN copy => r \notin DOMAIN n
           /\ \A r \in Paths : Apart(r, Withdrawn(s)) => Agree(n, copy, r) \/ Agree(n, next, r)
           /\ \A k \in Compared(s, next), r \in Paths :
                /\ At(s.prevState, k) # At(next, k)
                /\ IsPrefix(k, r) \/ (k \in DOMAIN next /\ IsPrefix(r, k))
                /\ Apart(r, Withdrawn(s))
                /\ ~(s.star /\ ~deltasEnabled /\ next = EmptyObject)
                => Agree(n, next, r)
           /\ s.star /\ ~deltasEnabled /\ next # EmptyObject => n = next
           /\ \A k \in s.keys :
                /\ deltasEnabled /\ ~s.star
                /\ k \in DOMAIN s.prevState /\ Root(k) \notin DOMAIN next
                => Root(k) \notin DOMAIN n
<1>1. CASE s.star /\ ~deltasEnabled
  <2>1. n = IF next = EmptyObject THEN copy ELSE next
    BY <1>1 DEF Received, Slice, MergeFull
  <2> QED BY <1>1, <2>1 DEF Agree
<1> DEFINE state == Slice(next, s)
           all == IF s.star THEN Compared(s, next) ELSE s.callbackKeys
           keys == Compared(s, next)
           differ == {k \in all : At(s.prevState, k) # At(state, k)}
           missing == {k \in all : k \in DOMAIN s.prevState /\ k \notin DOMAIN state}
           S == IF deltasEnabled THEN differ \cap DOMAIN state ELSE all \cap DOMAIN state
           R == IF deltasEnabled THEN Promote(missing, state, next) ELSE missing
           d == PartsDelta(state, S, R)
<1>2. /\ IsValue(next) /\ DOMAIN next \subseteq Paths
      /\ IsValue(s.prevState) /\ DOMAIN s.prevState \subseteq Paths
  BY ValueAbove DEF IsState, IsSubscription
<1>3. /\ all \in SUBSET Paths /\ keys \in SUBSET all /\ <<>> \notin all
      /\ all \ keys = Withdrawn(s)
  BY <1>2, KeyPaths, EmptyPath DEF IsSubscription, Compared, Withdrawn, RootsOf
<1>4. IsSlice(state, next, keys) /\ IsClean(state, maxDepth)
  <2>1. CASE s.star
    BY <2>1 DEF Slice, IsSlice, Agree
  <2>2. CASE ~s.star
    <3>1. state = Partial(next, s.keys) /\ keys = s.keys /\ s.keys \in SUBSET Paths
      BY <1>3, <2>2 DEF Slice, Compared
    <3> QED BY <3>1, PartialOf DEF IsSlice, IsClean
  <2> QED BY <2>1, <2>2 DEF IsSubscription
<1>5. ASSUME ~(s.star /\ ~deltasEnabled)
      PROVE  n = MergeDelta(copy, d)
  <2>1. CASE ~deltasEnabled
    BY <1>5, <2>1 DEF Received, ToDeltaKeys, Missing, PartsDelta
  <2>2. CASE deltasEnabled
    <3>1. d = IF s.star THEN CalculateTopLevel(s.prevState, state)
              ELSE Calculate(s.prevState, state, s.callbackKeys, next)
      <4>1. CASE s.star
        <5>1. state = next
          BY <4>1 DEF Slice
        <5> QED BY <2>2, <4>1, <5>1 DEF CalculateTopLevel, Calculate, ToDeltaKeys, Missing, Compared, PartsDelta
      <4>2. CASE ~s.star
        BY <2>2, <4>2 DEF Calculate, ToDeltaKeys, Missing, PartsDelta
      <4> QED BY <4>1, <4>2
    <3>2. SanitizeDelta(d) = d
      <4>1. IsState(state) /\ S \in SUBSET DOMAIN state
        BY <1>4 DEF IsSlice
      <4> HIDE DEF state, S, R
      <4> QED BY <1>4, <4>1, DeltaIsClean
    <3>3. CASE s.star
      <4>1. n = MergeDelta(copy, SanitizeDelta(CalculateTopLevel(s.prevState, state)))
        BY <2>2, <3>3 DEF Received
      <4> HIDE DEF d, state
      <4> QED BY <3>1, <3>2, <3>3, <4>1
    <3>4. CASE ~s.star
      <4>1. n = MergeDelta(copy, SanitizeDelta(
                    Calculate(s.prevState, state, s.callbackKeys, next)))
        BY <2>2, <3>4 DEF Received
      <4> HIDE DEF d, state
      <4> QED BY <3>1, <3>2, <3>4, <4>1
    <3> QED BY <3>3, <3>4
  <2> QED BY <2>1, <2>2
<1>6. ASSUME NEW k \in missing
      PROVE  k \in Paths /\ Len(k) > 0 /\ Root(k) \in Paths /\ Len(Root(k)) = 1
  <2>1. k \in Paths /\ k # <<>>
    BY <1>3
  <2>2. Len(k) > 0
    BY <2>1, EmptyPath, LenNat
  <2> QED BY <2>1, <2>2, Roots
<1>7. /\ R \in SUBSET Paths /\ <<>> \notin R
      /\ \A x \in R : x \notin DOMAIN state /\ (x \in all \/ x \notin DOMAIN next)
  <2>1. ASSUME NEW x \in R
        PROVE  /\ x \in Paths /\ x # <<>>
               /\ x \notin DOMAIN state /\ (x \in all \/ x \notin DOMAIN next)
    <3>1. PICK k \in missing : x = k \/ (x = Root(k) /\ Root(k) \notin DOMAIN next)
      BY <2>1 DEF Promote
    <3>2. x \in Paths /\ x # <<>>
      BY <1>6, <3>1, EmptyPath
    <3>3. x \notin DOMAIN next => x \notin DOMAIN state
      BY <1>4 DEF IsSlice
    <3> QED BY <3>1, <3>2, <3>3
  <2> QED BY <2>1
<1>8. /\ S \in SUBSET (all \cap DOMAIN state)
      /\ \A k \in all : At(s.prevState, k) # At(state, k) /\ k \in DOMAIN state => k \in S
      /\ \A k \in all : k \in DOMAIN s.prevState /\ k \notin DOMAIN state =>
           k \in R \/ (Root(k) \in R /\ Root(k) \notin DOMAIN next)
      /\ \A k \in all : deltasEnabled /\ k \in DOMAIN s.prevState /\ k \notin DOMAIN state
                        /\ Root(k) \notin DOMAIN next => Root(k) \in R
  BY DEF Promote
<1> HIDE DEF state, all, keys, differ, missing, S, R
<1>9. CASE ~(s.star /\ ~deltasEnabled)
  <2>1. /\ IsState(n)
        /\ \A r \in Paths : r \notin DOMAIN next /\ r \notin DOMAIN copy => r \notin DOMAIN n
        /\ \A r \in Paths : Apart(r, all \ keys) =>
             /\ Agree(n, copy, r) \/ Agree(n, next, r)
             /\ (\E k \in S : Related(k, r)) => Agree(n, next, r)
             /\ (\E x \in R : IsPrefix(x, r)) => Agree(n, next, r)
        /\ \A r \in Paths : (\E x \in R : IsPrefix(x, r)) => r \notin DOMAIN n
    <3>1. n = MergeDelta(copy, PartsDelta(state, S, R))
      BY <1>5, <1>9
    <3> HIDE DEF d
    <3>2. IsDeltaOf(state, next, all, keys, S, R)
      BY <1>3, <1>4, <1>7, <1>8 DEF IsDeltaOf
    <3>3. Brings(n, copy, next, all, keys, S, R)
      BY <3>1, <3>2, Delivered
    <3> QED BY <3>3 DEF Brings
  <2>2. ASSUME NEW k \in keys, NEW r \in Paths, At(s.prevState, k) # At(next, k),
               IsPrefix(k, r) \/ (k \in DOMAIN next /\ IsPrefix(r, k)), Apart(r, Withdrawn(s))
        PROVE  Agree(n, next, r)
    <3>1. k \in Paths /\ k \in all /\ IsPrefix(k, k) /\ IsValue(state)
      BY <1>3, <1>4, PrefixOrder DEF IsSlice, IsState
    <3>2. At(state, k) = At(next, k) /\ (k \in DOMAIN state <=> k \in DOMAIN next)
      <4>1. \A q \in Paths : IsPrefix(k, q) => Agree(state, next, q)
        BY <1>4 DEF IsSlice
      <4>2. At(state, k) = At(next, k)
        BY <1>2, <3>1, <4>1, SameParts
      <4> QED BY <3>1, <4>1, <4>2 DEF Agree
    <3>3. CASE k \in DOMAIN state
      <4>1. k \in S /\ Related(k, r)
        BY <1>8, <2>2, <3>1, <3>2, <3>3 DEF Related
      <4> QED BY <1>3, <2>1, <2>2, <4>1
    <3>4. CASE k \notin DOMAIN state
      <4>1. IsPrefix(k, r)
        BY <2>2, <3>2, <3>4
      <4>2. k \in DOMAIN s.prevState
        <5> SUFFICES ASSUME k \notin DOMAIN s.prevState PROVE FALSE
          OBVIOUS
        <5>1. \A q \in Paths : IsPrefix(k, q) => q \notin DOMAIN s.prevState /\ q \notin DOMAIN next
          BY <1>2, <3>1, <3>2, <3>4, ValuePrefix
        <5>2. At(s.prevState, k) = At(next, k)
          BY <1>2, <3>1, <5>1, SameParts DEF Agree
        <5> QED BY <2>2, <5>2
      <4>3. k \in R \/ Root(k) \in R
        BY <1>8, <3>1, <3>4, <4>2
      <4>4. \E x \in R : IsPrefix(x, r)
        <5>1. k # <<>> /\ Len(k) > 0
          BY <1>3, <3>1, EmptyPath, LenNat
        <5>2. Root(k) \in Paths /\ IsPrefix(Root(k), k)
          BY <3>1, <5>1, Roots
        <5>3. IsPrefix(Root(k), r)
          BY <3>1, <4>1, <5>2, PrefixOrder
        <5> QED BY <4>1, <4>3, <5>3
      <4> QED BY <1>3, <2>1, <2>2, <4>4
    <3> QED BY <3>3, <3>4
  <2>3. ASSUME NEW k \in s.keys, deltasEnabled, ~s.star, k \in DOMAIN s.prevState,
               Root(k) \notin DOMAIN next
        PROVE  Root(k) \notin DOMAIN n
    <3>1. k \in keys /\ k \in all /\ k \in Paths /\ k # <<>>
      BY <1>3, <2>3 DEF keys, Compared
    <3>2. Len(k) > 0
      BY <3>1, EmptyPath, LenNat
    <3>3. Root(k) \in Paths /\ IsPrefix(Root(k), k) /\ IsPrefix(Root(k), Root(k))
      BY <3>1, <3>2, Roots, PrefixOrder
    <3>4. k \notin DOMAIN next
      BY <1>2, <2>3, <3>3, ValuePrefix
    <3>5. k \notin DOMAIN state
      BY <1>4, <3>4 DEF IsSlice
    <3>6. Root(k) \in R
      BY <1>8, <2>3, <3>1, <3>5
    <3> QED BY <2>1, <3>3, <3>6
  <2>4. s.star /\ ~deltasEnabled /\ next # EmptyObject => n = next
    BY <1>9
  <2>5. \A r \in Paths : Apart(r, Withdrawn(s)) => Agree(n, copy, r) \/ Agree(n, next, r)
    BY <1>3, <2>1
  <2>6. /\ IsState(n)
        /\ \A r \in Paths : r \notin DOMAIN next /\ r \notin DOMAIN copy => r \notin DOMAIN n
    BY <2>1
  <2> QED BY <2>2, <2>3, <2>4, <2>5, <2>6 DEF keys
<1> QED BY <1>1, <1>9

-----------------------------------------------------------------------------
(* The callbacks of one change, one after the other. *)

(* What holds from one natural number to the next holds from there on. *)
LEMMA Upwards ==
    ASSUME NEW n \in Nat, NEW m \in 0..n, NEW S, m \in S,
           \A i \in m..(n - 1) : i \in S => i + 1 \in S
    PROVE  n \in S
<1> SUFFICES ASSUME n \notin S PROVE FALSE
  OBVIOUS
<1> DEFINE not == {i \in Nat : i \in m..n /\ i \notin S}
<1>1. not \in SUBSET Nat /\ n \in not
  OBVIOUS
<1>2. PICK i \in not : \A j \in not : <<j, i>> \notin OpToRel(<, Nat)
  BY <1>1, NatLessThanWellFounded, WFMin
<1>3. i \in Nat /\ m <= i /\ i <= n /\ i \notin S /\ i # m
  OBVIOUS
<1>4. i - 1 \in Nat /\ i - 1 \in m..(n - 1) /\ (i - 1) + 1 = i /\ i - 1 < i
  BY <1>3
<1>5. i - 1 \in not
  BY <1>3, <1>4
<1>6. <<i - 1, i>> \in OpToRel(<, Nat)
  BY <1>3, <1>4 DEF OpToRel
<1> QED BY <1>2, <1>5, <1>6

(* The copy after one callback more. *)
NextCopy(i, copy, prev, next) ==
    IF Concerned(i, prev, next) THEN Received(copy, subs[i], next) ELSE copy

IsRun(f, m, prev, next) ==
    /\ f = [i \in 0..m |-> f[i]]
    /\ f[0] = cachedState
    /\ \A i \in 1..m : f[i] = NextCopy(i, f[i - 1], prev, next)

LEMMA RunExists ==
    ASSUME NEW prev, NEW next, NEW n \in Nat
    PROVE  \E f : IsRun(f, n, prev, next)
<1> DEFINE S == {m \in Nat : \E f : IsRun(f, m, prev, next)}
<1>1. 0 \in S
  <2> DEFINE f == [i \in 0..0 |-> cachedState]
  <2>1. IsRun(f, 0, prev, next)
    BY DEF IsRun
  <2> QED BY <2>1
<1>2. ASSUME NEW m \in Nat, m \in S
      PROVE  m + 1 \in S
  <2>1. PICK f : IsRun(f, m, prev, next)
    BY <1>2
  <2> DEFINE g == [i \in 0..(m + 1) |->
                     IF i <= m THEN f[i] ELSE NextCopy(m + 1, f[m], prev, next)]
  <2>2. \A i \in 0..m : g[i] = f[i]
    OBVIOUS
  <2>3. g[m + 1] = NextCopy(m + 1, f[m], prev, next)
    OBVIOUS
  <2>4. g = [i \in 0..(m + 1) |-> g[i]]
    OBVIOUS
  <2> HIDE DEF g
  <2>5. \A i \in 1..(m + 1) : g[i] = NextCopy(i, g[i - 1], prev, next)
    <3> SUFFICES ASSUME NEW i \in 1..(m + 1)
                 PROVE  g[i] = NextCopy(i, g[i - 1], prev, next)
      OBVIOUS
    <3>1. CASE i = m + 1
      <4>1. i - 1 = m /\ m \in 0..m
        BY <3>1
      <4> QED BY <2>2, <2>3, <3>1, <4>1
    <3>2. CASE i # m + 1
      <4>1. i \in 1..m /\ i \in 0..m /\ i - 1 \in 0..m
        BY <3>2
      <4> QED BY <2>1, <2>2, <4>1 DEF IsRun
    <3> QED BY <3>1, <3>2
  <2>6. IsRun(g, m + 1, prev, next)
    <3>1. 0 \in 0..m
      OBVIOUS
    <3> QED BY <2>1, <2>2, <2>4, <2>5, <3>1 DEF IsRun
  <2> QED BY <2>6
<1>3. n \in S
  <2>1. 0 \in 0..n
    OBVIOUS
  <2> HIDE DEF S
  <2> QED BY <1>1, <1>2, <2>1, Upwards
<1> QED BY <1>3

LEMMA CallbacksAreARun ==
    ASSUME subscribes \in Nat, NEW prev, NEW next
    PROVE  \E f : IsRun(f, subscribes, prev, next) /\ AfterCallbacks(prev, next) = f[subscribes]
<1> DEFINE step(f) == [i \in 0..subscribes |->
                         IF i = 0 THEN cachedState
                         ELSE IF Concerned(i, prev, next) THEN Received(f[i - 1], subs[i], next)
                         ELSE f[i - 1]]
           copy == CHOOSE f : f = step(f)
<1>1. AfterCallbacks(prev, next) = copy[subscribes]
  BY DEF AfterCallbacks
<1>2. \E f : f = step(f)
  <2>1. PICK f : IsRun(f, subscribes, prev, next)
    BY RunExists
  <2>2. \A i \in 0..subscribes :
            f[i] = IF i = 0 THEN cachedState
                   ELSE IF Concerned(i, prev, next) THEN Received(f[i - 1], subs[i], next)
                   ELSE f[i - 1]
    <3> SUFFICES ASSUME NEW i \in 0..subscribes
                 PROVE  f[i] = IF i = 0 THEN cachedState
                               ELSE IF Concerned(i, prev, next) THEN Received(f[i - 1], subs[i], next)
                               ELSE f[i - 1]
      OBVIOUS
    <3>1. CASE i = 0
      BY <2>1, <3>1 DEF IsRun
    <3>2. CASE i # 0
      <4>1. i \in 1..subscribes
        BY <3>2
      <4> QED BY <2>1, <3>2, <4>1 DEF IsRun, NextCopy
    <3> QED BY <3>1, <3>2
  <2>3. f = step(f)
    BY <2>1, <2>2 DEF IsRun
  <2> QED BY <2>3
<1>3. copy = step(copy)
  BY <1>2
<1> HIDE DEF copy
<1>4. \A i \in 0..subscribes :
          copy[i] = IF i = 0 THEN cachedState
                    ELSE IF Concerned(i, prev, next) THEN Received(copy[i - 1], subs[i], next)
                    ELSE copy[i - 1]
  BY <1>3
<1>5. IsRun(copy, subscribes, prev, next)
  <2>1. copy = [i \in 0..subscribes |-> copy[i]]
    BY <1>3
  <2>2. copy[0] = cachedState
    BY <1>4
  <2>3. \A i \in 1..subscribes : copy[i] = NextCopy(i, copy[i - 1], prev, next)
    BY <1>4 DEF NextCopy
  <2> QED BY <2>1, <2>2, <2>3 DEF IsRun
<1> QED BY <1>1, <1>5

-----------------------------------------------------------------------------
(* The inductive invariant. *)

Typed ==
    /\ deltasEnabled \in BOOLEAN /\ maxDepth \in Nat /\ subscribes \in Nat
    /\ \A i \in DOMAIN subs : IsSubscription(subs[i])

(* A '*' subscription is the only one, and has no keys. *)
Alone == \A i \in DOMAIN subs : subs[i].star => subs[i].keys = {} /\ DOMAIN subs = {i}

(* Each subscription compares with what the store has at its keys. *)
Baselines ==
    \A i \in DOMAIN subs :
        /\ subs[i].star => subs[i].prevState = Clean(store)
        /\ ~subs[i].star =>
             \A k \in subs[i].keys : At(subs[i].prevState, k) = At(Clean(store), k)

UnsentIsAbsent == \A k \in unsent : ~Sent(k)

WithdrawnIsShrunk == \A i \in DOMAIN subs : Withdrawn(subs[i]) \subseteq shrunk

(* What the window may read, path by path. *)
Reads(r) == Len(r) > 0 /\ Root(r) \in DOMAIN RootValues /\ IsSubscribedToKey(r) /\ ~Lost(r)
Fresh == \A r \in Paths : Reads(r) => Agree(cachedState, Clean(store), r)

NestedInv ==
    NestedTypeOK /\ Typed /\ Alone /\ Baselines /\ UnsentIsAbsent /\ WithdrawnIsShrunk /\ Fresh

LEMMA CleanStore ==
    ASSUME NestedInv
    PROVE  /\ IsState(Clean(store)) /\ IsClean(Clean(store), maxDepth)
           /\ IsValue(Clean(store)) /\ DOMAIN Clean(store) \subseteq Paths
           /\ DOMAIN Clean(store) \subseteq DOMAIN store
<1>1. IsState(store) /\ maxDepth \in Nat
  BY DEF NestedInv, NestedTypeOK, Typed
<1>2. /\ IsState(Clean(store)) /\ IsClean(Clean(store), maxDepth)
      /\ DOMAIN Clean(store) \subseteq DOMAIN store
  BY <1>1, SanitizedState DEF Clean
<1> QED BY <1>2, ValueAbove DEF IsState

LEMMA SubscribedBy ==
    \A r : IsSubscribedToKey(r) <=>
        HasStar \/ \E i \in DOMAIN subs : \E k \in subs[i].keys : IsPrefix(k, r)
BY DEF IsSubscribedToKey, WindowSubscriptions, CurrentKeys

LEMMA SubscribedBelow ==
    ASSUME NestedInv, NEW q \in Paths, NEW r \in Paths, IsPrefix(q, r), IsSubscribedToKey(q)
    PROVE  IsSubscribedToKey(r)
<1>1. CASE HasStar
  BY <1>1, SubscribedBy
<1>2. CASE ~HasStar
  <2>1. PICK i \in DOMAIN subs : \E k \in subs[i].keys : IsPrefix(k, q)
    BY <1>2, SubscribedBy
  <2> PICK k \in subs[i].keys : IsPrefix(k, q)
    BY <2>1
  <2>2. k \in Paths
    BY KeyPaths DEF NestedInv, NestedTypeOK
  <2>3. IsPrefix(k, r)
    BY <2>2, PrefixOrder
  <2> QED BY <2>3, SubscribedBy
<1> QED BY <1>1, <1>2

(* What the ghosts name are paths of at least one name. *)
LEMMA GhostPaths ==
    ASSUME NestedInv, NEW k \in unsent \cup shrunk
    PROVE  k \in Paths /\ Len(k) > 0
<1>1. k \in Keys \/ k \in DOMAIN RootValues
  BY DEF NestedInv, NestedTypeOK
<1>2. \A root \in DOMAIN RootValues : root \in Paths /\ Len(root) > 0
  BY KeyPaths
<1> QED BY <1>1, <1>2, KeyPaths

(* A path that is lost for no other reason is related to a key that is unsent. *)
LEMMA LostBy ==
    ASSUME NEW r, Lost(r), Apart(r, shrunk), ~EmptyIsUnsent
    PROVE  \E k \in unsent : Related(k, r)
BY DEF Lost, Apart

-----------------------------------------------------------------------------
(* What the callbacks of one change bring. *)
LEMMA CallbacksBring ==
    ASSUME NestedInv, NEW next, IsState(next), IsClean(next, maxDepth),
           NEW n, n = AfterCallbacks(Clean(store), next)
    PROVE  /\ IsState(n)
           /\ \A r \in Paths : Apart(r, shrunk) /\ Agree(cachedState, next, r) => Agree(n, next, r)
           /\ \A i \in DOMAIN subs : Concerned(i, Clean(store), next) =>
                /\ \A k \in Compared(subs[i], next), r \in Paths :
                     /\ At(subs[i].prevState, k) # At(next, k)
                     /\ IsPrefix(k, r) \/ (k \in DOMAIN next /\ IsPrefix(r, k))
                     /\ Apart(r, shrunk)
                     /\ ~(subs[i].star /\ ~deltasEnabled /\ next = EmptyObject)
                     => Agree(n, next, r)
                /\ \A r \in Paths :
                     /\ subs[i].star /\ ~deltasEnabled /\ next # EmptyObject
                     /\ Apart(r, shrunk)
                     => Agree(n, next, r)
                /\ \A k \in subs[i].keys :
                     /\ deltasEnabled /\ ~subs[i].star
                     /\ k \in DOMAIN subs[i].prevState /\ Root(k) \notin DOMAIN next
                     => Root(k) \notin DOMAIN n
<1> DEFINE prev == Clean(store)
<1>1. /\ subscribes \in Nat /\ maxDepth \in Nat /\ deltasEnabled \in BOOLEAN
      /\ IsState(cachedState) /\ DOMAIN subs \subseteq 1..subscribes
      /\ \A i \in DOMAIN subs : IsSubscription(subs[i]) /\ Withdrawn(subs[i]) \subseteq shrunk
  BY DEF NestedInv, NestedTypeOK, Typed, WithdrawnIsShrunk
<1>2. PICK f : IsRun(f, subscribes, prev, next) /\ n = f[subscribes]
  BY <1>1, CallbacksAreARun
<1> HIDE DEF prev
<1>3. /\ f[0] = cachedState
      /\ \A i \in 1..subscribes : f[i] = NextCopy(i, f[i - 1], prev, next)
  BY <1>2 DEF IsRun
<1>4. ASSUME NEW i \in 1..subscribes, IsState(f[i - 1])
      PROVE  /\ IsState(f[i])
             /\ \A r \in Paths : r \notin DOMAIN next /\ r \notin DOMAIN f[i - 1] => r \notin DOMAIN f[i]
             /\ \A r \in Paths : Apart(r, shrunk) =>
                  Agree(f[i], f[i - 1], r) \/ Agree(f[i], next, r)
  <2>1. CASE ~Concerned(i, prev, next)
    BY <1>3, <1>4, <2>1 DEF NextCopy, Agree
  <2>2. CASE Concerned(i, prev, next)
    <3>1. f[i] = Received(f[i - 1], subs[i], next) /\ i \in DOMAIN subs
      BY <1>3, <2>2 DEF NextCopy, Concerned
    <3>2. /\ IsState(f[i])
          /\ \A r \in Paths : r \notin DOMAIN next /\ r \notin DOMAIN f[i - 1] => r \notin DOMAIN f[i]
          /\ \A r \in Paths : Apart(r, Withdrawn(subs[i])) =>
               Agree(f[i], f[i - 1], r) \/ Agree(f[i], next, r)
      BY <1>1, <1>4, <3>1, ReceivedCopy
    <3>3. \A r : Apart(r, shrunk) => Apart(r, Withdrawn(subs[i]))
      BY <1>1, <3>1 DEF Apart
    <3> QED BY <3>2, <3>3
  <2> QED BY <2>1, <2>2
<1>5. \A i \in 0..subscribes : IsState(f[i])
  <2> SUFFICES ASSUME NEW m \in 0..subscribes PROVE IsState(f[m])
    OBVIOUS
  <2> DEFINE S == {i \in 0..subscribes : IsState(f[i])}
  <2>1. m \in Nat /\ 0 \in 0..m
    BY <1>1
  <2>2. 0 \in S
    BY <1>1, <1>3
  <2>3. ASSUME NEW i \in 0..(m - 1), i \in S
        PROVE  i + 1 \in S
    <3>1. i + 1 \in 1..subscribes /\ (i + 1) - 1 = i /\ i + 1 \in 0..subscribes
      BY <1>1, <2>1
    <3> QED BY <1>4, <2>3, <3>1
  <2>4. m \in S
    <3> HIDE DEF S
    <3> QED BY <2>1, <2>2, <2>3, Upwards
  <2> QED BY <2>4
<1>6. ASSUME NEW r \in Paths, Apart(r, shrunk), NEW m \in 0..subscribes, Agree(f[m], next, r)
      PROVE  Agree(n, next, r)
  <2> DEFINE S == {i \in 0..subscribes : Agree(f[i], next, r)}
  <2>1. m \in S
    BY <1>6
  <2>2. ASSUME NEW i \in m..(subscribes - 1), i \in S
        PROVE  i + 1 \in S
    <3>1. i + 1 \in 1..subscribes /\ (i + 1) - 1 = i /\ i + 1 \in 0..subscribes
      BY <1>1
    <3>2. Agree(f[i], next, r) /\ IsState(f[i])
      BY <1>5, <2>2
    <3>3. Agree(f[i + 1], f[i], r) \/ Agree(f[i + 1], next, r)
      BY <1>4, <1>6, <3>1, <3>2
    <3>4. Agree(f[i + 1], next, r)
      BY <3>2, <3>3, AgreeTwice
    <3> QED BY <3>1, <3>4
  <2>3. subscribes \in S
    <3> HIDE DEF S
    <3> QED BY <1>1, <2>1, <2>2, Upwards
  <2> QED BY <1>2, <2>3
<1>7. ASSUME NEW r \in Paths, r \notin DOMAIN next, NEW m \in 0..subscribes, r \notin DOMAIN f[m]
      PROVE  r \notin DOMAIN n
  <2> DEFINE S == {i \in 0..subscribes : r \notin DOMAIN f[i]}
  <2>1. m \in S
    BY <1>7
  <2>2. ASSUME NEW i \in m..(subscribes - 1), i \in S
        PROVE  i + 1 \in S
    <3>1. i + 1 \in 1..subscribes /\ (i + 1) - 1 = i /\ i + 1 \in 0..subscribes /\ i \in 0..subscribes
      BY <1>1
    <3>2. r \notin DOMAIN f[i] /\ IsState(f[i])
      BY <1>5, <2>2, <3>1
    <3>3. r \notin DOMAIN f[i + 1]
      BY <1>4, <1>7, <3>1, <3>2
    <3> QED BY <3>1, <3>3
  <2>3. subscribes \in S
    <3> HIDE DEF S
    <3> QED BY <1>1, <2>1, <2>2, Upwards
  <2> QED BY <1>2, <2>3
<1>8. subscribes \in 0..subscribes /\ 0 \in 0..subscribes
  BY <1>1
<1>9. ASSUME NEW i \in DOMAIN subs, Concerned(i, prev, next)
      PROVE  /\ i \in 0..subscribes
             /\ \A k \in Compared(subs[i], next), r \in Paths :
                  /\ At(subs[i].prevState, k) # At(next, k)
                  /\ IsPrefix(k, r) \/ (k \in DOMAIN next /\ IsPrefix(r, k))
                  /\ Apart(r, shrunk)
                  /\ ~(subs[i].star /\ ~deltasEnabled /\ next = EmptyObject)
                  => Agree(f[i], next, r)
             /\ subs[i].star /\ ~deltasEnabled /\ next # EmptyObject => f[i] = next
             /\ \A k \in subs[i].keys :
                  /\ deltasEnabled /\ ~subs[i].star
                  /\ k \in DOMAIN subs[i].prevState /\ Root(k) \notin DOMAIN next
                  => Root(k) \notin DOMAIN f[i]
  <2>1. i \in 1..subscribes /\ i \in 0..subscribes /\ i - 1 \in 0..subscribes
    BY <1>1
  <2>2. f[i] = Received(f[i - 1], subs[i], next) /\ IsState(f[i - 1])
    BY <1>3, <1>5, <1>9, <2>1 DEF NextCopy
  <2>3. \A r : Apart(r, shrunk) => Apart(r, Withdrawn(subs[i]))
    BY <1>1 DEF Apart
  <2>4. /\ \A k \in Compared(subs[i], next), r \in Paths :
             /\ At(subs[i].prevState, k) # At(next, k)
             /\ IsPrefix(k, r) \/ (k \in DOMAIN next /\ IsPrefix(r, k))
             /\ Apart(r, Withdrawn(subs[i]))
             /\ ~(subs[i].star /\ ~deltasEnabled /\ next = EmptyObject)
             => Agree(f[i], next, r)
        /\ subs[i].star /\ ~deltasEnabled /\ next # EmptyObject => f[i] = next
        /\ \A k \in subs[i].keys :
             /\ deltasEnabled /\ ~subs[i].star
             /\ k \in DOMAIN subs[i].prevState /\ Root(k) \notin DOMAIN next
             => Root(k) \notin DOMAIN f[i]
    BY <1>1, <2>2, ReceivedCopy
  <2> QED BY <2>1, <2>3, <2>4
<1>10. IsState(n)
  BY <1>2, <1>5, <1>8
<1>11. \A r \in Paths : Apart(r, shrunk) /\ Agree(cachedState, next, r) => Agree(n, next, r)
  BY <1>3, <1>6, <1>8
<1>12. ASSUME NEW i \in DOMAIN subs, Concerned(i, prev, next),
              NEW k \in Compared(subs[i], next), NEW r \in Paths,
              At(subs[i].prevState, k) # At(next, k),
              IsPrefix(k, r) \/ (k \in DOMAIN next /\ IsPrefix(r, k)),
              Apart(r, shrunk), ~(subs[i].star /\ ~deltasEnabled /\ next = EmptyObject)
       PROVE  Agree(n, next, r)
  BY <1>6, <1>9, <1>12
<1>13. ASSUME NEW i \in DOMAIN subs, Concerned(i, prev, next), NEW r \in Paths,
              subs[i].star, ~deltasEnabled, next # EmptyObject, Apart(r, shrunk)
       PROVE  Agree(n, next, r)
  <2>1. i \in 0..subscribes /\ Agree(f[i], next, r)
    BY <1>9, <1>13 DEF Agree
  <2> QED BY <1>6, <1>13, <2>1
<1>14. ASSUME NEW i \in DOMAIN subs, Concerned(i, prev, next), NEW k \in subs[i].keys,
              deltasEnabled, ~subs[i].star, k \in DOMAIN subs[i].prevState,
              Root(k) \notin DOMAIN next
       PROVE  Root(k) \notin DOMAIN n
  <2>1. k \in Keys /\ k \in Paths /\ Len(k) > 0
    BY <1>1, KeyPaths DEF IsSubscription
  <2>2. Root(k) \in Paths
    BY <2>1, Roots
  <2>3. i \in 0..subscribes /\ Root(k) \notin DOMAIN f[i]
    BY <1>9, <1>14
  <2> QED BY <1>7, <1>14, <2>2, <2>3
<1> QED BY <1>10, <1>11, <1>12, <1>13, <1>14 DEF prev

-----------------------------------------------------------------------------
(* The steps. *)

LEMMA NestedInitInv ==
    ASSUME NestedInit
    PROVE  NestedInv
<1>1. IsState(EmptyObject)
  <2>1. IsValue(EmptyObject)
    <3>1. DOMAIN EmptyObject = {<<>>} /\ EmptyObject[<<>>] = Obj
      BY DEF EmptyObject
    <3>2. EmptyObject \in [{<<>>} -> Leaves \cup {Obj}]
      BY DEF EmptyObject
    <3> QED BY <3>1, <3>2, EmptyPath, ValueAbove
  <2> QED BY <2>1 DEF IsState, EmptyObject
<1>2. IsState(store)
  <2>1. PICK root \in DOMAIN RootValues :
            \E value \in RootValues[root] :
                store \in {EmptyObject, SetDeep(EmptyObject, root, value)}
    BY DEF NestedInit
  <2>2. PICK value \in RootValues[root] :
            store \in {EmptyObject, SetDeep(EmptyObject, root, value)}
    BY <2>1
  <2>3. /\ root \in Paths /\ Len(root) = 1
        /\ IsValue(value) /\ value # Undefined
    BY NestedAssumption, KeyPaths
  <2>4. IsState(SetDeep(EmptyObject, root, value))
    BY <1>1, <2>3, RootSet
  <2> QED BY <1>1, <2>2, <2>4
<1>3. /\ DOMAIN subs = {} /\ unsent = {} /\ shrunk = {}
      /\ cachedState = EmptyObject /\ subscribes = 0
      /\ deltasEnabled \in BOOLEAN /\ maxDepth \in Nat
  BY NestedAssumption DEF NestedInit
<1>4. \A r : ~IsSubscribedToKey(r)
  BY <1>3, SubscribedBy DEF HasStar
<1> QED BY <1>1, <1>2, <1>3, <1>4 DEF NestedInv, NestedTypeOK, Typed, Alone, Baselines,
                                      UnsentIsAbsent, WithdrawnIsShrunk, Fresh, Reads

LEMMA UnchangedKeeps ==
    ASSUME NestedInv, UNCHANGED nestedVars
    PROVE  NestedInv'
<1>1. /\ UNCHANGED <<deltasEnabled, maxDepth, store, notified, subs, cachedState,
                     changes, subscribes, unsent, shrunk>>
  BY DEF nestedVars, config
<1>2. NestedTypeOK' <=> NestedTypeOK
  BY <1>1 DEF NestedTypeOK
<1>3. Typed' <=> Typed
  BY <1>1 DEF Typed
<1>4. (Alone' <=> Alone) /\ (WithdrawnIsShrunk' <=> WithdrawnIsShrunk)
  BY <1>1 DEF Alone, WithdrawnIsShrunk
<1>5. (HasStar' <=> HasStar) /\ CurrentKeys' = CurrentKeys /\ Clean(store)' = Clean(store)
  BY <1>1 DEF HasStar, CurrentKeys, Clean
<1>6. Baselines' <=> Baselines
  BY <1>1, <1>5 DEF Baselines
<1>7. \A r : IsSubscribedToKey(r)' <=> IsSubscribedToKey(r)
  BY <1>5 DEF IsSubscribedToKey, WindowSubscriptions
<1>8. UnsentIsAbsent' <=> UnsentIsAbsent
  BY <1>1, <1>5, <1>7 DEF UnsentIsAbsent, Sent
<1>9. \A r : Lost(r)' <=> Lost(r)
  BY <1>1, <1>5 DEF Lost, EmptyIsUnsent
<1>10. Fresh' <=> Fresh
  BY <1>1, <1>5, <1>7, <1>9 DEF Fresh, Reads
<1> QED BY <1>2, <1>3, <1>4, <1>6, <1>8, <1>10 DEF NestedInv

(* A path that may be read is at or below one a subscription compares. *)
LEMMA Covering ==
    ASSUME NestedInv, NEW r \in Paths, Len(r) > 0, IsSubscribedToKey(r),
           NEW next, IsState(next)
    PROVE  \E i \in DOMAIN subs : \E k \in Paths :
               /\ IsPrefix(k, r)
               /\ At(Clean(store), k) # At(next, k) =>
                    /\ Concerned(i, Clean(store), next)
                    /\ k \in Compared(subs[i], next)
                    /\ At(subs[i].prevState, k) # At(next, k)
<1>1. CASE HasStar
  <2>1. PICK i \in DOMAIN subs : subs[i].star
    BY <1>1 DEF HasStar
  <2>2. subs[i].prevState = Clean(store) /\ IsValue(Clean(store)) /\ IsValue(next)
    BY <2>1, CleanStore DEF NestedInv, Baselines, IsState
  <2>3. Root(r) \in Paths /\ Len(Root(r)) = 1 /\ IsPrefix(Root(r), r)
    BY Roots
  <2>4. ASSUME At(Clean(store), Root(r)) # At(next, Root(r))
        PROVE  Root(r) \in Compared(subs[i], next)
    <3> SUFFICES ASSUME Root(r) \notin DOMAIN Clean(store), Root(r) \notin DOMAIN next
                 PROVE  FALSE
      BY <2>1, <2>2, <2>3 DEF Compared, RootsOf
    <3>1. \A q \in Paths : IsPrefix(Root(r), q) => q \notin DOMAIN Clean(store) /\ q \notin DOMAIN next
      BY <2>2, <2>3, ValuePrefix
    <3> QED BY <2>2, <2>3, <2>4, <3>1, SameParts DEF Agree
  <2>5. Concerned(i, Clean(store), next)
    BY <2>1 DEF Concerned, Relevant
  <2> QED BY <2>2, <2>3, <2>4, <2>5
<1>2. CASE ~HasStar
  <2>1. PICK i \in DOMAIN subs : \E k \in subs[i].keys : IsPrefix(k, r)
    BY <1>2, SubscribedBy
  <2>2. PICK k \in subs[i].keys : IsPrefix(k, r)
    BY <2>1
  <2>3. ~subs[i].star
    BY <1>2 DEF HasStar
  <2>4. k \in Paths /\ At(subs[i].prevState, k) = At(Clean(store), k)
    BY <2>3, KeyPaths DEF NestedInv, NestedTypeOK, Baselines
  <2>5. k \in Compared(subs[i], next)
    BY <2>3 DEF Compared
  <2>6. At(Clean(store), k) # At(next, k) => Concerned(i, Clean(store), next)
    BY DEF Concerned, Relevant
  <2> QED BY <2>2, <2>4, <2>5, <2>6
<1> QED BY <1>1, <1>2

(* What a change of the store does to the state and to the subscriptions. *)
LEMMA StoreChanged ==
    ASSUME NestedInv, StoreChanges
    PROVE  /\ IsState(store') /\ IsState(Clean(store)') /\ IsClean(Clean(store)', maxDepth)
           /\ cachedState' = AfterCallbacks(Clean(store), Clean(store)')
           /\ subs' = [i \in DOMAIN subs |->
                         IF Concerned(i, Clean(store), Clean(store)')
                         THEN [subs[i] EXCEPT !.prevState = Slice(Clean(store)', subs[i])]
                         ELSE subs[i]]
           /\ UNCHANGED <<deltasEnabled, maxDepth, subscribes, shrunk>>
           /\ unsent' = {k \in unsent : ~Sent(k)'}
<1> DEFINE Raw(root, value) == IF value = Undefined THEN DeleteDeep(store, root)
                               ELSE SetDeep(store, root, value)
           Changed(root, value) ==
             LET next == Sanitize(Raw(root, value), maxDepth)
             IN  /\ store' = Raw(root, value)
                 /\ cachedState' = AfterCallbacks(Clean(store), next)
                 /\ subs' = [i \in DOMAIN subs |->
                               IF Concerned(i, Clean(store), next)
                               THEN [subs[i] EXCEPT !.prevState = Slice(next, subs[i])]
                               ELSE subs[i]]
<1>1. PICK root \in DOMAIN RootValues :
          \E value \in RootValues[root] \cup {Undefined} : Changed(root, value)
  BY DEF StoreChanges
<1>2. PICK value \in RootValues[root] \cup {Undefined} : Changed(root, value)
  BY <1>1
<1>3. IsState(store) /\ maxDepth \in Nat
  BY DEF NestedInv, NestedTypeOK, Typed
<1>4. IsState(store')
  <2>1. root \in Paths /\ Len(root) = 1 /\ root # <<>>
    BY KeyPaths
  <2>2. CASE value = Undefined
    <3>1. store' = DeleteAll(store, {root})
      BY <1>2, <2>2 DEF DeleteDeep
    <3>2. {root} \in SUBSET Paths /\ <<>> \notin {root}
      BY <2>1
    <3> QED BY <1>3, <3>1, <3>2, PartsDeleted
  <2>3. CASE value # Undefined
    <3>1. store' = SetDeep(store, root, value) /\ value \in RootValues[root]
      BY <1>2, <2>3
    <3>2. IsValue(value)
      BY <3>1, NestedAssumption
    <3> QED BY <1>3, <2>1, <2>3, <3>1, <3>2, RootSet
  <2> QED BY <2>2, <2>3
<1>5. /\ UNCHANGED <<deltasEnabled, maxDepth, subscribes, shrunk>>
      /\ unsent' = {k \in unsent : ~Sent(k)'}
  BY DEF StoreChanges, config
<1>6. Clean(store)' = Sanitize(store', maxDepth)
  BY <1>5 DEF Clean
<1>7. IsState(Clean(store)') /\ IsClean(Clean(store)', maxDepth)
  BY <1>3, <1>4, <1>6, SanitizedState
<1> QED BY <1>2, <1>4, <1>5, <1>6, <1>7

LEMMA StoreChangesKeeps ==
    ASSUME NestedInv, StoreChanges
    PROVE  NestedInv'
<1> DEFINE prev == Clean(store)
           next == Clean(store)'
<1>1. /\ cachedState' = AfterCallbacks(prev, next)
      /\ subs' = [i \in DOMAIN subs |->
                    IF Concerned(i, prev, next)
                    THEN [subs[i] EXCEPT !.prevState = Slice(next, subs[i])]
                    ELSE subs[i]]
  BY StoreChanged
<1>2. /\ UNCHANGED <<deltasEnabled, maxDepth, subscribes, shrunk>>
      /\ unsent' = {k \in unsent : ~Sent(k)'}
  BY StoreChanged
<1>3. \A i \in DOMAIN subs : IsSubscription(subs[i])
  BY DEF NestedInv, Typed
<1>4. IsState(store')
  BY StoreChanged
<1>5. IsState(next) /\ IsClean(next, maxDepth) /\ IsValue(next) /\ IsValue(prev)
  BY StoreChanged, CleanStore DEF IsState
<1> HIDE DEF next, prev
<1>6. ASSUME NEW i \in DOMAIN subs
      PROVE  /\ subs'[i].star = subs[i].star /\ subs'[i].keys = subs[i].keys
             /\ subs'[i].callbackKeys = subs[i].callbackKeys
             /\ subs'[i].prevState = IF Concerned(i, prev, next) THEN Slice(next, subs[i])
                                     ELSE subs[i].prevState
             /\ IsSubscription(subs'[i])
  <2>1. IsState(Slice(next, subs[i]))
    <3>1. subs[i].keys \in SUBSET Paths
      BY <1>3, KeyPaths DEF IsSubscription
    <3> QED BY <1>5, <3>1, PartialOf DEF Slice
  <2>2. CASE Concerned(i, prev, next)
    <3>1. subs'[i] = [subs[i] EXCEPT !.prevState = Slice(next, subs[i])]
      BY <1>1, <2>2
    <3>2. subs[i] = [star |-> subs[i].star, keys |-> subs[i].keys,
                     callbackKeys |-> subs[i].callbackKeys, prevState |-> subs[i].prevState]
      BY <1>3 DEF IsSubscription
    <3>3. subs'[i] = [star |-> subs[i].star, keys |-> subs[i].keys,
                      callbackKeys |-> subs[i].callbackKeys, prevState |-> Slice(next, subs[i])]
      BY <3>1, <3>2
    <3> QED BY <1>3, <2>1, <2>2, <3>3 DEF IsSubscription
  <2>3. CASE ~Concerned(i, prev, next)
    <3>1. subs'[i] = subs[i]
      BY <1>1, <2>3
    <3> QED BY <1>3, <2>3, <3>1
  <2> QED BY <2>2, <2>3
<1>7. DOMAIN subs' = DOMAIN subs
  BY <1>1
<1>8. (HasStar' <=> HasStar) /\ CurrentKeys' = CurrentKeys
  BY <1>6, <1>7 DEF HasStar, CurrentKeys
<1>9. \A r : IsSubscribedToKey(r)' <=> IsSubscribedToKey(r)
  BY <1>8 DEF IsSubscribedToKey, WindowSubscriptions
<1>10. /\ IsState(cachedState')
       /\ \A r \in Paths : Apart(r, shrunk) /\ Agree(cachedState, next, r) => Agree(cachedState', next, r)
       /\ \A i \in DOMAIN subs : Concerned(i, prev, next) =>
            /\ \A k \in Compared(subs[i], next), r \in Paths :
                 /\ At(subs[i].prevState, k) # At(next, k)
                 /\ IsPrefix(k, r) \/ (k \in DOMAIN next /\ IsPrefix(r, k))
                 /\ Apart(r, shrunk)
                 /\ ~(subs[i].star /\ ~deltasEnabled /\ next = EmptyObject)
                 => Agree(cachedState', next, r)
            /\ \A r \in Paths :
                 /\ subs[i].star /\ ~deltasEnabled /\ next # EmptyObject
                 /\ Apart(r, shrunk)
                 => Agree(cachedState', next, r)
  BY <1>1, <1>5, CallbacksBring DEF prev
<1>11. Fresh'
  <2> SUFFICES ASSUME NEW r \in Paths, Reads(r)'
               PROVE  Agree(cachedState', next, r)
    BY DEF Fresh, next
  <2>1. Len(r) > 0 /\ Root(r) \in DOMAIN RootValues /\ IsSubscribedToKey(r) /\ ~Lost(r)'
    BY <1>9 DEF Reads
  <2>2. /\ Apart(r, shrunk) /\ Apart(r, unsent')
        /\ ~(HasStar /\ ~deltasEnabled /\ next = EmptyObject)
    BY <1>2, <1>8, <2>1 DEF Lost, EmptyIsUnsent, Apart, next
  <2>3. \A i \in DOMAIN subs : ~(subs[i].star /\ ~deltasEnabled /\ next = EmptyObject)
    BY <2>2 DEF HasStar
  <2>4. PICK i \in DOMAIN subs : \E k \in Paths :
            /\ IsPrefix(k, r)
            /\ At(prev, k) # At(next, k) =>
                 /\ Concerned(i, prev, next)
                 /\ k \in Compared(subs[i], next)
                 /\ At(subs[i].prevState, k) # At(next, k)
    BY <1>5, <2>1, Covering DEF prev
  <2>5. PICK k \in Paths :
            /\ IsPrefix(k, r)
            /\ At(prev, k) # At(next, k) =>
                 /\ Concerned(i, prev, next)
                 /\ k \in Compared(subs[i], next)
                 /\ At(subs[i].prevState, k) # At(next, k)
    BY <2>4
  <2>6. CASE At(prev, k) # At(next, k)
    BY <1>10, <2>2, <2>3, <2>5, <2>6
  <2>7. CASE At(prev, k) = At(next, k)
    <3>1. Agree(prev, next, r)
      BY <1>5, <2>5, <2>7, SameParts
    <3>2. CASE ~Lost(r)
      <4>1. Agree(cachedState, prev, r)
        BY <2>1, <3>2 DEF NestedInv, Fresh, Reads, prev
      <4>2. Agree(cachedState, next, r)
        BY <3>1, <4>1, AgreeTwice
      <4> QED BY <1>10, <2>2, <4>2
    <3>3. CASE EmptyIsUnsent
      <4>1. HasStar /\ ~deltasEnabled /\ next # EmptyObject
        BY <2>2, <3>3 DEF EmptyIsUnsent
      <4>2. PICK j \in DOMAIN subs : subs[j].star
        BY <4>1 DEF HasStar
      <4>3. Concerned(j, prev, next)
        BY <4>2 DEF Concerned, Relevant
      <4> QED BY <1>10, <2>2, <4>1, <4>2, <4>3
    <3>4. CASE Lost(r) /\ ~EmptyIsUnsent
      <4>1. PICK u \in unsent : Related(u, r)
        BY <2>2, <3>4, LostBy
      <4>2. u \in Paths /\ Len(u) > 0
        BY GhostPaths
      <4>3. u \notin unsent'
        BY <2>2, <4>1 DEF Apart
      <4>4. Sent(u)'
        BY <1>2, <4>3
      <4>5. u \in DOMAIN next /\ IsSubscribedToKey(u)
        BY <1>9, <4>4 DEF Sent, next
      <4>6. u \notin DOMAIN prev
        BY <4>5 DEF NestedInv, UnsentIsAbsent, Sent, prev
      <4>7. PICK j \in DOMAIN subs : \E q \in Paths :
                /\ IsPrefix(q, u)
                /\ At(prev, q) # At(next, q) =>
                     /\ Concerned(j, prev, next)
                     /\ q \in Compared(subs[j], next)
                     /\ At(subs[j].prevState, q) # At(next, q)
        BY <1>5, <4>2, <4>5, Covering DEF prev
      <4>8. PICK q \in Paths :
                /\ IsPrefix(q, u)
                /\ At(prev, q) # At(next, q) =>
                     /\ Concerned(j, prev, next)
                     /\ q \in Compared(subs[j], next)
                     /\ At(subs[j].prevState, q) # At(next, q)
        BY <4>7
      <4>9. At(prev, q) # At(next, q)
        BY <1>5, <4>2, <4>5, <4>6, <4>8, SameParts DEF Agree
      <4>10. q \in DOMAIN next
        BY <1>5, <4>5, <4>8, ValuePrefix
      <4>11. IsPrefix(q, r) \/ IsPrefix(r, q)
        BY <4>1, <4>2, <4>8, PrefixOrder DEF Related
      <4> QED BY <1>10, <2>2, <2>3, <4>8, <4>9, <4>10, <4>11
    <3> QED BY <3>2, <3>3, <3>4
  <2> QED BY <2>6, <2>7
<1>12. NestedTypeOK'
  <2>1. unsent' \cup shrunk' \subseteq Keys \cup DOMAIN RootValues /\ DOMAIN subs' \subseteq 1..subscribes'
    BY <1>2, <1>7 DEF NestedInv, NestedTypeOK
  <2>2. \A i \in DOMAIN subs' :
            /\ subs'[i].keys \subseteq subs'[i].callbackKeys /\ subs'[i].callbackKeys \subseteq Keys
            /\ IsState(subs'[i].prevState)
    BY <1>6, <1>7 DEF IsSubscription
  <2> QED BY <1>4, <1>10, <2>1, <2>2 DEF NestedTypeOK
<1>13. Typed'
  BY <1>2, <1>6, <1>7 DEF NestedInv, Typed
<1>14. Alone'
  BY <1>6, <1>7 DEF NestedInv, Alone
<1>15. UnsentIsAbsent'
  BY <1>2 DEF UnsentIsAbsent
<1>16. WithdrawnIsShrunk'
  BY <1>2, <1>6, <1>7 DEF NestedInv, WithdrawnIsShrunk, Withdrawn
<1>17. Baselines'
  <2> SUFFICES ASSUME NEW i \in DOMAIN subs
               PROVE  /\ subs[i].star => subs'[i].prevState = next
                      /\ ~subs[i].star =>
                           \A k \in subs[i].keys : At(subs'[i].prevState, k) = At(next, k)
    BY <1>6, <1>7 DEF Baselines, next
  <2>1. CASE subs[i].star
    <3>1. Concerned(i, prev, next)
      BY <2>1 DEF Concerned, Relevant
    <3> QED BY <1>6, <2>1, <3>1 DEF Slice
  <2>2. CASE ~subs[i].star /\ Concerned(i, prev, next)
    <3>1. subs'[i].prevState = Partial(next, subs[i].keys)
      BY <1>6, <2>2 DEF Slice
    <3>2. subs[i].keys \in SUBSET Paths
      BY <1>3, KeyPaths DEF IsSubscription
    <3>3. ASSUME NEW k \in subs[i].keys
          PROVE  At(subs'[i].prevState, k) = At(next, k)
      <4>1. /\ IsValue(subs'[i].prevState) /\ k \in Paths
            /\ \A q \in Paths : IsPrefix(k, q) => Agree(subs'[i].prevState, next, q)
        BY <1>5, <3>1, <3>2, PartialOf DEF IsState
      <4> QED BY <1>5, <4>1, SameParts
    <3> QED BY <2>2, <3>3
  <2>3. CASE ~subs[i].star /\ ~Concerned(i, prev, next)
    <3>1. \A k \in subs[i].keys : At(prev, k) = At(next, k)
      BY <2>3 DEF Concerned, Relevant
    <3>2. \A k \in subs[i].keys : At(subs[i].prevState, k) = At(prev, k)
      BY <2>3 DEF NestedInv, Baselines, prev
    <3> QED BY <1>6, <2>3, <3>1, <3>2
  <2> QED BY <2>1, <2>2, <2>3
<1> QED BY <1>11, <1>12, <1>13, <1>14, <1>15, <1>16, <1>17 DEF NestedInv

(* The copy of what isSubscribedToKey lets the window read, in one answer. *)
LEMMA VisibleIsFresh ==
    ASSUME NestedInv
    PROVE  /\ IsState(Visible)
           /\ \A r \in DOMAIN Visible : r \in DOMAIN Clean(store) /\ Visible[r] = Clean(store)[r]
           /\ \A r \in Paths : IsSubscribedToKey(r) => Agree(Visible, Clean(store), r)
<1>1. IsState(Clean(store)) /\ CurrentKeys \in SUBSET Paths
  BY CleanStore, KeyPaths DEF NestedInv, NestedTypeOK, CurrentKeys
<1>2. CASE HasStar
  BY <1>1, <1>2 DEF Visible, Agree
<1>3. CASE ~HasStar
  <2>1. Visible = Partial(Clean(store), CurrentKeys)
    BY <1>3 DEF Visible
  <2>2. /\ IsState(Visible)
        /\ \A r \in DOMAIN Visible : r \in DOMAIN Clean(store) /\ Visible[r] = Clean(store)[r]
        /\ \A k \in CurrentKeys, r \in Paths : IsPrefix(k, r) => Agree(Visible, Clean(store), r)
    BY <1>1, <2>1, PartialOf
  <2>3. \A r : IsSubscribedToKey(r) => \E k \in CurrentKeys : IsPrefix(k, r)
    BY <1>3 DEF IsSubscribedToKey, WindowSubscriptions
  <2> QED BY <2>2, <2>3
<1> QED BY <1>2, <1>3

LEMMA ResyncKeeps ==
    ASSUME NestedInv, Resync
    PROVE  NestedInv'
<1>1. /\ UNCHANGED <<deltasEnabled, maxDepth, store, notified, subs, changes, subscribes, shrunk>>
      /\ cachedState' = Visible /\ unsent' = {}
  BY DEF Resync, config
<1>2. /\ IsState(Visible)
      /\ \A r \in Paths : IsSubscribedToKey(r) => Agree(Visible, Clean(store), r)
  BY VisibleIsFresh
<1>3. (HasStar' <=> HasStar) /\ CurrentKeys' = CurrentKeys /\ Clean(store)' = Clean(store)
  BY <1>1 DEF HasStar, CurrentKeys, Clean
<1>4. \A r : IsSubscribedToKey(r)' <=> IsSubscribedToKey(r)
  BY <1>3 DEF IsSubscribedToKey, WindowSubscriptions
<1>5. NestedTypeOK'
  BY <1>1, <1>2 DEF NestedInv, NestedTypeOK
<1>6. Typed' /\ Alone' /\ WithdrawnIsShrunk'
  BY <1>1 DEF NestedInv, Typed, Alone, WithdrawnIsShrunk
<1>7. Baselines'
  BY <1>1, <1>3 DEF NestedInv, Baselines
<1>8. UnsentIsAbsent'
  BY <1>1 DEF UnsentIsAbsent
<1>9. Fresh'
  BY <1>1, <1>2, <1>3, <1>4 DEF Fresh, Reads
<1> QED BY <1>5, <1>6, <1>7, <1>8, <1>9 DEF NestedInv

(* Fewer keys of fewer subscriptions: what may still be read may be read before. *)
LEMMA FewerKeep ==
    ASSUME NestedInv,
           UNCHANGED <<deltasEnabled, maxDepth, store, notified, cachedState, changes,
                       subscribes, unsent>>,
           DOMAIN subs' \subseteq DOMAIN subs,
           \A i \in DOMAIN subs' :
             /\ IsSubscription(subs'[i])
             /\ subs'[i].star = subs[i].star /\ subs'[i].keys \subseteq subs[i].keys
             /\ subs'[i].prevState = subs[i].prevState,
           \A i \in DOMAIN subs : subs[i].star /\ i \notin DOMAIN subs' => DOMAIN subs' = {},
           WithdrawnIsShrunk', shrunk \subseteq shrunk', shrunk' \subseteq shrunk \cup Keys
    PROVE  NestedInv'
<1>1. Clean(store)' = Clean(store)
  BY DEF Clean
<1>2. \A r : IsSubscribedToKey(r)' => IsSubscribedToKey(r)
  <2> SUFFICES ASSUME NEW r, IsSubscribedToKey(r)' PROVE IsSubscribedToKey(r)
    OBVIOUS
  <2>1. \/ \E i \in DOMAIN subs' : subs'[i].star
        \/ \E i \in DOMAIN subs' : \E k \in subs'[i].keys : IsPrefix(k, r)
    BY DEF IsSubscribedToKey, WindowSubscriptions, CurrentKeys, HasStar
  <2>2. \/ \E i \in DOMAIN subs : subs[i].star
        \/ \E i \in DOMAIN subs : \E k \in subs[i].keys : IsPrefix(k, r)
    BY <2>1
  <2> QED BY <2>2, SubscribedBy DEF HasStar
<1>3. ASSUME NEW r, IsSubscribedToKey(r)', EmptyIsUnsent
      PROVE  EmptyIsUnsent'
  <2>1. PICK i \in DOMAIN subs : subs[i].star
    BY <1>3 DEF EmptyIsUnsent, HasStar
  <2>2. DOMAIN subs' # {}
    BY <1>3 DEF IsSubscribedToKey, WindowSubscriptions, CurrentKeys, HasStar
  <2>3. i \in DOMAIN subs' /\ subs'[i].star
    BY <2>1, <2>2
  <2> QED BY <1>1, <1>3, <2>3 DEF EmptyIsUnsent, HasStar
<1>4. ASSUME NEW r, Reads(r)'
      PROVE  Reads(r)
  <2>1. IsSubscribedToKey(r)' /\ ~Lost(r)'
    BY <1>4 DEF Reads
  <2>2. ~Lost(r)
    BY <1>3, <2>1 DEF Lost
  <2> QED BY <1>2, <1>4, <2>2 DEF Reads
<1>5. Fresh'
  BY <1>1, <1>4 DEF NestedInv, Fresh
<1>6. UnsentIsAbsent'
  BY <1>1, <1>2 DEF NestedInv, UnsentIsAbsent, Sent
<1>7. NestedTypeOK' /\ Typed'
  BY DEF NestedInv, NestedTypeOK, Typed, IsSubscription
<1>8. Alone'
  <2> SUFFICES ASSUME NEW i \in DOMAIN subs', subs'[i].star
               PROVE  subs'[i].keys = {} /\ DOMAIN subs' = {i}
    BY DEF Alone
  <2>1. i \in DOMAIN subs /\ subs[i].star /\ subs[i].keys = {} /\ DOMAIN subs = {i}
    BY DEF NestedInv, Alone
  <2> QED BY <2>1
<1>9. Baselines'
  BY <1>1 DEF NestedInv, Baselines
<1> QED BY <1>5, <1>6, <1>7, <1>8, <1>9 DEF NestedInv

LEMMA CallHandleKeeps ==
    ASSUME NestedInv, NEW i \in DOMAIN subs, CallHandle(i)
    PROVE  NestedInv'
<1>1. /\ UNCHANGED <<deltasEnabled, maxDepth, store, notified, cachedState, changes,
                     subscribes, unsent>>
      /\ shrunk' = shrunk
      /\ subs' = [j \in DOMAIN subs \ {i} |-> subs[j]]
  BY DEF CallHandle, config
<1>2. DOMAIN subs' = DOMAIN subs \ {i} /\ \A j \in DOMAIN subs' : subs'[j] = subs[j]
  BY <1>1
<1>3. \A j \in DOMAIN subs : subs[j].star /\ j \notin DOMAIN subs' => DOMAIN subs' = {}
  BY <1>2 DEF NestedInv, Alone
<1>4. WithdrawnIsShrunk'
  BY <1>1, <1>2 DEF NestedInv, WithdrawnIsShrunk
<1>5. \A j \in DOMAIN subs' : IsSubscription(subs'[j])
  BY <1>2 DEF NestedInv, Typed
<1> QED BY <1>1, <1>2, <1>3, <1>4, <1>5, FewerKeep

LEMMA UnsubscribeKeyKeeps ==
    ASSUME NestedInv, NEW key \in CurrentKeys, UnsubscribeKey(key)
    PROVE  NestedInv'
<1> DEFINE alive == {i \in DOMAIN subs : subs[i].star \/ subs[i].keys \ {key} # {}}
<1>1. /\ UNCHANGED <<deltasEnabled, maxDepth, store, notified, cachedState, changes,
                     subscribes, unsent>>
      /\ subs' = [i \in alive |-> [subs[i] EXCEPT !.keys = @ \ {key}]]
      /\ shrunk' = shrunk \cup
             UNION {subs'[i].callbackKeys \ subs'[i].keys : i \in DOMAIN subs'}
  BY DEF UnsubscribeKey, config
<1>2. DOMAIN subs' = alive
  BY <1>1
<1>3. ASSUME NEW i \in DOMAIN subs'
      PROVE  /\ i \in DOMAIN subs
             /\ subs'[i].star = subs[i].star /\ subs'[i].keys = subs[i].keys \ {key}
             /\ subs'[i].callbackKeys = subs[i].callbackKeys
             /\ subs'[i].prevState = subs[i].prevState
             /\ IsSubscription(subs'[i])
  <2>1. i \in DOMAIN subs /\ IsSubscription(subs[i])
    BY <1>2 DEF NestedInv, Typed
  <2>2. subs'[i] = [subs[i] EXCEPT !.keys = @ \ {key}]
    BY <1>1, <1>2
  <2>3. subs[i] = [star |-> subs[i].star, keys |-> subs[i].keys,
                   callbackKeys |-> subs[i].callbackKeys, prevState |-> subs[i].prevState]
    BY <2>1 DEF IsSubscription
  <2>4. subs'[i] = [star |-> subs[i].star, keys |-> subs[i].keys \ {key},
                    callbackKeys |-> subs[i].callbackKeys, prevState |-> subs[i].prevState]
    BY <2>2, <2>3
  <2> QED BY <2>1, <2>4 DEF IsSubscription
<1>4. \A i \in DOMAIN subs : subs[i].star => i \in DOMAIN subs'
  BY <1>2
<1>5. WithdrawnIsShrunk'
  BY <1>1 DEF WithdrawnIsShrunk, Withdrawn
<1>6. shrunk \subseteq shrunk' /\ shrunk' \subseteq shrunk \cup Keys
  <2> DEFINE gone == UNION {subs'[i].callbackKeys \ subs'[i].keys : i \in DOMAIN subs'}
  <2>1. shrunk' = shrunk \cup gone
    BY <1>1
  <2>2. ASSUME NEW k \in gone
        PROVE  k \in Keys
    <3>1. PICK i \in DOMAIN subs' : k \in subs'[i].callbackKeys
      OBVIOUS
    <3>2. subs'[i].callbackKeys \subseteq Keys
      BY <1>3, <3>1 DEF IsSubscription
    <3> QED BY <3>1, <3>2
  <2> HIDE DEF gone
  <2> QED BY <2>1, <2>2
<1>7. \A i \in DOMAIN subs' : subs'[i].keys \subseteq subs[i].keys
  BY <1>3
<1> HIDE DEF alive
<1> QED BY <1>1, <1>3, <1>4, <1>5, <1>6, <1>7, FewerKeep

(* What a subscription sends of all its keys, and nothing that is removed. *)
LEMMA SentWhole ==
    ASSUME NEW copy, IsState(copy), NEW next, IsState(next), NEW state,
           NEW all \in SUBSET Paths, <<>> \notin all, IsSlice(state, next, all),
           NEW S \in SUBSET (all \cap DOMAIN state),
           NEW n, n = MergeDelta(copy, PartsDelta(state, S, {}))
    PROVE  /\ IsState(n)
           /\ \A r \in Paths : Agree(n, copy, r) \/ Agree(n, next, r)
           /\ \A r \in Paths : (\E k \in S : Related(k, r)) => Agree(n, next, r)
<1>1. IsDeltaOf(state, next, all, all, S, {})
  BY DEF IsDeltaOf
<1>2. Brings(n, copy, next, all, all, S, {})
  BY <1>1, Delivered
<1>3. \A r : Apart(r, all \ all)
  BY DEF Apart
<1> QED BY <1>2, <1>3 DEF Brings

LEMMA SubscribeKeeps ==
    ASSUME NestedInv, NEW star \in BOOLEAN, NEW keys \in SUBSET Keys, star => keys = {},
           Subscribe(star, keys)
    PROVE  NestedInv'
<1> DEFINE state == Clean(IF star THEN store ELSE Partial(store, keys))
           wanted == IF star THEN DOMAIN RootValues ELSE keys
           id == subscribes + 1
           S == wanted \cap DOMAIN state
           prev == Clean(store)
           new == {k \in wanted : k \notin DOMAIN state /\ ~IsSubscribedToKey(k)}
           added == [star |-> star, keys |-> keys, callbackKeys |-> keys, prevState |-> state]
<1>1. /\ UNCHANGED <<deltasEnabled, maxDepth, store, notified, changes, shrunk>>
      /\ subscribes' = id
      /\ star \/ ~HasStar
      /\ subs' = [i \in (IF star THEN {} ELSE DOMAIN subs) \cup {id} |->
                    IF i # id THEN subs[i] ELSE added]
      /\ unsent' = {k \in unsent \cup new : ~Sent(k)'}
      /\ cachedState' = MergeDelta(cachedState, PartsDelta(state, S, {}))
  BY DEF Subscribe, config, PartsDelta, ToDeltaKeys
<1>2. /\ IsState(store) /\ IsState(cachedState) /\ maxDepth \in Nat /\ subscribes \in Nat
      /\ DOMAIN subs \subseteq 1..subscribes
      /\ \A i \in DOMAIN subs : IsSubscription(subs[i])
  BY DEF NestedInv, NestedTypeOK, Typed
<1>3. IsState(prev) /\ IsValue(prev) /\ DOMAIN prev \subseteq Paths /\ DOMAIN prev \subseteq DOMAIN store
  BY CleanStore
<1>4. /\ wanted \in SUBSET Paths /\ <<>> \notin wanted /\ keys \in SUBSET Paths
      /\ \A k \in wanted : Len(k) > 0 /\ k \in Keys \cup DOMAIN RootValues
  BY KeyPaths
<1>5. IsSlice(state, prev, wanted)
  <2>1. CASE star
    BY <1>3, <2>1 DEF IsSlice, Agree
  <2>2. CASE ~star
    <3>1. /\ IsState(Partial(store, keys))
          /\ \A r \in DOMAIN Partial(store, keys) :
               r \in DOMAIN store /\ Partial(store, keys)[r] = store[r]
          /\ \A k \in keys, r \in Paths :
               IsPrefix(k, r) \/ (k \in DOMAIN store /\ IsPrefix(r, k)) =>
                 Agree(Partial(store, keys), store, r)
      BY <1>2, <1>4, PartialOf
    <3>2. state = Sanitize(Partial(store, keys), maxDepth) /\ prev = Sanitize(store, maxDepth)
      BY <2>2 DEF Clean
    <3>3. \A r : Agree(Partial(store, keys), store, r) => Agree(state, prev, r)
      BY <3>2, SanitizeAgrees
    <3>4. IsState(state) /\ DOMAIN state \subseteq DOMAIN Partial(store, keys)
      BY <1>2, <3>1, <3>2, SanitizedState
    <3> HIDE DEF state, prev
    <3>5. ASSUME NEW r \in DOMAIN state
          PROVE  r \in DOMAIN prev /\ state[r] = prev[r]
      <4>1. Agree(Partial(store, keys), store, r)
        BY <3>1, <3>4 DEF Agree
      <4> QED BY <3>3, <4>1 DEF Agree
    <3>6. \A k \in keys, r \in Paths :
            IsPrefix(k, r) \/ (k \in DOMAIN prev /\ IsPrefix(r, k)) => Agree(state, prev, r)
      BY <1>3, <3>1, <3>3
    <3> QED BY <2>2, <3>4, <3>5, <3>6 DEF IsSlice
  <2> QED BY <2>1, <2>2
<1> HIDE DEF state, wanted, prev, new
<1>6. \A k \in wanted : k \in DOMAIN state <=> k \in DOMAIN prev
  BY <1>4, <1>5, PrefixOrder DEF IsSlice, Agree
<1>7. /\ IsState(cachedState')
      /\ \A r \in Paths : Agree(cachedState', cachedState, r) \/ Agree(cachedState', prev, r)
      /\ \A r \in Paths : (\E k \in S : Related(k, r)) => Agree(cachedState', prev, r)
  <2>1. S \in SUBSET (wanted \cap DOMAIN state)
    OBVIOUS
  <2>2. cachedState' = MergeDelta(cachedState, PartsDelta(state, S, {}))
    BY <1>1
  <2> HIDE DEF S, id, added
  <2> QED BY <1>2, <1>3, <1>4, <1>5, <2>1, <2>2, SentWhole
<1>8. prev' = prev
  BY <1>1 DEF prev, Clean
<1>9. /\ id \in DOMAIN subs' /\ subs'[id] = added
      /\ \A i \in DOMAIN subs' : i # id => i \in DOMAIN subs /\ subs'[i] = subs[i] /\ ~star
      /\ ~star => DOMAIN subs \subseteq DOMAIN subs'
      /\ id \notin DOMAIN subs
  BY <1>1, <1>2
<1>10. /\ HasStar' <=> star
       /\ \A r : IsSubscribedToKey(r)' <=>
            star \/ IsSubscribedToKey(r) \/ \E k \in keys : IsPrefix(k, r)
  <2>1. HasStar' <=> star
    BY <1>1, <1>9 DEF HasStar
  <2>2. CASE star
    BY <2>1, <2>2 DEF IsSubscribedToKey, WindowSubscriptions
  <2>3. CASE ~star
    <3>1. ~HasStar /\ ~HasStar'
      BY <1>1, <2>1, <2>3
    <3>2. CurrentKeys' = CurrentKeys \cup keys
      <4>1. DOMAIN subs' = DOMAIN subs \cup {id}
        BY <1>1, <2>3
      <4>2. \A i \in DOMAIN subs : subs'[i].keys = subs[i].keys
        BY <1>9, <4>1
      <4>3. subs'[id].keys = keys
        BY <1>9
      <4> QED BY <4>1, <4>2, <4>3 DEF CurrentKeys
    <3> QED BY <2>1, <2>3, <3>1, <3>2 DEF IsSubscribedToKey, WindowSubscriptions
  <2> QED BY <2>1, <2>2, <2>3
<1>11. Fresh'
  <2> SUFFICES ASSUME NEW r \in Paths, Reads(r)'
               PROVE  Agree(cachedState', prev, r)
    BY <1>8 DEF Fresh, prev
  <2>1. /\ Len(r) > 0 /\ Root(r) \in DOMAIN RootValues /\ IsSubscribedToKey(r)'
        /\ Apart(r, shrunk) /\ Apart(r, unsent')
        /\ ~(star /\ ~deltasEnabled /\ prev = EmptyObject)
    BY <1>1, <1>8, <1>10 DEF Reads, Lost, EmptyIsUnsent, Apart, prev
  <2>2. /\ Root(r) \in Paths /\ IsPrefix(Root(r), r)
    BY <2>1, Roots
  <2>3. ASSUME NEW k \in wanted, k \in DOMAIN prev, Related(k, r)
        PROVE  Agree(cachedState', prev, r)
    BY <1>6, <1>7, <2>3
  <2>4. ASSUME NEW k \in wanted, IsPrefix(k, r), ~IsSubscribedToKey(k)
        PROVE  Agree(cachedState', prev, r)
    <3>1. CASE k \in DOMAIN prev
      BY <2>3, <2>4, <3>1 DEF Related
    <3>2. CASE k \notin DOMAIN prev
      <4>1. k \in new
        BY <1>6, <2>4, <3>2 DEF new
      <4>2. ~Sent(k)'
        BY <1>8, <3>2 DEF Sent, prev
      <4>3. k \in unsent'
        BY <1>1, <4>1, <4>2
      <4> QED BY <2>1, <2>4, <4>3 DEF Apart, Related
    <3> QED BY <3>1, <3>2
  <2>5. ASSUME IsSubscribedToKey(r), ~Lost(r)
        PROVE  Agree(cachedState', prev, r)
    <3>1. Agree(cachedState, prev, r)
      BY <2>1, <2>5 DEF NestedInv, Fresh, Reads, prev
    <3> QED BY <1>7, <3>1, AgreeTwice
  <2>6. ASSUME Lost(r), ~EmptyIsUnsent
        PROVE  \E k \in unsent : Related(k, r) /\ k \in DOMAIN prev /\ ~IsSubscribedToKey(k)
    <3>1. PICK k \in unsent : Related(k, r)
      BY <2>1, <2>6, LostBy
    <3>2. Sent(k)'
      BY <1>1, <2>1, <3>1 DEF Apart
    <3>3. k \in DOMAIN prev
      BY <1>8, <3>2 DEF Sent, prev
    <3> QED BY <3>1, <3>3 DEF NestedInv, UnsentIsAbsent, Sent, prev
  <2>7. CASE star
    <3>1. Root(r) \in wanted
      BY <2>1, <2>7 DEF wanted
    <3>2. CASE ~IsSubscribedToKey(Root(r))
      BY <2>2, <2>4, <3>1, <3>2
    <3>3. CASE IsSubscribedToKey(Root(r)) /\ Root(r) \in DOMAIN prev
      BY <2>2, <2>3, <3>1, <3>3 DEF Related
    <3>4. CASE IsSubscribedToKey(Root(r)) /\ Root(r) \notin DOMAIN prev
      <4>1. IsSubscribedToKey(r)
        BY <2>2, <3>4, SubscribedBelow
      <4>2. ~EmptyIsUnsent
        BY <2>1, <2>7 DEF EmptyIsUnsent, prev
      <4>3. ~Lost(r)
        <5> SUFFICES ASSUME Lost(r) PROVE FALSE
          OBVIOUS
        <5>1. PICK k \in unsent : Related(k, r) /\ k \in DOMAIN prev
          BY <2>6, <4>2
        <5>2. k \in Paths /\ Len(k) > 0
          BY GhostPaths
        <5>3. Root(k) \in Paths /\ Len(Root(k)) = 1 /\ IsPrefix(Root(k), k)
          BY <5>2, Roots
        <5>4. Root(k) \in DOMAIN prev
          BY <1>3, <5>1, <5>3, ValuePrefix
        <5>5. Root(k) = Root(r)
          <6>1. CASE IsPrefix(k, r)
            <7>1. IsPrefix(Root(k), r)
              BY <5>2, <5>3, <6>1, PrefixOrder
            <7> QED BY <2>1, <5>3, <7>1, Roots
          <6>2. CASE IsPrefix(r, k)
            <7>1. IsPrefix(Root(r), k) /\ Len(Root(r)) = 1
              BY <2>1, <2>2, <5>2, <6>2, PrefixOrder, Roots
            <7> QED BY <2>2, <5>2, <7>1, Roots
          <6> QED BY <5>1, <6>1, <6>2 DEF Related
        <5> QED BY <3>4, <5>4, <5>5
      <4> QED BY <2>5, <4>1, <4>3
    <3> QED BY <3>2, <3>3, <3>4
  <2>8. CASE ~star
    <3>1. wanted = keys /\ ~EmptyIsUnsent
      BY <1>1, <2>8 DEF wanted, EmptyIsUnsent
    <3>2. CASE ~IsSubscribedToKey(r)
      <4>1. PICK k \in keys : IsPrefix(k, r)
        BY <1>10, <2>1, <2>8, <3>2
      <4>2. ~IsSubscribedToKey(k)
        BY <1>4, <3>2, <4>1, SubscribedBelow
      <4> QED BY <2>4, <3>1, <4>1, <4>2
    <3>3. CASE IsSubscribedToKey(r) /\ ~Lost(r)
      BY <2>5, <3>3
    <3>4. CASE IsSubscribedToKey(r) /\ Lost(r)
      <4>1. PICK u \in unsent : Related(u, r) /\ u \in DOMAIN prev /\ ~IsSubscribedToKey(u)
        BY <2>6, <3>1, <3>4
      <4>2. Sent(u)'
        BY <1>1, <2>1, <4>1 DEF Apart
      <4>3. PICK k \in keys : IsPrefix(k, u)
        BY <1>10, <2>8, <4>1, <4>2 DEF Sent
      <4>4. k \in Paths /\ u \in Paths
        BY <1>3, <1>4, <4>1
      <4>5. k \in DOMAIN prev
        BY <1>3, <4>1, <4>3, <4>4, ValuePrefix
      <4>6. Related(k, r)
        BY <4>1, <4>3, <4>4, PrefixOrder DEF Related
      <4> QED BY <2>3, <3>1, <4>5, <4>6
    <3> QED BY <3>2, <3>3, <3>4
  <2> QED BY <2>7, <2>8
<1>12. IsSubscription(added) /\ IsState(state)
  BY <1>5 DEF IsSubscription, IsSlice
<1>13. \A i \in DOMAIN subs' : IsSubscription(subs'[i])
  BY <1>2, <1>9, <1>12
<1>14. NestedTypeOK'
  <2>1. DOMAIN subs' \subseteq 1..subscribes'
    BY <1>1, <1>2
  <2>2. unsent' \cup shrunk' \subseteq Keys \cup DOMAIN RootValues
    BY <1>1, <1>4 DEF NestedInv, NestedTypeOK, new
  <2>3. \A i \in DOMAIN subs' :
            /\ subs'[i].keys \subseteq subs'[i].callbackKeys /\ subs'[i].callbackKeys \subseteq Keys
            /\ IsState(subs'[i].prevState)
    BY <1>13 DEF IsSubscription
  <2>4. IsState(store') /\ IsState(cachedState')
    BY <1>1, <1>2, <1>7
  <2> HIDE DEF S, id, added
  <2> QED BY <2>1, <2>2, <2>3, <2>4, ZenonT(30) DEF NestedTypeOK
<1>15. Typed'
  <2>1. deltasEnabled' \in BOOLEAN /\ maxDepth' \in Nat /\ subscribes' \in Nat
    BY <1>1, <1>2 DEF NestedInv, Typed
  <2> QED BY <1>13, <2>1 DEF Typed
<1>16. Alone'
  BY <1>1, <1>9, <1>10 DEF Alone, HasStar
<1>17. UnsentIsAbsent'
  BY <1>1 DEF UnsentIsAbsent
<1>18. WithdrawnIsShrunk'
  BY <1>1, <1>9 DEF NestedInv, WithdrawnIsShrunk, Withdrawn
<1>19. Baselines'
  <2>1. \A i \in DOMAIN subs' : i # id =>
            /\ subs'[i].star => subs'[i].prevState = prev
            /\ ~subs'[i].star => \A k \in subs'[i].keys : At(subs'[i].prevState, k) = At(prev, k)
    BY <1>9 DEF NestedInv, Baselines, prev
  <2>2. star => state = prev
    BY DEF state, prev
  <2>3. ASSUME ~star, NEW k \in keys
        PROVE  At(state, k) = At(prev, k)
    <3>1. \A q \in Paths : IsPrefix(k, q) => Agree(state, prev, q)
      BY <1>5, <2>3 DEF IsSlice, wanted
    <3>2. k \in Paths /\ IsValue(state)
      BY <1>4, <1>12 DEF IsState
    <3> QED BY <1>3, <3>1, <3>2, SameParts
  <2>4. Clean(store)' = prev
    BY <1>8 DEF prev
  <2> QED BY <1>9, <2>1, <2>2, <2>3, <2>4 DEF Baselines
<1> QED BY <1>11, <1>14, <1>15, <1>16, <1>17, <1>18, <1>19 DEF NestedInv

-----------------------------------------------------------------------------
LEMMA NestedNextKeeps ==
    ASSUME NestedInv, [NestedNext]_nestedVars
    PROVE  NestedInv'
<1>1. CASE StoreChanges
  BY <1>1, StoreChangesKeeps
<1>2. CASE \E keys \in KeySets : Subscribe(FALSE, keys)
  <2>1. PICK keys \in KeySets : Subscribe(FALSE, keys)
    BY <1>2
  <2>2. keys \in SUBSET Keys /\ FALSE \in BOOLEAN
    BY DEF KeySets
  <2> QED BY <2>1, <2>2, SubscribeKeeps
<1>3. CASE Subscribe(TRUE, {})
  <2>1. {} \in SUBSET Keys /\ TRUE \in BOOLEAN
    OBVIOUS
  <2> QED BY <1>3, <2>1, SubscribeKeeps
<1>4. CASE \E i \in DOMAIN subs : CallHandle(i)
  BY <1>4, CallHandleKeeps
<1>5. CASE \E key \in CurrentKeys : UnsubscribeKey(key)
  BY <1>5, UnsubscribeKeyKeeps
<1>6. CASE Resync
  BY <1>6, ResyncKeeps
<1>7. CASE UNCHANGED nestedVars
  BY <1>7, UnchangedKeeps
<1> QED BY <1>1, <1>2, <1>3, <1>4, <1>5, <1>6, <1>7 DEF NestedNext

(* Whatever overlaps: what a path has in the copy is what the store has
   there, and each subscription compares with what the store has at its keys.
   (SubscriptionHandler.ts:128-383) *)
THEOREM NestedInvariant == NestedSpec => []NestedInv
<1>1. NestedInit => NestedInv
  BY NestedInitInv
<1>2. NestedInv /\ [NestedNext]_nestedVars => NestedInv'
  BY NestedNextKeeps
<1> QED BY <1>1, <1>2, PTL DEF NestedSpec

(* If a path at or below p is lost, then so is p. *)
LEMMA LostAbove ==
    ASSUME NestedInv, NEW p \in Paths, NEW r \in Paths, IsPrefix(p, r), Lost(r)
    PROVE  Lost(p)
<1>1. CASE EmptyIsUnsent
  BY <1>1 DEF Lost
<1>2. CASE \E k \in unsent \cup shrunk : Related(k, r)
  <2>1. PICK k \in unsent \cup shrunk : Related(k, r)
    BY <1>2
  <2>2. k \in Paths
    BY <2>1, GhostPaths
  <2>3. IsPrefix(k, p) \/ IsPrefix(p, k)
    BY <2>1, <2>2, PrefixOrder DEF Related
  <2> QED BY <2>1, <2>3 DEF Lost, Related
<1> QED BY <1>1, <1>2 DEF Lost

(* A key the window may read is in the copy what it is in the store, and so is
   every path at or below it. *)
LEMMA FreshBelow ==
    ASSUME NestedInv, NEW p \in Keys, ValidateStateAccess({p}), ~Lost(p)
    PROVE  /\ \A r \in Paths : IsPrefix(p, r) => Agree(cachedState, Clean(store), r)
           /\ At(cachedState, p) = At(Clean(store), p)
           /\ Agree(cachedState, Clean(store), p)
<1>1. p \in Paths /\ Len(p) > 0 /\ Root(p) \in DOMAIN RootValues
  BY KeyPaths, NestedAssumption
<1>2. IsSubscribedToKey(p)
  BY SubscribedBy DEF ValidateStateAccess, WindowSubscriptions
<1>3. ASSUME NEW r \in Paths, IsPrefix(p, r)
      PROVE  Agree(cachedState, Clean(store), r)
  <2>1. IsSubscribedToKey(r)
    BY <1>1, <1>2, <1>3, SubscribedBelow
  <2>2. ~Lost(r)
    BY <1>1, <1>3, LostAbove
  <2>3. Len(r) > 0 /\ Root(r) \in DOMAIN RootValues
    BY <1>1, <1>3, Roots, PrefixOrder
  <2> QED BY <2>1, <2>2, <2>3 DEF NestedInv, Fresh, Reads
<1>4. IsPrefix(p, p)
  BY <1>1, PrefixOrder
<1>5. IsValue(cachedState) /\ IsValue(Clean(store))
  BY CleanStore DEF NestedInv, NestedTypeOK, IsState
<1> QED BY <1>1, <1>3, <1>4, <1>5, SameParts

(* What isSubscribedToKey lets the window read is what the store has there.
   (SubscriptionHandler.ts:128-383, DeltaMerger.ts:4-45, preload.ts:710-742) *)
THEOREM WindowsReadFresh == NestedSpec => []AccessIsFresh
<1>1. NestedInv => AccessIsFresh
  BY FreshBelow DEF NestedInv, AccessIsFresh
<1> QED BY <1>1, NestedInvariant, PTL

(* What validation lets an action affect exists in the copy as it is in the
   store; what an access check finds in the copy exists in the store.
   (actionValidator.ts:49-149, subscriptionValidator.ts:62-100) *)
THEOREM ActionsAreInformed == NestedSpec => []DispatchIsInformed
<1>1. ASSUME NestedInv, NEW k \in Keys, ValidateActionDispatch({k}), ~Lost(k)
      PROVE  k \in DOMAIN cachedState /\ At(cachedState, k) = At(Clean(store), k)
  <2>1. StateKeyExists(Visible, k) /\ (HasStar \/ IsSubscribedToKey(k))
    BY <1>1 DEF ValidateActionDispatch, CanDispatchAction
  <2>2. ValidateStateAccess({k})
    BY <2>1 DEF ValidateStateAccess, WindowSubscriptions
  <2>3. k \in DOMAIN Visible
    BY <2>1 DEF StateKeyExists
  <2>4. k \in DOMAIN Clean(store)
    BY <1>1, <2>3, VisibleIsFresh
  <2> QED BY <1>1, <2>2, <2>4, FreshBelow DEF Agree
<1>2. ASSUME NestedInv, NEW k \in Keys, ValidateWithExistence(cachedState, k), ~Lost(k)
      PROVE  StateKeyExists(Clean(store), k)
  BY <1>2, FreshBelow DEF ValidateWithExistence, StateKeyExists, Agree
<1>3. NestedInv => DispatchIsInformed
  BY <1>1, <1>2 DEF DispatchIsInformed
<1> QED BY <1>3, NestedInvariant, PTL

(* A step in which a root leaves the store takes it out of the copy. *)
LEMMA RootLeaves ==
    ASSUME NestedInv, StoreChanges, NEW root \in DOMAIN RootValues, LosesRoot(root)
    PROVE  root \notin DOMAIN cachedState'
<1> DEFINE prev == Clean(store)
           next == Clean(store)'
<1>1. /\ IsState(store') /\ IsState(next) /\ IsClean(next, maxDepth)
      /\ cachedState' = AfterCallbacks(prev, next) /\ maxDepth' = maxDepth /\ maxDepth \in Nat
  BY StoreChanged DEF NestedInv, Typed
<1>2. PICK i \in DOMAIN subs, k \in Keys :
          k \in subs[i].keys /\ IsPrefix(root, k) /\ k \in DOMAIN subs[i].prevState
  BY DEF LosesRoot
<1>3. root \in Paths /\ Len(root) = 1 /\ k \in Paths /\ Len(k) > 0
  BY KeyPaths
<1>4. Root(k) = root
  BY <1>2, <1>3, Roots
<1>5. root \notin DOMAIN next
  <2>1. next = Sanitize(store', maxDepth)
    BY <1>1 DEF Clean
  <2>2. DOMAIN next \subseteq DOMAIN store'
    BY <1>1, <2>1, SanitizedState
  <2> QED BY <2>2 DEF LosesRoot
<1>6. k \notin DOMAIN next
  BY <1>1, <1>2, <1>3, <1>5, ValuePrefix DEF IsState
<1>7. ~subs[i].star
  BY <1>2 DEF NestedInv, Alone
<1>8. At(prev, k) # At(next, k)
  <2>1. IsValue(prev) /\ IsValue(next) /\ IsValue(subs[i].prevState)
    BY <1>1, CleanStore DEF NestedInv, NestedTypeOK, IsState
  <2>2. At(subs[i].prevState, k) = At(prev, k)
    BY <1>2, <1>7 DEF NestedInv, Baselines
  <2>3. IsPrefix(k, k)
    BY <1>3, PrefixOrder
  <2>4. Agree(subs[i].prevState, prev, k)
    BY <1>3, <2>1, <2>2, <2>3, SameParts
  <2>5. ~Agree(prev, next, k)
    BY <1>2, <1>6, <2>4 DEF Agree
  <2> QED BY <1>3, <2>1, <2>3, <2>5, SameParts
<1>9. Concerned(i, prev, next)
  BY <1>2, <1>8 DEF Concerned, Relevant
<1> HIDE DEF next
<1> QED BY <1>1, <1>2, <1>4, <1>5, <1>7, <1>9, CallbacksBring DEF LosesRoot

(* A root that leaves the store leaves no empty object behind in the copy.
   (DeltaCalculator.ts:74-91) *)
THEOREM NoShellLeft == NestedSpec => NoShellStays
<1>1. ASSUME NestedInv, [NestedNext]_nestedVars, NEW root \in DOMAIN RootValues, LosesRoot(root)
      PROVE  root \notin DOMAIN cachedState'
  <2>1. store' # store
    BY <1>1 DEF LosesRoot
  <2>2. StoreChanges
    BY <1>1, <2>1 DEF NestedNext, Subscribe, CallHandle, UnsubscribeKey, Resync, nestedVars
  <2> QED BY <1>1, <2>2, RootLeaves
<1>2. NestedInv /\ [NestedNext]_nestedVars =>
          [\A root \in DOMAIN RootValues : LosesRoot(root) => root \notin DOMAIN cachedState']_nestedVars
  BY <1>1
<1> QED BY <1>2, NestedInvariant, PTL DEF NestedSpec, NoShellStays

-----------------------------------------------------------------------------
(* The ActionBatcher *)

IInv == TypeOK /\ NoStrandedQueue /\ WaitersAreServed

USE BatcherAssumption

-----------------------------------------------------------------------------
(* A batch is the head of a queue that it leaves, and no longer than it may. *)
LEMMA BatchAndRest ==
    ASSUME NEW q \in Seq(Actions)
    PROVE  /\ Batch(q) \in Seq(Actions) /\ Rest(q) \in Seq(Actions)
           /\ Len(Batch(q)) <= MaxBatchSize
           /\ Len(Batch(q)) + Len(Rest(q)) = Len(q)
           /\ Len(q) >= MaxBatchSize => Len(Batch(q)) = MaxBatchSize
<1> DEFINE n == IF Len(q) < MaxBatchSize THEN Len(q) ELSE MaxBatchSize
<1>1. n \in Nat /\ n <= Len(q) /\ n <= MaxBatchSize
  OBVIOUS
<1>2. Batch(q) = SubSeq(q, 1, n)
  BY DEF Batch
<1>3. Batch(q) \in Seq(Actions) /\ Len(Batch(q)) = n
  BY <1>1, <1>2
<1>4. Rest(q) = SubSeq(q, n + 1, Len(q))
  BY <1>3 DEF Rest
<1>5. Rest(q) \in Seq(Actions) /\ Len(Rest(q)) = Len(q) - n
  <2>1. n + 1 \in Int /\ Len(q) \in Int /\ \A i \in (n + 1)..Len(q) : q[i] \in Actions
    BY <1>1
  <2> HIDE DEF n
  <2>2. /\ Rest(q) \in Seq(Actions)
        /\ Len(Rest(q)) = IF n + 1 <= Len(q) THEN Len(q) - (n + 1) + 1 ELSE 0
    BY <1>4, <2>1, SubSeqProperties
  <2> QED
    BY <1>1, <2>1, <2>2
<1> QED
  BY <1>1, <1>3, <1>5

(* What a flush leaves. *)
LEMMA FlushLeaves ==
    ASSUME TypeOK, NEW q \in Seq(Actions), NEW late \in Seq(Actions), Flush(q, late)
    PROVE  /\ queue' \in Seq(Actions)
           /\ Len(queue') <= Len(q) + Len(late)
           /\ Len(q) >= MaxBatchSize => Len(queue') = Len(q) - MaxBatchSize + Len(late)
           /\ activeBatch' \in Seq(Actions) /\ Len(activeBatch') <= MaxBatchSize
           /\ sent' \in Seq(Seq(Actions)) /\ Len(sent') = Len(sent) + 1
           /\ pendingBatch' = Len(sent') /\ pendingBatch' # 0
           /\ handling' \subseteq 1..Len(sent')
           /\ isFlushing' = TRUE /\ timer' = FALSE
<1>1. /\ Batch(q) \in Seq(Actions) /\ Rest(q) \in Seq(Actions)
      /\ Len(Batch(q)) <= MaxBatchSize
      /\ Len(Batch(q)) + Len(Rest(q)) = Len(q)
      /\ Len(q) >= MaxBatchSize => Len(Batch(q)) = MaxBatchSize
  BY BatchAndRest
<1>2. queue' = Rest(q) \o late /\ activeBatch' = Batch(q)
  BY DEF Flush
<1>3. queue' \in Seq(Actions) /\ Len(queue') = Len(Rest(q)) + Len(late)
  BY <1>1, <1>2
<1>4. sent' \in Seq(Seq(Actions)) /\ Len(sent') = Len(sent) + 1
  BY <1>1 DEF Flush, TypeOK
<1>5. Len(sent) \in Nat
  BY DEF TypeOK
<1>6. pendingBatch' = Len(sent') /\ pendingBatch' # 0
  BY <1>4, <1>5 DEF Flush
<1>7. handling \subseteq 1..Len(sent) /\ handling' = handling \cup {Len(sent) + 1}
  BY DEF Flush, TypeOK
<1>8. handling' \subseteq 1..Len(sent')
  <2>1. \A n \in Nat : (1..n) \cup {n + 1} \subseteq 1..(n + 1)
    OBVIOUS
  <2>2. handling' \subseteq 1..(Len(sent) + 1)
    BY <1>5, <1>7, <2>1
  <2> QED
    BY <1>4, <2>2
<1>9. isFlushing' = TRUE /\ timer' = FALSE
  BY DEF Flush
<1>10. Len(queue') <= Len(q) + Len(late)
  BY <1>1, <1>3
<1>11. Len(q) >= MaxBatchSize => Len(queue') = Len(q) - MaxBatchSize + Len(late)
  <2>1. Len(Rest(q)) \in Nat /\ Len(q) \in Nat /\ Len(late) \in Nat /\ MaxBatchSize \in Nat
    BY <1>1
  <2>2. Len(q) >= MaxBatchSize => MaxBatchSize + Len(Rest(q)) = Len(q)
    BY <1>1
  <2>3. \A m, r, l, k \in Nat : m + r = k => r + l = k - m + l
    OBVIOUS
  <2> QED
    BY <1>3, <2>1, <2>2, <2>3
<1> QED
  BY <1>1, <1>2, <1>3, <1>4, <1>6, <1>8, <1>9, <1>10, <1>11

(* Settling counts, and what is not settled keeps its count. *)
LEMMA SettleTypes ==
    ASSUME TypeOK, NEW items, SettleEach(items)
    PROVE  settled' \in [Actions -> Nat]
  BY DEF SettleEach, TypeOK

(* The ids of the batches sent stay ids of batches sent. *)
LEMMA AcksGrow ==
    ASSUME TypeOK, acks' \subseteq acks, Len(sent') = Len(sent) + 1
    PROVE  acks' \subseteq 1..Len(sent')
<1>1. \A n \in Nat : 1..n \subseteq 1..(n + 1)
  OBVIOUS
<1>2. Len(sent) \in Nat /\ acks \subseteq 1..Len(sent)
  BY DEF TypeOK
<1> QED
  BY <1>1, <1>2

(* The part of the invariant that a step which starts a flush establishes. *)
LEMMA FlushInvariant ==
    ASSUME IInv, NEW q \in Seq(Actions), NEW late \in Seq(Actions), Flush(q, late),
           \/ Len(q) + Len(late) <= HardLimit
           \/ Len(q) >= MaxBatchSize /\ Len(q) - MaxBatchSize + Len(late) <= HardLimit,
           \A f \in Flushers : flusher'[f] = "waiting" => f \in flushResultWaiters'
    PROVE  /\ queue' \in Seq(Actions) /\ Len(queue') <= HardLimit
           /\ activeBatch' \in Seq(Actions) /\ Len(activeBatch') <= MaxBatchSize
           /\ sent' \in Seq(Seq(Actions)) /\ Len(sent') = Len(sent) + 1
           /\ pendingBatch' \in 0..Len(sent')
           /\ handling' \subseteq 1..Len(sent')
           /\ isFlushing' \in BOOLEAN /\ timer' \in BOOLEAN
           /\ NoStrandedQueue' /\ WaitersAreServed'
<1>1. /\ queue' \in Seq(Actions)
      /\ Len(queue') <= Len(q) + Len(late)
      /\ Len(q) >= MaxBatchSize => Len(queue') = Len(q) - MaxBatchSize + Len(late)
      /\ activeBatch' \in Seq(Actions) /\ Len(activeBatch') <= MaxBatchSize
      /\ sent' \in Seq(Seq(Actions)) /\ Len(sent') = Len(sent) + 1
      /\ pendingBatch' = Len(sent') /\ pendingBatch' # 0
      /\ handling' \subseteq 1..Len(sent')
      /\ isFlushing' = TRUE /\ timer' = FALSE
  BY FlushLeaves DEF IInv
<1>2. Len(queue') \in Nat /\ Len(sent') \in Nat
  BY <1>1
<1>3. Len(queue') <= HardLimit
  BY <1>1, <1>2
<1>5. pendingBatch' \in 0..Len(sent') /\ isFlushing' \in BOOLEAN /\ timer' \in BOOLEAN
  <2>1. \A n \in Nat : n \in 0..n
    OBVIOUS
  <2>2. pendingBatch' \in 0..Len(sent')
    BY <1>1, <1>2, <2>1
  <2> QED
    BY <1>1, <2>2
<1>4. NoStrandedQueue' /\ WaitersAreServed'
  BY <1>1 DEF NoStrandedQueue, WaitersAreServed
<1> QED
  BY <1>1, <1>3, <1>4, <1>5

(* FinishFlush, in a state with a batch in progress, with what it is given to
   complete it. *)
LEMMA FinishInvariant ==
    ASSUME IInv, isFlushing, FinishFlush, acks' \subseteq acks
    PROVE  IInv'
<1>1. TypeOK /\ NoStrandedQueue /\ WaitersAreServed
  BY DEF IInv
<1>2. settled' \in [Actions -> Nat]
  BY <1>1, SettleTypes DEF FinishFlush
<1>3. /\ flushResultWaiters' = {}
      /\ flusher' \in [Flushers -> {"idle", "waiting", "answered"}]
      /\ \A f \in Flushers : flusher'[f] # "waiting"
  BY <1>1 DEF FinishFlush, AnswerWaiters, TypeOK, WaitersAreServed
<1>4. isDestroyed' = isDestroyed /\ arrived' = arrived /\ pendingForceFlush' = FALSE
  BY DEF FinishFlush
<1>5. CASE pendingForceFlush /\ queue # <<>>
  <2>1. Flush(queue, <<>>)
    BY <1>5 DEF FinishFlush
  <2>2. queue \in Seq(Actions) /\ <<>> \in Seq(Actions) /\ Len(queue) + Len(<<>>) <= HardLimit
    BY <1>1 DEF TypeOK
  <2>3. /\ queue' \in Seq(Actions) /\ Len(queue') <= HardLimit
        /\ activeBatch' \in Seq(Actions) /\ Len(activeBatch') <= MaxBatchSize
        /\ sent' \in Seq(Seq(Actions)) /\ Len(sent') = Len(sent) + 1
        /\ pendingBatch' \in 0..Len(sent')
        /\ handling' \subseteq 1..Len(sent')
        /\ isFlushing' \in BOOLEAN /\ timer' \in BOOLEAN
        /\ NoStrandedQueue' /\ WaitersAreServed'
    BY <1>3, <2>1, <2>2, FlushInvariant
  <2>4. acks' \subseteq 1..Len(sent')
    BY <1>1, <2>3, AcksGrow DEF TypeOK
  <2> QED
    BY <1>1, <1>2, <1>3, <1>4, <2>3, <2>4 DEF IInv, TypeOK
<1>6. CASE ~(pendingForceFlush /\ queue # <<>>)
  <2>1. /\ activeBatch' = <<>> /\ pendingBatch' = 0 /\ isFlushing' = FALSE
        /\ timer' = (timer \/ (~pendingForceFlush /\ queue # <<>>))
        /\ UNCHANGED <<queue, sent, handling>>
    BY <1>6 DEF FinishFlush
  <2>2. TypeOK'
    <3>1. Len(sent') \in Nat /\ sent' \in Seq(Seq(Actions)) /\ Len(sent') = Len(sent)
      BY <1>1, <2>1 DEF TypeOK
    <3>2. pendingBatch' \in 0..Len(sent')
      BY <2>1, <3>1
    <3>3. handling' \subseteq 1..Len(sent') /\ acks' \subseteq 1..Len(sent')
      BY <1>1, <2>1 DEF TypeOK
    <3>4. /\ queue' \in Seq(Actions) /\ Len(queue') <= HardLimit
          /\ activeBatch' \in Seq(Actions) /\ Len(activeBatch') <= MaxBatchSize
      BY <1>1, <2>1 DEF TypeOK
    <3>5. timer' \in BOOLEAN /\ isFlushing' \in BOOLEAN
      BY <1>1, <2>1, Zenon
    <3> QED
      BY <1>1, <1>2, <1>3, <1>4, <3>1, <3>2, <3>3, <3>4, <3>5 DEF TypeOK
  <2>3. NoStrandedQueue'
    BY <1>1, <1>6, <2>1 DEF NoStrandedQueue, TypeOK
  <2>4. WaitersAreServed'
    BY <1>3 DEF WaitersAreServed
  <2> QED
    BY <2>2, <2>3, <2>4 DEF IInv
<1> QED
  BY <1>5, <1>6

(* A step that flushes q, with late behind it, and changes nothing of the wire
   but the batch it sends. *)
LEMMA StartInvariant ==
    ASSUME IInv, NEW q \in Seq(Actions), NEW late \in Seq(Actions), Flush(q, late),
           \/ Len(q) + Len(late) <= HardLimit
           \/ Len(q) >= MaxBatchSize /\ Len(q) - MaxBatchSize + Len(late) <= HardLimit,
           \A f \in Flushers : flusher'[f] = "waiting" => f \in flushResultWaiters',
           flushResultWaiters' \subseteq Flushers,
           flusher' \in [Flushers -> {"idle", "waiting", "answered"}],
           acks' = acks, isDestroyed' = isDestroyed,
           pendingForceFlush' = pendingForceFlush,
           arrived' \in Seq(Actions), settled' = settled
    PROVE  IInv'
<1>1. /\ queue' \in Seq(Actions) /\ Len(queue') <= HardLimit
      /\ activeBatch' \in Seq(Actions) /\ Len(activeBatch') <= MaxBatchSize
      /\ sent' \in Seq(Seq(Actions)) /\ Len(sent') = Len(sent) + 1
      /\ pendingBatch' \in 0..Len(sent')
      /\ handling' \subseteq 1..Len(sent')
      /\ isFlushing' \in BOOLEAN /\ timer' \in BOOLEAN
      /\ NoStrandedQueue' /\ WaitersAreServed'
  BY FlushInvariant
<1>2. TypeOK
  BY DEF IInv
<1>3. acks' \subseteq 1..Len(sent')
  BY <1>1, <1>2, AcksGrow DEF TypeOK
<1> QED
  BY <1>1, <1>2, <1>3 DEF IInv, TypeOK

-----------------------------------------------------------------------------
LEMMA InitInvariant == Init => IInv
<1> SUFFICES ASSUME Init PROVE IInv
  OBVIOUS
<1>1. TypeOK
  <2>1. /\ queue \in Seq(Actions) /\ Len(queue) = 0
        /\ activeBatch \in Seq(Actions) /\ Len(activeBatch) = 0
        /\ sent \in Seq(Seq(Actions)) /\ Len(sent) = 0 /\ arrived \in Seq(Actions)
    BY DEF Init
  <2>2. 0 <= HardLimit /\ 0 <= MaxBatchSize
    OBVIOUS
  <2>3. pendingBatch \in 0..Len(sent) /\ handling = {} /\ acks = {}
    BY <2>1 DEF Init
  <2> QED
    BY <2>1, <2>2, <2>3 DEF Init, TypeOK
<1>2. NoStrandedQueue /\ WaitersAreServed
  BY DEF Init, NoStrandedQueue, WaitersAreServed
<1> QED
  BY <1>1, <1>2 DEF IInv

(* enqueue: rejected, forcing a flush or deferring it, or simply queued. *)
LEMMA EnqueueInvariant ==
    ASSUME IInv, NEW a \in Actions, Enqueue(a)
    PROVE  IInv'
<1>1. TypeOK /\ NoStrandedQueue /\ WaitersAreServed
  BY DEF IInv
<1>2. arrived' \in Seq(Actions) /\ UNCHANGED <<isDestroyed, acks, flushResultWaiters, flusher>>
  BY <1>1 DEF Enqueue, TypeOK, callers
<1>3. queue \in Seq(Actions) /\ Len(queue) <= HardLimit /\ Len(queue) \in Nat
  BY <1>1 DEF TypeOK
<1>4. CASE isDestroyed \/ Len(queue) >= HardLimit
  <2>1. SettleEach({a}) /\ UNCHANGED <<queue, batches, schedule, handling>>
    BY <1>4 DEF Enqueue
  <2>2. settled' \in [Actions -> Nat]
    BY <1>1, <2>1, SettleTypes
  <2>3. TypeOK'
    BY <1>1, <1>2, <2>1, <2>2 DEF TypeOK, batches, schedule
  <2>4. NoStrandedQueue' /\ WaitersAreServed'
    BY <1>1, <1>2, <2>1 DEF NoStrandedQueue, WaitersAreServed, batches, schedule
  <2> QED
    BY <2>3, <2>4 DEF IInv
<1>5. CASE ~isDestroyed /\ Len(queue) < HardLimit
  <2>1. settled' = settled
    BY <1>3, <1>5 DEF Enqueue
  <2>2. ASSUME NEW q \in Seq(Actions), NEW late \in Seq(Actions),
               Len(q) + Len(late) = Len(queue) + 1, ForceFlush(q, late)
        PROVE  IInv'
    <3>1. Len(q) \in Nat /\ Len(late) \in Nat /\ Len(q) + Len(late) <= HardLimit
      BY <1>3, <1>5, <2>2
    <3>2. CASE ~isFlushing
      <4>1. Flush(q, late) /\ pendingForceFlush' = pendingForceFlush
        BY <2>2, <3>2 DEF ForceFlush
      <4> QED
        BY <1>1, <1>2, <2>1, <3>1, <4>1, StartInvariant DEF TypeOK, WaitersAreServed
    <3>3. CASE isFlushing
      <4>1. /\ pendingForceFlush' = TRUE /\ queue' = q \o late
            /\ UNCHANGED <<batches, handling, isFlushing, timer>>
        BY <2>2, <3>3 DEF ForceFlush
      <4>2. queue' \in Seq(Actions) /\ Len(queue') <= HardLimit
        BY <3>1, <4>1
      <4>3. TypeOK'
        BY <1>1, <1>2, <2>1, <4>1, <4>2 DEF TypeOK, batches
      <4>4. NoStrandedQueue' /\ WaitersAreServed'
        BY <1>1, <1>2, <3>3, <4>1 DEF NoStrandedQueue, WaitersAreServed, batches
      <4> QED
        BY <4>3, <4>4 DEF IInv
    <3> QED
      BY <3>2, <3>3
  <2>3. CASE a \in High
    <3>1. ForceFlush(<<a>> \o queue, <<>>)
      BY <1>3, <1>5, <2>3 DEF Enqueue
    <3>2. /\ <<a>> \o queue \in Seq(Actions) /\ <<>> \in Seq(Actions)
          /\ Len(<<a>> \o queue) + Len(<<>>) = Len(queue) + 1
      BY <1>3
    <3> QED
      BY <2>2, <3>1, <3>2
  <2>4. CASE a \notin High /\ Len(queue) >= MaxBatchSize
    <3>1. ForceFlush(queue, <<a>>)
      BY <1>3, <1>5, <2>4 DEF Enqueue
    <3>2. <<a>> \in Seq(Actions) /\ Len(queue) + Len(<<a>>) = Len(queue) + 1
      BY <1>3
    <3> QED
      BY <1>3, <2>2, <3>1, <3>2
  <2>5. CASE a \notin High /\ Len(queue) < MaxBatchSize
    <3>1. /\ queue' = Append(queue, a) /\ timer' = (timer \/ ~isFlushing)
          /\ UNCHANGED <<batches, handling, isFlushing, pendingForceFlush>>
      BY <1>3, <1>5, <2>5 DEF Enqueue
    <3>2. queue' \in Seq(Actions) /\ Len(queue') <= HardLimit
      BY <1>3, <1>5, <3>1
    <3>3. TypeOK'
      BY <1>1, <1>2, <2>1, <3>1, <3>2 DEF TypeOK, batches
    <3>4. NoStrandedQueue' /\ WaitersAreServed'
      BY <1>1, <1>2, <3>1 DEF NoStrandedQueue, WaitersAreServed, TypeOK, batches
    <3> QED
      BY <3>3, <3>4 DEF IInv
  <2> QED
    BY <1>3, <2>3, <2>4, <2>5
<1> QED
  BY <1>3, <1>4, <1>5

LEMMA NextInvariant == IInv /\ [Next]_vars => IInv'
<1> SUFFICES ASSUME IInv, [Next]_vars PROVE IInv'
  OBVIOUS
<1>0. TypeOK /\ NoStrandedQueue /\ WaitersAreServed
  BY DEF IInv
<1>1. queue \in Seq(Actions) /\ Len(queue) <= HardLimit /\ Len(queue) \in Nat
  BY <1>0 DEF TypeOK
<1>2. <<>> \in Seq(Actions) /\ Len(queue) + Len(<<>>) <= HardLimit
  BY <1>1
<1>3. ASSUME NEW a \in Actions, Enqueue(a) PROVE IInv'
  BY <1>3, EnqueueInvariant
<1>4. ASSUME NEW a \in Actions, Cancel(a) PROVE IInv'
  <2>1. PICK i \in DOMAIN queue : queue[i] = a /\ queue' = RemoveAt(queue, i)
    BY <1>4 DEF Cancel
  <2>2. i \in 1..Len(queue) /\ queue # <<>>
    BY <1>1, <2>1
  <2>3. /\ SubSeq(queue, 1, i - 1) \in Seq(Actions)
        /\ Len(SubSeq(queue, 1, i - 1)) = i - 1
    BY <1>1, <2>2
  <2>4. /\ SubSeq(queue, i + 1, Len(queue)) \in Seq(Actions)
        /\ Len(SubSeq(queue, i + 1, Len(queue))) = Len(queue) - i
    <3>1. i + 1 \in Int /\ Len(queue) \in Int
            /\ \A j \in (i + 1)..Len(queue) : queue[j] \in Actions
      BY <1>1, <2>2
    <3>2. /\ SubSeq(queue, i + 1, Len(queue)) \in Seq(Actions)
          /\ Len(SubSeq(queue, i + 1, Len(queue)))
               = IF i + 1 <= Len(queue) THEN Len(queue) - (i + 1) + 1 ELSE 0
      BY <3>1, SubSeqProperties
    <3> QED
      BY <1>1, <2>2, <3>2
  <2>5. queue' \in Seq(Actions) /\ Len(queue') <= HardLimit
    <3>1. queue' = SubSeq(queue, 1, i - 1) \o SubSeq(queue, i + 1, Len(queue))
      BY <2>1 DEF RemoveAt
    <3>2. queue' \in Seq(Actions) /\ Len(queue') = (i - 1) + (Len(queue) - i)
      BY <2>3, <2>4, <3>1, ConcatProperties
    <3> QED
      BY <1>1, <2>2, <3>2
  <2>6. /\ SettleEach({a})
        /\ UNCHANGED <<batches, schedule, isDestroyed, wire, callers, arrived>>
    BY <1>4 DEF Cancel
  <2>7. settled' \in [Actions -> Nat]
    BY <1>0, <2>6, SettleTypes
  <2>8. TypeOK'
    BY <1>0, <2>5, <2>6, <2>7 DEF TypeOK, batches, schedule, wire, callers
  <2>9. NoStrandedQueue' /\ WaitersAreServed'
    BY <1>0, <2>2, <2>6 DEF NoStrandedQueue, WaitersAreServed, batches, schedule, callers
  <2> QED
    BY <2>8, <2>9 DEF IInv
<1>5. CASE TimerFires
  <2>1. UNCHANGED <<pendingForceFlush, isDestroyed, acks, callers, arrived, settled>>
    BY <1>5 DEF TimerFires
  <2>2. CASE queue = <<>> \/ isFlushing
    <3>1. timer' = FALSE /\ UNCHANGED <<queue, batches, isFlushing, handling>>
      BY <1>5, <2>2 DEF TimerFires
    <3>2. TypeOK'
      BY <1>0, <2>1, <3>1 DEF TypeOK, batches, callers
    <3>3. NoStrandedQueue' /\ WaitersAreServed'
      BY <1>0, <2>1, <2>2, <3>1 DEF NoStrandedQueue, WaitersAreServed, batches, callers
    <3> QED
      BY <3>2, <3>3 DEF IInv
  <2>3. CASE ~(queue = <<>> \/ isFlushing)
    <3>1. Flush(queue, <<>>)
      BY <1>5, <2>3 DEF TimerFires
    <3> QED
      BY <1>0, <1>1, <1>2, <2>1, <3>1, StartInvariant DEF TypeOK, WaitersAreServed, callers
  <2> QED
    BY <2>2, <2>3
<1>6. ASSUME NEW f \in Flushers, FlushWithResult(f) PROVE IInv'
  <2>1. UNCHANGED <<isDestroyed, acks, arrived, settled>>
    BY <1>6 DEF FlushWithResult
  <2>2. CASE isDestroyed \/ (~isFlushing /\ queue = <<>>)
    <3>1. /\ flusher' = [flusher EXCEPT ![f] = "answered"]
          /\ UNCHANGED <<flushResultWaiters, queue, batches, schedule, handling>>
      BY <1>6, <2>2 DEF FlushWithResult
    <3>2. TypeOK'
      BY <1>0, <2>1, <3>1 DEF TypeOK, batches, schedule
    <3>3. NoStrandedQueue' /\ WaitersAreServed'
      BY <1>0, <2>1, <3>1 DEF TypeOK, NoStrandedQueue, WaitersAreServed, batches, schedule
    <3> QED
      BY <3>2, <3>3 DEF IInv
  <2>3. CASE ~(isDestroyed \/ (~isFlushing /\ queue = <<>>))
    <3>1. /\ flusher' = [flusher EXCEPT ![f] = "waiting"]
          /\ flushResultWaiters' = flushResultWaiters \cup {f}
          /\ IF isFlushing
             THEN UNCHANGED <<queue, batches, isFlushing, timer, handling>>
             ELSE Flush(queue, <<>>)
          /\ UNCHANGED pendingForceFlush
      BY <1>6, <2>3 DEF FlushWithResult
    <3>2. /\ flusher' \in [Flushers -> {"idle", "waiting", "answered"}]
          /\ flushResultWaiters' \subseteq Flushers
          /\ \A g \in Flushers : flusher'[g] = "waiting" => g \in flushResultWaiters'
      BY <1>0, <3>1 DEF TypeOK, WaitersAreServed
    <3>3. CASE isFlushing
      <4>1. TypeOK'
        BY <1>0, <2>1, <3>1, <3>2, <3>3 DEF TypeOK, batches
      <4>2. NoStrandedQueue' /\ WaitersAreServed'
        BY <1>0, <2>1, <3>1, <3>2, <3>3 DEF NoStrandedQueue, WaitersAreServed, batches
      <4> QED
        BY <4>1, <4>2 DEF IInv
    <3>4. CASE ~isFlushing
      <4>1. Flush(queue, <<>>) /\ arrived' \in Seq(Actions)
        BY <1>0, <2>1, <3>1, <3>4 DEF TypeOK
      <4> QED
        BY <1>1, <1>2, <2>1, <3>1, <3>2, <4>1, StartInvariant
    <3> QED
      BY <3>3, <3>4
  <2> QED
    BY <2>2, <2>3
<1>7. ASSUME NEW id \in acks, AckArrives(id) PROVE IInv'
  <2>1. acks' = acks \ {id}
    BY <1>7 DEF AckArrives
  <2>2. CASE id = pendingBatch
    <3>1. isFlushing
      BY <1>0, <1>7, <2>2 DEF TypeOK, NoStrandedQueue
    <3>2. FinishFlush
      BY <1>7, <2>2 DEF AckArrives
    <3> QED
      BY <2>1, <3>1, <3>2, FinishInvariant
  <2>3. CASE id # pendingBatch
    <3>1. UNCHANGED <<queue, batches, schedule, isDestroyed, handling, callers,
                      arrived, settled>>
      BY <1>7, <2>3 DEF AckArrives
    <3>2. TypeOK'
      BY <1>0, <2>1, <3>1 DEF TypeOK, batches, schedule, callers
    <3>3. NoStrandedQueue' /\ WaitersAreServed'
      BY <1>0, <3>1 DEF NoStrandedQueue, WaitersAreServed, batches, schedule, callers
    <3> QED
      BY <3>2, <3>3 DEF IInv
  <2> QED
    BY <2>2, <2>3
<1>8. CASE BatchTimesOut
  <2>1. FinishFlush /\ acks' = acks /\ isFlushing
    BY <1>0, <1>8 DEF BatchTimesOut, NoStrandedQueue
  <2> QED
    BY <2>1, FinishInvariant
<1>9. CASE Destroy
  <2>1. /\ isDestroyed' = TRUE /\ timer' = FALSE /\ pendingForceFlush' = FALSE
        /\ queue' = <<>> /\ activeBatch' = <<>>
        /\ UNCHANGED <<isFlushing, pendingBatch, sent, wire, arrived>>
    BY <1>9 DEF Destroy
  <2>2. settled' \in [Actions -> Nat]
    BY <1>0, <1>9, SettleTypes DEF Destroy
  <2>3. /\ flushResultWaiters' = {}
        /\ flusher' \in [Flushers -> {"idle", "waiting", "answered"}]
        /\ \A f \in Flushers : flusher'[f] # "waiting"
    BY <1>0, <1>9 DEF Destroy, AnswerWaiters, TypeOK, WaitersAreServed
  <2>4. /\ queue' \in Seq(Actions) /\ Len(queue') <= HardLimit
        /\ activeBatch' \in Seq(Actions) /\ Len(activeBatch') <= MaxBatchSize
    BY <2>1
  <2>5. TypeOK'
    BY <1>0, <2>1, <2>2, <2>3, <2>4 DEF TypeOK, wire
  <2>6. NoStrandedQueue' /\ WaitersAreServed'
    BY <1>0, <2>1, <2>3 DEF NoStrandedQueue, WaitersAreServed
  <2> QED
    BY <2>5, <2>6 DEF IInv
<1>10. ASSUME NEW id \in handling, MainAnswers(id) PROVE IInv'
  <2>1. /\ handling' = handling \ {id} /\ acks' = acks \cup {id} /\ id \in handling
        /\ UNCHANGED <<queue, batches, schedule, isDestroyed, callers, arrived, settled>>
    BY <1>10 DEF MainAnswers
  <2>2. TypeOK'
    BY <1>0, <2>1 DEF TypeOK, batches, schedule, callers
  <2>3. NoStrandedQueue' /\ WaitersAreServed'
    BY <1>0, <2>1 DEF NoStrandedQueue, WaitersAreServed, batches, schedule, callers
  <2> QED
    BY <2>2, <2>3 DEF IInv
<1>11. CASE UNCHANGED vars
  <2>1. TypeOK'
    BY <1>0, <1>11 DEF TypeOK, vars, batches, schedule, wire, callers
  <2>2. NoStrandedQueue' /\ WaitersAreServed'
    BY <1>0, <1>11 DEF NoStrandedQueue, WaitersAreServed, vars, batches, schedule, callers
  <2> QED
    BY <2>1, <2>2 DEF IInv
<1> QED
  BY <1>3, <1>4, <1>5, <1>6, <1>7, <1>8, <1>9, <1>10, <1>11 DEF Next

-----------------------------------------------------------------------------
(* Sequences in which nothing occurs twice. *)
NoRepeats(s) == \A i, j \in DOMAIN s : s[i] = s[j] => i = j

LEMMA ElementsOfConcat ==
    ASSUME NEW S, NEW p \in Seq(S), NEW q \in Seq(S)
    PROVE  ToSet(p \o q) = ToSet(p) \cup ToSet(q)
<1>1. /\ Len(p \o q) = Len(p) + Len(q) /\ p \o q \in Seq(S)
      /\ \A i \in 1..Len(p) : (p \o q)[i] = p[i]
      /\ \A i \in 1..Len(q) : (p \o q)[Len(p) + i] = q[i]
  BY ConcatProperties
<1>2. Len(p) \in Nat /\ Len(q) \in Nat
  OBVIOUS
<1>3. DOMAIN p = 1..Len(p) /\ DOMAIN q = 1..Len(q) /\ DOMAIN (p \o q) = 1..Len(p \o q)
  BY <1>1
<1>4. ASSUME NEW i \in DOMAIN (p \o q) PROVE (p \o q)[i] \in ToSet(p) \cup ToSet(q)
  <2>1. CASE i <= Len(p)
    <3>1. i \in 1..Len(p)
      BY <1>1, <1>2, <1>3, <2>1
    <3> QED
      BY <1>1, <1>3, <3>1 DEF ToSet
  <2>2. CASE i > Len(p)
    <3>1. i - Len(p) \in 1..Len(q) /\ i = Len(p) + (i - Len(p))
      BY <1>1, <1>2, <1>3, <2>2
    <3>2. (p \o q)[i] = q[i - Len(p)]
      BY <1>1, <3>1
    <3> QED
      BY <1>3, <3>1, <3>2 DEF ToSet
  <2> QED
    BY <1>1, <1>2, <1>3, <2>1, <2>2
<1>5. ASSUME NEW i \in DOMAIN p PROVE p[i] \in ToSet(p \o q)
  <2>1. i \in 1..Len(p \o q) /\ (p \o q)[i] = p[i]
    BY <1>1, <1>2, <1>3, <1>5
  <2> QED
    BY <1>3, <2>1 DEF ToSet
<1>6. ASSUME NEW i \in DOMAIN q PROVE q[i] \in ToSet(p \o q)
  <2>1. Len(p) + i \in 1..Len(p \o q) /\ (p \o q)[Len(p) + i] = q[i]
    BY <1>1, <1>2, <1>3, <1>6
  <2> QED
    BY <1>3, <2>1 DEF ToSet
<1> QED
  BY <1>4, <1>5, <1>6 DEF ToSet

LEMMA NoRepeatsInConcat ==
    ASSUME NEW S, NEW p \in Seq(S), NEW q \in Seq(S)
    PROVE  NoRepeats(p \o q)
             <=> NoRepeats(p) /\ NoRepeats(q) /\ ToSet(p) \cap ToSet(q) = {}
<1>1. /\ Len(p \o q) = Len(p) + Len(q) /\ p \o q \in Seq(S)
      /\ \A i \in 1..Len(p) : (p \o q)[i] = p[i]
      /\ \A i \in 1..Len(q) : (p \o q)[Len(p) + i] = q[i]
  BY ConcatProperties
<1>2. Len(p) \in Nat /\ Len(q) \in Nat
  OBVIOUS
<1>3. DOMAIN p = 1..Len(p) /\ DOMAIN q = 1..Len(q) /\ DOMAIN (p \o q) = 1..Len(p \o q)
  BY <1>1
<1>4. ASSUME NEW i \in 1..Len(q)
      PROVE  Len(p) + i \in 1..Len(p \o q) /\ (p \o q)[Len(p) + i] = q[i]
  BY <1>1, <1>2
<1>5. ASSUME NEW i \in 1..Len(p)
      PROVE  i \in 1..Len(p \o q) /\ (p \o q)[i] = p[i]
  BY <1>1, <1>2
<1>6. ASSUME NEW i \in 1..Len(p \o q), i > Len(p)
      PROVE  i - Len(p) \in 1..Len(q) /\ (p \o q)[i] = q[i - Len(p)]
  <2>1. i - Len(p) \in 1..Len(q) /\ i = Len(p) + (i - Len(p))
    BY <1>1, <1>2, <1>6
  <2> QED
    BY <1>1, <2>1
<1>7. ASSUME NoRepeats(p \o q)
      PROVE  NoRepeats(p) /\ NoRepeats(q) /\ ToSet(p) \cap ToSet(q) = {}
  <2>1. NoRepeats(p)
    BY <1>3, <1>5, <1>7 DEF NoRepeats
  <2>2. NoRepeats(q)
    <3>1. ASSUME NEW i \in 1..Len(q), NEW j \in 1..Len(q), q[i] = q[j] PROVE i = j
      <4>1. Len(p) + i = Len(p) + j
        BY <1>3, <1>4, <1>7, <3>1 DEF NoRepeats
      <4> QED
        BY <1>2, <4>1
    <3> QED
      BY <1>3, <3>1 DEF NoRepeats
  <2>3. ASSUME NEW i \in 1..Len(p), NEW j \in 1..Len(q), p[i] = q[j] PROVE FALSE
    <3>1. i = Len(p) + j
      BY <1>3, <1>4, <1>5, <1>7, <2>3 DEF NoRepeats
    <3> QED
      BY <1>2, <3>1
  <2> QED
    BY <1>3, <2>1, <2>2, <2>3 DEF ToSet
<1>8. ASSUME NoRepeats(p), NoRepeats(q), ToSet(p) \cap ToSet(q) = {},
             NEW i \in 1..Len(p \o q), NEW j \in 1..Len(p \o q), (p \o q)[i] = (p \o q)[j]
      PROVE  i = j
  <2>1. ASSUME NEW k \in 1..Len(p), NEW l \in 1..Len(q) PROVE p[k] # q[l]
    BY <1>3, <1>8 DEF ToSet
  <2>2. CASE i <= Len(p) /\ j <= Len(p)
    <3>1. i \in 1..Len(p) /\ j \in 1..Len(p)
      BY <1>1, <1>2, <2>2
    <3> QED
      BY <1>3, <1>5, <1>8, <3>1 DEF NoRepeats
  <2>3. CASE i <= Len(p) /\ j > Len(p)
    <3>1. i \in 1..Len(p)
      BY <1>1, <1>2, <2>3
    <3> QED
      BY <1>5, <1>6, <1>8, <2>1, <2>3, <3>1
  <2>4. CASE i > Len(p) /\ j <= Len(p)
    <3>1. j \in 1..Len(p)
      BY <1>1, <1>2, <2>4
    <3> QED
      BY <1>5, <1>6, <1>8, <2>1, <2>4, <3>1
  <2>5. CASE i > Len(p) /\ j > Len(p)
    <3>1. i - Len(p) = j - Len(p)
      BY <1>3, <1>6, <1>8, <2>5 DEF NoRepeats
    <3> QED
      BY <1>1, <1>2, <3>1
  <2> QED
    BY <1>1, <1>2, <2>2, <2>3, <2>4, <2>5
<1> QED
  BY <1>3, <1>7, <1>8 DEF NoRepeats

(* An element put before or behind a sequence. *)
LEMMA OneMore ==
    ASSUME NEW S, NEW a \in S, NEW q \in Seq(S)
    PROVE  /\ <<a>> \o q \in Seq(S) /\ q \o <<a>> \in Seq(S) /\ Append(q, a) = q \o <<a>>
           /\ ToSet(<<a>> \o q) = ToSet(q) \cup {a} /\ ToSet(q \o <<a>>) = ToSet(q) \cup {a}
           /\ NoRepeats(<<a>> \o q) <=> NoRepeats(q) /\ a \notin ToSet(q)
           /\ NoRepeats(q \o <<a>>) <=> NoRepeats(q) /\ a \notin ToSet(q)
<1> DEFINE one == <<a>>
<1>1. one \in Seq(S) /\ ToSet(one) = {a} /\ NoRepeats(one)
  BY DEF ToSet, NoRepeats
<1>2. Append(q, a) = q \o one
  BY AppendIsConcat
<1> HIDE DEF one
<1>3. /\ one \o q \in Seq(S) /\ q \o one \in Seq(S)
      /\ ToSet(one \o q) = ToSet(q) \cup {a} /\ ToSet(q \o one) = ToSet(q) \cup {a}
  BY <1>1, ElementsOfConcat
<1>4. NoRepeats(one \o q) <=> NoRepeats(one) /\ NoRepeats(q) /\ ToSet(one) \cap ToSet(q) = {}
  BY <1>1, NoRepeatsInConcat
<1>5. NoRepeats(q \o one) <=> NoRepeats(q) /\ NoRepeats(one) /\ ToSet(q) \cap ToSet(one) = {}
  BY <1>1, NoRepeatsInConcat
<1>6. one = <<a>>
  BY DEF one
<1> QED
  BY <1>1, <1>2, <1>3, <1>4, <1>5, <1>6

(* The queue falls into the batch and what it leaves. *)
LEMMA BatchThenRest ==
    ASSUME NEW q \in Seq(Actions)
    PROVE  Batch(q) \o Rest(q) = q
<1> DEFINE n == IF Len(q) < MaxBatchSize THEN Len(q) ELSE MaxBatchSize
<1>1. n \in 0..Len(q) /\ Len(q) \in Nat
  OBVIOUS
<1>2. Batch(q) = SubSeq(q, 1, n) /\ Len(Batch(q)) = n
  BY <1>1 DEF Batch
<1>3. Rest(q) = SubSeq(q, n + 1, Len(q))
  BY <1>2 DEF Rest
<1> HIDE DEF n
<1>4. /\ 1 \in 1..(Len(q) + 1) /\ n \in (1 - 1)..Len(q) /\ Len(q) \in n..Len(q)
  BY <1>1
<1>5. SubSeq(q, 1, n) \o SubSeq(q, n + 1, Len(q)) = SubSeq(q, 1, Len(q))
  BY <1>4, ConcatAdjacentSubSeq
<1> QED
  BY <1>2, <1>3, <1>5, SubSeqFull

(* A sequence falls into what is before a place, what is there, and the rest. *)
LEMMA AroundPlace ==
    ASSUME NEW S, NEW q \in Seq(S), NEW i \in DOMAIN q
    PROVE  /\ SubSeq(q, 1, i - 1) \in Seq(S) /\ SubSeq(q, i + 1, Len(q)) \in Seq(S)
           /\ q = SubSeq(q, 1, i - 1) \o (<<q[i]>> \o SubSeq(q, i + 1, Len(q)))
<1>1. i \in 1..Len(q) /\ Len(q) \in Nat /\ q[i] \in S
  OBVIOUS
<1>2. SubSeq(q, 1, i - 1) \in Seq(S)
  <2>1. 1 \in Int /\ i - 1 \in Int /\ \A j \in 1..(i - 1) : q[j] \in S
    BY <1>1
  <2> QED
    BY <2>1, SubSeqProperties
<1>3. SubSeq(q, i + 1, Len(q)) \in Seq(S)
  <2>1. i + 1 \in Int /\ Len(q) \in Int /\ \A j \in (i + 1)..Len(q) : q[j] \in S
    BY <1>1
  <2> QED
    BY <2>1, SubSeqProperties
<1>4. SubSeq(q, i, Len(q)) = <<q[i]>> \o SubSeq(q, i + 1, Len(q))
  <2>1. i \in 1..Len(q) /\ Len(q) \in i..Len(q)
    BY <1>1
  <2> QED
    BY <2>1, SubSeqRecursiveFirst
<1>5. SubSeq(q, 1, i - 1) \o SubSeq(q, i, Len(q)) = q
  <2>1. /\ 1 \in 1..(Len(q) + 1) /\ i - 1 \in (1 - 1)..Len(q) /\ Len(q) \in (i - 1)..Len(q)
        /\ (i - 1) + 1 = i
    BY <1>1
  <2>2. SubSeq(q, 1, i - 1) \o SubSeq(q, (i - 1) + 1, Len(q)) = SubSeq(q, 1, Len(q))
    BY <2>1, ConcatAdjacentSubSeq
  <2> QED
    BY <2>1, <2>2, SubSeqFull
<1> QED
  BY <1>2, <1>3, <1>4, <1>5

-----------------------------------------------------------------------------
(* Where an action waits: in the active batch or in the queue, once in both
   together, until it is settled. *)
Line == activeBatch \o queue

Placed ==
    /\ isFlushing \/ activeBatch = <<>>
    /\ NoRepeats(Line)
    /\ ToSet(Line) \subseteq ToSet(arrived)
    /\ \A a \in Actions :
          settled[a] = IF a \in ToSet(arrived) \ ToSet(Line) THEN 1 ELSE 0

LEMMA LineTypes ==
    ASSUME TypeOK
    PROVE  /\ activeBatch \in Seq(Actions) /\ queue \in Seq(Actions)
           /\ Line \in Seq(Actions) /\ ToSet(Line) \subseteq Actions
           /\ ToSet(Line) = ToSet(activeBatch) \cup ToSet(queue)
           /\ NoRepeats(Line) <=> /\ NoRepeats(activeBatch) /\ NoRepeats(queue)
                                 /\ ToSet(activeBatch) \cap ToSet(queue) = {}
<1>1. activeBatch \in Seq(Actions) /\ queue \in Seq(Actions)
  BY DEF TypeOK
<1>2. Line \in Seq(Actions)
  BY <1>1 DEF Line
<1>3. ToSet(Line) \subseteq Actions
  BY <1>2 DEF ToSet
<1> QED
  BY <1>1, <1>2, <1>3, ElementsOfConcat, NoRepeatsInConcat DEF Line

(* A flush turns the line that the active batch has left, with what is late
   behind it, into the new line. *)
LEMMA FlushLine ==
    ASSUME NEW q \in Seq(Actions), NEW late \in Seq(Actions), Flush(q, late)
    PROVE  Line' = q \o late /\ isFlushing'
<1>1. Batch(q) \in Seq(Actions) /\ Rest(q) \in Seq(Actions)
  BY BatchAndRest
<1>2. Batch(q) \o (Rest(q) \o late) = (Batch(q) \o Rest(q)) \o late
  BY <1>1, ConcatAssociative
<1> QED
  BY <1>2, BatchThenRest DEF Flush, Line

(* A step that leaves the line alone. *)
LEMMA LineStays ==
    ASSUME Placed, Line' = Line, arrived' = arrived, settled' = settled,
           isFlushing' \/ activeBatch' = <<>>
    PROVE  Placed'
  BY DEF Placed

(* A step that settles what leaves the line. *)
LEMMA LineShrinks ==
    ASSUME TypeOK, Placed, NEW gone, gone \subseteq ToSet(Line), SettleEach(gone),
           NoRepeats(Line'), ToSet(Line') = ToSet(Line) \ gone, arrived' = arrived,
           isFlushing' \/ activeBatch' = <<>>
    PROVE  Placed'
<1>1. ASSUME NEW a \in Actions
      PROVE  settled'[a] = IF a \in ToSet(arrived) \ ToSet(Line)' THEN 1 ELSE 0
  BY DEF Placed, SettleEach
<1> QED
  BY <1>1 DEF Placed

LEMMA FinishPlaced ==
    ASSUME TypeOK, Placed, FinishFlush
    PROVE  Placed'
<1>1. SettleEach(ToSet(activeBatch)) /\ arrived' = arrived
  BY DEF FinishFlush
<1>2. Line' = queue /\ (isFlushing' \/ activeBatch' = <<>>)
  <2>1. queue \in Seq(Actions) /\ <<>> \in Seq(Actions)
    BY DEF TypeOK
  <2>2. CASE pendingForceFlush /\ queue # <<>>
    BY <2>1, <2>2, FlushLine, ConcatEmptySeq DEF FinishFlush
  <2>3. CASE ~(pendingForceFlush /\ queue # <<>>)
    BY <2>1, <2>3, ConcatEmptySeq DEF FinishFlush, Line
  <2> QED
    BY <2>2, <2>3
<1>3. /\ ToSet(activeBatch) \subseteq ToSet(Line) /\ NoRepeats(queue)
      /\ ToSet(queue) = ToSet(Line) \ ToSet(activeBatch)
  BY LineTypes DEF Placed
<1> QED
  BY <1>1, <1>2, <1>3, LineShrinks

(* enqueue settles the action, or puts it somewhere into the line. *)
LEMMA EnqueueLine ==
    ASSUME TypeOK, isFlushing \/ activeBatch = <<>>, NEW a \in Actions, Enqueue(a)
    PROVE  \/ /\ isDestroyed \/ Len(queue) >= HardLimit
              /\ Line' = Line /\ SettleEach({a}) /\ UNCHANGED <<isFlushing, activeBatch>>
           \/ /\ \/ a \in High /\ Line' = activeBatch \o (<<a>> \o queue)
                 \/ a \notin High /\ Line' = activeBatch \o (queue \o <<a>>)
              /\ settled' = settled
              /\ isFlushing' \/ activeBatch' = <<>>
<1>1. /\ activeBatch \in Seq(Actions) /\ queue \in Seq(Actions) /\ <<a>> \in Seq(Actions)
      /\ <<>> \in Seq(Actions)
  BY DEF TypeOK
<1>2. CASE isDestroyed \/ Len(queue) >= HardLimit
  BY <1>2 DEF Enqueue, Line, batches, schedule
<1>3. CASE ~(isDestroyed \/ Len(queue) >= HardLimit)
  <2>1. settled' = settled
    BY <1>3 DEF Enqueue
  <2>2. ASSUME NEW q \in Seq(Actions), NEW late \in Seq(Actions), ForceFlush(q, late)
        PROVE  Line' = activeBatch \o (q \o late) /\ (isFlushing' \/ activeBatch' = <<>>)
    <3>1. CASE isFlushing
      BY <2>2, <3>1 DEF ForceFlush, Line, batches
    <3>2. CASE ~isFlushing
      BY <2>2, <3>2, FlushLine, ConcatEmptySeq DEF ForceFlush
    <3> QED
      BY <3>1, <3>2
  <2>3. CASE a \in High
    <3>1. ForceFlush(<<a>> \o queue, <<>>)
      BY <1>3, <2>3 DEF Enqueue
    <3>2. <<a>> \o queue \in Seq(Actions)
      BY <1>1
    <3>3. Line' = activeBatch \o ((<<a>> \o queue) \o <<>>) /\ (isFlushing' \/ activeBatch' = <<>>)
      BY <1>1, <2>2, <3>1, <3>2
    <3>4. \A q \in Seq(Actions) : q \o <<>> = q
      BY ConcatEmptySeq
    <3> QED
      BY <2>1, <2>3, <3>2, <3>3, <3>4
  <2>4. CASE a \notin High /\ Len(queue) >= MaxBatchSize
    BY <1>1, <1>3, <2>1, <2>2, <2>4 DEF Enqueue
  <2>5. CASE a \notin High /\ ~(Len(queue) >= MaxBatchSize)
    <3>1. queue' = Append(queue, a) /\ UNCHANGED <<activeBatch, isFlushing>>
      BY <1>3, <2>5 DEF Enqueue, batches
    <3>2. Append(queue, a) = queue \o <<a>>
      BY <1>1, AppendIsConcat
    <3> QED
      BY <2>1, <2>5, <3>1, <3>2 DEF Line
  <2> QED
    BY <2>3, <2>4, <2>5
<1> QED
  BY <1>2, <1>3

LEMMA EnqueuePlaced ==
    ASSUME TypeOK, Placed, NEW a \in Actions, Enqueue(a)
    PROVE  Placed'
<1>1. a \notin ToSet(arrived) /\ ToSet(arrived') = ToSet(arrived) \cup {a}
  <2>1. arrived \in Seq(Actions)
    BY DEF TypeOK
  <2> QED
    BY <2>1, OneMore DEF Enqueue
<1>2. CASE Line' = Line /\ SettleEach({a}) /\ UNCHANGED <<isFlushing, activeBatch>>
  <2>1. ASSUME NEW b \in Actions
        PROVE  settled'[b] = IF b \in ToSet(arrived)' \ ToSet(Line)' THEN 1 ELSE 0
    BY <1>1, <1>2 DEF Placed, SettleEach
  <2> QED
    BY <1>1, <1>2, <2>1 DEF Placed
<1>3. CASE /\ \/ Line' = activeBatch \o (<<a>> \o queue)
              \/ Line' = activeBatch \o (queue \o <<a>>)
           /\ settled' = settled
           /\ isFlushing' \/ activeBatch' = <<>>
  <2>2. /\ NoRepeats(activeBatch) /\ NoRepeats(queue)
        /\ ToSet(activeBatch) \cap ToSet(queue) = {}
        /\ ToSet(Line) = ToSet(activeBatch) \cup ToSet(queue)
        /\ a \notin ToSet(activeBatch) /\ a \notin ToSet(queue)
        /\ activeBatch \in Seq(Actions) /\ queue \in Seq(Actions)
    BY <1>1, LineTypes DEF Placed
  <2>3. PICK more \in Seq(Actions) :
          /\ Line' = activeBatch \o more
          /\ ToSet(more) = ToSet(queue) \cup {a} /\ NoRepeats(more)
    BY <1>3, <2>2, OneMore
  <2>6. ToSet(Line') = ToSet(Line) \cup {a}
    BY <2>2, <2>3, ElementsOfConcat
  <2>7. NoRepeats(Line')
    BY <2>2, <2>3, NoRepeatsInConcat
  <2>8. ASSUME NEW b \in Actions
        PROVE  settled'[b] = IF b \in ToSet(arrived)' \ ToSet(Line)' THEN 1 ELSE 0
    BY <1>1, <1>3, <2>6 DEF Placed
  <2> QED
    BY <1>1, <1>3, <2>6, <2>7, <2>8 DEF Placed
<1> QED
  BY <1>2, <1>3, EnqueueLine DEF Placed

LEMMA CancelPlaced ==
    ASSUME TypeOK, Placed, NEW a \in Actions, Cancel(a)
    PROVE  Placed'
<1>1. PICK i \in DOMAIN queue : queue[i] = a /\ queue' = RemoveAt(queue, i)
  BY DEF Cancel
<1> DEFINE front == SubSeq(queue, 1, i - 1)
           back == SubSeq(queue, i + 1, Len(queue))
<1>2. /\ front \in Seq(Actions) /\ back \in Seq(Actions)
      /\ queue = front \o (<<a>> \o back)
  BY <1>1, AroundPlace DEF TypeOK
<1>3. queue' = front \o back
  BY <1>1 DEF RemoveAt
<1> HIDE DEF front, back
<1>4. SettleEach({a}) /\ UNCHANGED <<activeBatch, isFlushing, arrived>>
  BY DEF Cancel, batches, schedule
<1>5. PICK rest \in Seq(Actions) :
        /\ queue = front \o rest /\ ToSet(rest) = ToSet(back) \cup {a}
        /\ NoRepeats(rest) => NoRepeats(back) /\ a \notin ToSet(back)
  BY <1>2, OneMore
<1>6. /\ NoRepeats(queue) /\ NoRepeats(activeBatch)
      /\ ToSet(activeBatch) \cap ToSet(queue) = {} /\ activeBatch \in Seq(Actions)
      /\ ToSet(Line) = ToSet(activeBatch) \cup ToSet(queue)
  BY LineTypes DEF Placed
<1>7. NoRepeats(front) /\ NoRepeats(rest) /\ ToSet(front) \cap ToSet(rest) = {}
  <2>1. NoRepeats(front \o rest)
    BY <1>5, <1>6
  <2> QED
    BY <1>2, <2>1, NoRepeatsInConcat
<1>9. /\ queue' \in Seq(Actions) /\ ToSet(queue') = ToSet(queue) \ {a} /\ a \in ToSet(queue)
      /\ NoRepeats(queue')
  <2>1. ToSet(queue') = ToSet(front) \cup ToSet(back) /\ queue' \in Seq(Actions)
    BY <1>2, <1>3, ElementsOfConcat
  <2>2. ToSet(queue) = ToSet(front) \cup ToSet(rest)
    <3>1. ToSet(front \o rest) = ToSet(front) \cup ToSet(rest)
      BY <1>2, ElementsOfConcat
    <3> QED
      BY <1>5, <3>1
  <2>3. NoRepeats(queue')
    BY <1>2, <1>3, <1>5, <1>7, NoRepeatsInConcat
  <2> QED
    BY <1>5, <1>7, <2>1, <2>2, <2>3
<1>10. Line' = activeBatch \o queue'
  BY <1>4 DEF Line
<1>11. ToSet(Line') = ToSet(Line) \ {a} /\ {a} \subseteq ToSet(Line)
  BY <1>6, <1>9, <1>10, ElementsOfConcat
<1>12. NoRepeats(Line')
  BY <1>6, <1>9, <1>10, NoRepeatsInConcat
<1>13. isFlushing' \/ activeBatch' = <<>>
  BY <1>4 DEF Placed
<1> QED
  BY <1>4, <1>11, <1>12, <1>13, LineShrinks

LEMMA InitPlaced == Init => Placed
<1> SUFFICES ASSUME Init PROVE Placed
  OBVIOUS
<1>1. Line = <<>>
  BY DEF Init, Line
<1> QED
  BY <1>1 DEF Init, Placed, NoRepeats, ToSet

LEMMA NextPlaced == TypeOK /\ NoStrandedQueue /\ Placed /\ [Next]_vars => Placed'
<1> SUFFICES ASSUME TypeOK, NoStrandedQueue, Placed, [Next]_vars PROVE Placed'
  OBVIOUS
<1>1. queue \in Seq(Actions) /\ <<>> \in Seq(Actions)
  BY DEF TypeOK
<1>2. ASSUME ~isFlushing, Flush(queue, <<>>), arrived' = arrived, settled' = settled
      PROVE  Placed'
  <2>1. Line' = queue /\ Line = queue /\ isFlushing'
    BY <1>1, <1>2, FlushLine, ConcatEmptySeq DEF Placed, Line
  <2> QED
    BY <1>2, <2>1, LineStays
<1>3. ASSUME NEW a \in Actions, Enqueue(a) PROVE Placed'
  BY <1>3, EnqueuePlaced
<1>4. ASSUME NEW a \in Actions, Cancel(a) PROVE Placed'
  BY <1>4, CancelPlaced
<1>5. CASE TimerFires
  <2>1. CASE queue = <<>> \/ isFlushing
    BY <1>5, <2>1, LineStays DEF TimerFires, Placed, Line, batches
  <2>2. CASE ~(queue = <<>> \/ isFlushing)
    BY <1>2, <1>5, <2>2 DEF TimerFires
  <2> QED
    BY <2>1, <2>2
<1>6. ASSUME NEW f \in Flushers, FlushWithResult(f) PROVE Placed'
  <2>1. arrived' = arrived /\ settled' = settled
    BY <1>6 DEF FlushWithResult
  <2>2. \/ UNCHANGED <<queue, activeBatch, isFlushing>>
        \/ ~isFlushing /\ Flush(queue, <<>>)
    BY <1>6 DEF FlushWithResult, batches, schedule
  <2>3. CASE UNCHANGED <<queue, activeBatch, isFlushing>>
    BY <2>1, <2>3, LineStays DEF Placed, Line
  <2> QED
    BY <1>2, <2>1, <2>2, <2>3
<1>7. ASSUME NEW id \in acks, AckArrives(id) PROVE Placed'
  <2>1. CASE id = pendingBatch
    BY <1>7, <2>1, FinishPlaced DEF AckArrives
  <2>2. CASE id # pendingBatch
    BY <1>7, <2>2, LineStays DEF AckArrives, Placed, Line, batches, schedule
  <2> QED
    BY <2>1, <2>2
<1>8. CASE BatchTimesOut
  BY <1>8, FinishPlaced DEF BatchTimesOut
<1>9. CASE Destroy
  <2>1. Line' = <<>>
    BY <1>9 DEF Destroy, Line
  <2>2. NoRepeats(Line') /\ ToSet(Line') = {}
    BY <2>1 DEF NoRepeats, ToSet
  <2>3. SettleEach(ToSet(Line))
    BY <1>9, LineTypes DEF Destroy, SettleEach
  <2>4. arrived' = arrived /\ activeBatch' = <<>>
    BY <1>9 DEF Destroy
  <2> QED
    BY <2>2, <2>3, <2>4, LineShrinks
<1>10. ASSUME NEW id \in handling, MainAnswers(id) PROVE Placed'
  BY <1>10, LineStays DEF MainAnswers, Placed, Line, batches, schedule
<1>11. CASE UNCHANGED vars
  BY <1>11, LineStays DEF vars, Placed, Line, batches, schedule
<1> QED
  BY <1>3, <1>4, <1>5, <1>6, <1>7, <1>8, <1>9, <1>10, <1>11 DEF Next

(* What occurs nowhere twice has at most one place. *)
LEMMA PlacesOfOne ==
    ASSUME NEW S, NEW q \in Seq(S), NoRepeats(q), NEW a
    PROVE  Cardinality({i \in DOMAIN q : q[i] = a}) = IF a \in ToSet(q) THEN 1 ELSE 0
<1>1. CASE a \in ToSet(q)
  <2>1. PICK i \in DOMAIN q : q[i] = a
    BY <1>1 DEF ToSet
  <2>2. {j \in DOMAIN q : q[j] = a} = {i}
    BY <2>1 DEF NoRepeats
  <2> QED
    BY <1>1, <2>2, FS_Singleton
<1>2. CASE a \notin ToSet(q)
  <2>1. {j \in DOMAIN q : q[j] = a} = {}
    BY <1>2 DEF ToSet
  <2> QED
    BY <1>2, <2>1, FS_EmptySet
<1> QED
  BY <1>1, <1>2

LEMMA PlacedSettles == TypeOK /\ Placed => SettledOnce
<1> SUFFICES ASSUME TypeOK, Placed, NEW a \in Actions
             PROVE  Cardinality({i \in DOMAIN queue : queue[i] = a})
                      + Cardinality({i \in DOMAIN activeBatch : activeBatch[i] = a})
                      + settled[a] = (IF a \in ToSet(arrived) THEN 1 ELSE 0)
  BY DEF SettledOnce
<1>1. /\ Cardinality({i \in DOMAIN queue : queue[i] = a})
           = IF a \in ToSet(queue) THEN 1 ELSE 0
      /\ Cardinality({i \in DOMAIN activeBatch : activeBatch[i] = a})
           = IF a \in ToSet(activeBatch) THEN 1 ELSE 0
  BY LineTypes, PlacesOfOne DEF Placed
<1>2. /\ ToSet(Line) = ToSet(activeBatch) \cup ToSet(queue)
      /\ ToSet(activeBatch) \cap ToSet(queue) = {} /\ ToSet(Line) \subseteq ToSet(arrived)
  BY LineTypes DEF Placed
<1>3. settled[a] = IF a \in ToSet(arrived) \ ToSet(Line) THEN 1 ELSE 0
  BY DEF Placed
<1> QED
  BY <1>1, <1>2, <1>3

-----------------------------------------------------------------------------
(* The order of sending.  Of two sets, one is ahead of the other if what is
   normal in it arrived earlier; in an ordered sequence, so is all that is
   normal. *)
Ahead(arrivals, P, Q) ==
    \A a \in P, b \in Q : {a, b} \cap High = {} => Place(arrivals, a) < Place(arrivals, b)

Ordered(arrivals, s) ==
    \A i, j \in DOMAIN s : i < j /\ {s[i], s[j]} \cap High = {}
                            => Place(arrivals, s[i]) < Place(arrivals, s[j])

(* A line of actions may follow the batches that have been sent. *)
Follows(arrivals, line) ==
    /\ NoRepeats(arrivals) /\ ToSet(line) \subseteq ToSet(arrivals)
    /\ Ordered(arrivals, line)
    /\ \A k \in DOMAIN sent :
          /\ ToSet(sent[k]) \subseteq ToSet(arrivals) /\ Ordered(arrivals, sent[k])
          /\ Ahead(arrivals, ToSet(sent[k]), ToSet(line))
    /\ \A k, l \in DOMAIN sent : k < l => Ahead(arrivals, ToSet(sent[k]), ToSet(sent[l]))

InOrder == Follows(arrived, queue)

LEMMA OrderedConcat ==
    ASSUME NEW arrivals, NEW p \in Seq(Actions), NEW q \in Seq(Actions)
    PROVE  Ordered(arrivals, p \o q)
             <=> /\ Ordered(arrivals, p) /\ Ordered(arrivals, q)
                 /\ Ahead(arrivals, ToSet(p), ToSet(q))
<1>1. /\ Len(p \o q) = Len(p) + Len(q) /\ p \o q \in Seq(Actions)
      /\ \A i \in 1..Len(p) : (p \o q)[i] = p[i]
      /\ \A i \in 1..Len(q) : (p \o q)[Len(p) + i] = q[i]
  BY ConcatProperties
<1>2. Len(p) \in Nat /\ Len(q) \in Nat
  OBVIOUS
<1>3. DOMAIN p = 1..Len(p) /\ DOMAIN q = 1..Len(q) /\ DOMAIN (p \o q) = 1..Len(p \o q)
  BY <1>1
<1>4. ASSUME NEW i \in 1..Len(q)
      PROVE  Len(p) + i \in 1..Len(p \o q) /\ (p \o q)[Len(p) + i] = q[i]
  BY <1>1, <1>2
<1>5. ASSUME NEW i \in 1..Len(p)
      PROVE  i \in 1..Len(p \o q) /\ (p \o q)[i] = p[i]
  BY <1>1, <1>2
<1>6. ASSUME NEW i \in 1..Len(p \o q), i > Len(p)
      PROVE  i - Len(p) \in 1..Len(q) /\ (p \o q)[i] = q[i - Len(p)]
  <2>1. i - Len(p) \in 1..Len(q) /\ i = Len(p) + (i - Len(p))
    BY <1>1, <1>2, <1>6
  <2> QED
    BY <1>1, <2>1
<1>7. ASSUME Ordered(arrivals, p \o q)
      PROVE  /\ Ordered(arrivals, p) /\ Ordered(arrivals, q)
             /\ Ahead(arrivals, ToSet(p), ToSet(q))
  <2>1. Ordered(arrivals, p)
    BY <1>3, <1>5, <1>7 DEF Ordered
  <2>2. ASSUME NEW i \in 1..Len(q), NEW j \in 1..Len(q), i < j, {q[i], q[j]} \cap High = {}
        PROVE  Place(arrivals, q[i]) < Place(arrivals, q[j])
    <3>1. Len(p) + i < Len(p) + j
      BY <1>2, <2>2
    <3> QED
      BY <1>3, <1>4, <1>7, <2>2, <3>1 DEF Ordered
  <2>3. ASSUME NEW i \in 1..Len(p), NEW j \in 1..Len(q), {p[i], q[j]} \cap High = {}
        PROVE  Place(arrivals, p[i]) < Place(arrivals, q[j])
    <3>1. i < Len(p) + j
      BY <1>2
    <3> QED
      BY <1>3, <1>4, <1>5, <1>7, <2>3, <3>1 DEF Ordered
  <2>4. Ahead(arrivals, ToSet(p), ToSet(q))
    BY <1>3, <2>3 DEF Ahead, ToSet
  <2> QED
    BY <1>3, <2>1, <2>2, <2>4 DEF Ordered
<1>8. ASSUME Ordered(arrivals, p), Ordered(arrivals, q), Ahead(arrivals, ToSet(p), ToSet(q)),
             NEW i \in 1..Len(p \o q), NEW j \in 1..Len(p \o q), i < j,
             {(p \o q)[i], (p \o q)[j]} \cap High = {}
      PROVE  Place(arrivals, (p \o q)[i]) < Place(arrivals, (p \o q)[j])
  <2>1. CASE j <= Len(p)
    <3>1. i \in 1..Len(p) /\ j \in 1..Len(p)
      BY <1>1, <1>2, <1>8, <2>1
    <3>2. (p \o q)[i] = p[i] /\ (p \o q)[j] = p[j]
      BY <1>1, <3>1
    <3> QED
      BY <1>3, <1>8, <3>1, <3>2 DEF Ordered
  <2>2. CASE i <= Len(p) /\ j > Len(p)
    <3>1. i \in 1..Len(p)
      BY <1>1, <1>2, <2>2
    <3>2. (p \o q)[i] = p[i] /\ j - Len(p) \in 1..Len(q) /\ (p \o q)[j] = q[j - Len(p)]
      BY <1>5, <1>6, <2>2, <3>1
    <3>3. (p \o q)[i] \in ToSet(p) /\ (p \o q)[j] \in ToSet(q)
      BY <1>3, <3>1, <3>2 DEF ToSet
    <3> QED
      BY <1>8, <3>3 DEF Ahead
  <2>3. CASE i > Len(p)
    <3>1. j > Len(p)
      BY <1>1, <1>2, <1>8, <2>3
    <3>2. /\ i - Len(p) \in 1..Len(q) /\ (p \o q)[i] = q[i - Len(p)]
          /\ j - Len(p) \in 1..Len(q) /\ (p \o q)[j] = q[j - Len(p)]
      BY <1>6, <2>3, <3>1
    <3>3. i - Len(p) < j - Len(p)
      BY <1>1, <1>2, <1>8
    <3> QED
      BY <1>3, <1>8, <3>2, <3>3 DEF Ordered
  <2> QED
    BY <1>1, <1>2, <2>1, <2>2, <2>3
<1> QED
  BY <1>3, <1>7, <1>8 DEF Ordered

(* What arrives last has the last place, and the places of the others stay. *)
LEMMA PlacesStay ==
    ASSUME NEW arrivals \in Seq(Actions), NoRepeats(arrivals),
           NEW a \in Actions, a \notin ToSet(arrivals)
    PROVE  /\ \A b \in ToSet(arrivals) :
                 /\ Place(Append(arrivals, a), b) = Place(arrivals, b)
                 /\ Place(arrivals, b) < Place(Append(arrivals, a), a)
           /\ NoRepeats(Append(arrivals, a))
           /\ ToSet(Append(arrivals, a)) = ToSet(arrivals) \cup {a}
<1> DEFINE more == Append(arrivals, a)
<1>1. /\ more \in Seq(Actions) /\ Len(more) = Len(arrivals) + 1
      /\ \A i \in 1..Len(arrivals) : more[i] = arrivals[i]
      /\ more[Len(arrivals) + 1] = a
  BY AppendProperties
<1>2. NoRepeats(more) /\ ToSet(more) = ToSet(arrivals) \cup {a}
  <2>1. /\ more = arrivals \o <<a>> /\ NoRepeats(arrivals \o <<a>>)
        /\ ToSet(arrivals \o <<a>>) = ToSet(arrivals) \cup {a}
    BY OneMore
  <2> QED
    BY <2>1
<1> HIDE DEF more
<1>3. /\ DOMAIN arrivals = 1..Len(arrivals) /\ DOMAIN more = 1..Len(more)
      /\ Len(arrivals) \in Nat
  BY <1>1
<1>4. ASSUME NEW b \in ToSet(arrivals)
      PROVE  Place(more, b) = Place(arrivals, b) /\ Place(arrivals, b) \in 1..Len(arrivals)
  <2>1. PICK i \in DOMAIN arrivals : arrivals[i] = b
    BY DEF ToSet
  <2>2. Place(arrivals, b) = i
    BY <2>1 DEF Place, NoRepeats
  <2>3. i \in DOMAIN more /\ more[i] = b
    BY <1>1, <1>3, <2>1
  <2>4. Place(more, b) = i
    BY <1>2, <2>3 DEF Place, NoRepeats
  <2> QED
    BY <1>3, <2>2, <2>4
<1>5. Place(more, a) = Len(arrivals) + 1
  <2>1. Len(arrivals) + 1 \in DOMAIN more
    BY <1>1, <1>3
  <2> QED
    BY <1>1, <1>2, <2>1 DEF Place, NoRepeats
<1>6. ASSUME NEW b \in ToSet(arrivals) PROVE Place(arrivals, b) < Place(more, a)
  BY <1>3, <1>4, <1>5
<1> QED
  BY <1>2, <1>4, <1>6 DEF more

(* An action that arrives may go behind the line, and, with a high priority,
   before it. *)
LEMMA ArrivalFollows ==
    ASSUME TypeOK, InOrder, NEW a \in Actions, a \notin ToSet(arrived),
           arrived' = Append(arrived, a)
    PROVE  /\ Follows(arrived', queue) /\ Follows(arrived', queue \o <<a>>)
           /\ a \in High => Follows(arrived', <<a>> \o queue)
<1>1. /\ arrived \in Seq(Actions) /\ queue \in Seq(Actions) /\ NoRepeats(arrived)
      /\ ToSet(queue) \subseteq ToSet(arrived)
      /\ \A k \in DOMAIN sent : ToSet(sent[k]) \subseteq ToSet(arrived)
  BY DEF TypeOK, InOrder, Follows
<1>2. /\ \A b \in ToSet(arrived) : /\ Place(arrived', b) = Place(arrived, b)
                                   /\ Place(arrived, b) < Place(arrived', a)
      /\ NoRepeats(arrived') /\ ToSet(arrived') = ToSet(arrived) \cup {a}
  BY <1>1, PlacesStay
<1>3. ASSUME NEW P, NEW Q, P \subseteq ToSet(arrived), Q \subseteq ToSet(arrived)
      PROVE  /\ Ahead(arrived, P, Q) => Ahead(arrived', P, Q)
             /\ Ahead(arrived', P, {a})
  <2>1. ASSUME NEW b \in P PROVE Place(arrived', b) < Place(arrived', a)
    BY <1>2, <1>3
  <2> QED
    BY <1>2, <1>3, <2>1 DEF Ahead
<1>4. ASSUME NEW s, Ordered(arrived, s), ToSet(s) \subseteq ToSet(arrived)
      PROVE  Ordered(arrived', s)
  BY <1>2, <1>4 DEF Ordered, ToSet
<1>5. Follows(arrived', queue)
  BY <1>1, <1>2, <1>3, <1>4 DEF InOrder, Follows
<1> DEFINE one == <<a>>
<1>6. one \in Seq(Actions) /\ ToSet(one) = {a} /\ Ordered(arrived', one)
  BY DEF ToSet, Ordered
<1>7. /\ ToSet(queue \o one) = ToSet(queue) \cup {a}
      /\ ToSet(one \o queue) = ToSet(queue) \cup {a}
  BY <1>1, OneMore
<1> HIDE DEF one
<1>8. Ordered(arrived', queue \o one)
  BY <1>1, <1>3, <1>5, <1>6, OrderedConcat DEF Follows
<1>9. ASSUME NEW k \in DOMAIN sent
      PROVE  Ahead(arrived', ToSet(sent[k]), ToSet(queue) \cup {a})
  <2>1. Ahead(arrived', ToSet(sent[k]), {a})
    BY <1>1, <1>3
  <2> QED
    BY <1>5, <2>1 DEF Follows, Ahead
<1>10. Follows(arrived', queue \o one)
  BY <1>1, <1>2, <1>5, <1>7, <1>8, <1>9 DEF Follows
<1>11. ASSUME a \in High PROVE Follows(arrived', one \o queue)
  <2>1. Ahead(arrived', ToSet(one), ToSet(queue))
    BY <1>6, <1>11 DEF Ahead
  <2>2. Ordered(arrived', one \o queue)
    BY <1>1, <1>5, <1>6, <2>1, OrderedConcat DEF Follows
  <2> QED
    BY <1>1, <1>2, <1>5, <1>7, <1>9, <2>2 DEF Follows
<1> QED
  BY <1>5, <1>10, <1>11 DEF one

(* A step that sends nothing, and one that sends the head of the line. *)
LEMMA QueuedInOrder ==
    ASSUME Follows(arrived', queue'), sent' = sent
    PROVE  InOrder'
  BY DEF InOrder, Follows

LEMMA FlushInOrder ==
    ASSUME TypeOK, NEW q \in Seq(Actions), NEW late \in Seq(Actions), Flush(q, late),
           Follows(arrived', q \o late)
    PROVE  InOrder'
<1>1. /\ Batch(q) \in Seq(Actions) /\ Rest(q) \in Seq(Actions)
      /\ Rest(q) \o late \in Seq(Actions)
  BY BatchAndRest
<1>2. queue' = Rest(q) \o late /\ sent' = Append(sent, Batch(q))
  BY DEF Flush
<1> DEFINE line == q \o late
<1>3. Batch(q) \o queue' = line
  <2>1. Batch(q) \o (Rest(q) \o late) = (Batch(q) \o Rest(q)) \o late
    BY <1>1, ConcatAssociative
  <2> QED
    BY <1>2, <2>1, BatchThenRest
<1>4. /\ DOMAIN sent = 1..Len(sent) /\ Len(sent) \in Nat
      /\ DOMAIN sent' = 1..(Len(sent) + 1)
      /\ \A k \in DOMAIN sent : sent'[k] = sent[k]
      /\ sent'[Len(sent) + 1] = Batch(q)
  BY <1>1, <1>2, AppendProperties DEF TypeOK
<1>5. Follows(arrived', line)
  OBVIOUS
<1> HIDE DEF line
<1>6. queue' \in Seq(Actions)
  BY <1>1, <1>2
<1>7. ToSet(line) = ToSet(Batch(q)) \cup ToSet(queue')
  <2>1. ToSet(Batch(q) \o queue') = ToSet(Batch(q)) \cup ToSet(queue')
    BY <1>1, <1>6, ElementsOfConcat
  <2> QED
    BY <1>3, <2>1
<1>8. /\ Ordered(arrived', Batch(q)) /\ Ordered(arrived', queue')
      /\ Ahead(arrived', ToSet(Batch(q)), ToSet(queue'))
  <2>1. Ordered(arrived', Batch(q) \o queue')
    BY <1>3, <1>5 DEF Follows
  <2> QED
    BY <1>1, <1>6, <2>1, OrderedConcat
<1>9. ASSUME NEW k \in DOMAIN sent'
      PROVE  \/ k \in DOMAIN sent /\ sent'[k] = sent[k]
             \/ k = Len(sent) + 1 /\ sent'[k] = Batch(q)
  BY <1>4
<1>10. ASSUME NEW k \in DOMAIN sent'
       PROVE  /\ ToSet(sent'[k]) \subseteq ToSet(arrived') /\ Ordered(arrived', sent'[k])
              /\ Ahead(arrived', ToSet(sent'[k]), ToSet(queue'))
  BY <1>5, <1>7, <1>8, <1>9 DEF Follows, Ahead
<1>11. ASSUME NEW k \in DOMAIN sent', NEW l \in DOMAIN sent', k < l
       PROVE  Ahead(arrived', ToSet(sent'[k]), ToSet(sent'[l]))
  <2>1. k \in DOMAIN sent /\ sent'[k] = sent[k]
    BY <1>4, <1>11
  <2> QED
    BY <1>5, <1>7, <1>9, <1>11, <2>1 DEF Follows, Ahead
<1> QED
  BY <1>5, <1>7, <1>8, <1>10, <1>11 DEF InOrder, Follows

LEMMA EnqueueInOrder ==
    ASSUME TypeOK, InOrder, NEW a \in Actions, Enqueue(a)
    PROVE  InOrder'
<1>1. queue \in Seq(Actions) /\ <<>> \in Seq(Actions) /\ <<a>> \in Seq(Actions)
  BY DEF TypeOK
<1>2. /\ Follows(arrived', queue) /\ Follows(arrived', queue \o <<a>>)
      /\ a \in High => Follows(arrived', <<a>> \o queue)
  BY ArrivalFollows DEF Enqueue
<1>3. ASSUME NEW q \in Seq(Actions), NEW late \in Seq(Actions), ForceFlush(q, late),
             Follows(arrived', q \o late)
      PROVE  InOrder'
  BY <1>3, FlushInOrder, QueuedInOrder DEF ForceFlush, batches
<1>4. CASE isDestroyed \/ Len(queue) >= HardLimit
  BY <1>2, <1>4, QueuedInOrder DEF Enqueue, batches
<1>5. CASE ~(isDestroyed \/ Len(queue) >= HardLimit)
  <2>1. CASE a \in High
    <3>1. ForceFlush(<<a>> \o queue, <<>>)
      BY <1>5, <2>1 DEF Enqueue
    <3>2. <<a>> \o queue \in Seq(Actions) /\ (<<a>> \o queue) \o <<>> = <<a>> \o queue
      BY <1>1, OneMore, ConcatEmptySeq
    <3> QED
      BY <1>1, <1>2, <1>3, <2>1, <3>1, <3>2
  <2>2. CASE a \notin High /\ Len(queue) >= MaxBatchSize
    BY <1>1, <1>2, <1>3, <1>5, <2>2 DEF Enqueue
  <2>3. CASE a \notin High /\ ~(Len(queue) >= MaxBatchSize)
    <3>1. queue' = queue \o <<a>> /\ sent' = sent
      BY <1>1, <1>5, <2>3, OneMore DEF Enqueue, batches
    <3> QED
      BY <1>2, <3>1, QueuedInOrder
  <2> QED
    BY <2>1, <2>2, <2>3
<1> QED
  BY <1>4, <1>5

(* Cancelling takes one action out of the line. *)
LEMMA CancelInOrder ==
    ASSUME TypeOK, InOrder, NEW a \in Actions, Cancel(a)
    PROVE  InOrder'
<1>1. PICK i \in DOMAIN queue : queue[i] = a /\ queue' = RemoveAt(queue, i)
  BY DEF Cancel
<1> DEFINE front == SubSeq(queue, 1, i - 1)
           back == SubSeq(queue, i + 1, Len(queue))
<1>2. /\ front \in Seq(Actions) /\ back \in Seq(Actions)
      /\ queue = front \o (<<a>> \o back)
  BY <1>1, AroundPlace DEF TypeOK
<1>3. queue' = front \o back
  BY <1>1 DEF RemoveAt
<1> HIDE DEF front, back
<1> DEFINE one == <<a>>
<1>4. /\ one \in Seq(Actions) /\ queue = front \o (one \o back)
      /\ front \in Seq(Actions) /\ back \in Seq(Actions)
  BY <1>2
<1> HIDE DEF one
<1>5. one \o back \in Seq(Actions)
  BY <1>4
<1>6. /\ Ordered(arrived, front) /\ Ordered(arrived, one \o back)
      /\ Ahead(arrived, ToSet(front), ToSet(one \o back))
  <2>1. Ordered(arrived, front \o (one \o back))
    BY <1>4 DEF InOrder, Follows
  <2> QED
    BY <1>4, <1>5, <2>1, OrderedConcat
<1>7. Ordered(arrived, back) /\ ToSet(one \o back) = ToSet(one) \cup ToSet(back)
  <2>1. one \in Seq(Actions) /\ back \in Seq(Actions)
    BY <1>4
  <2>2. ToSet(one \o back) = ToSet(one) \cup ToSet(back)
    BY <2>1, ElementsOfConcat
  <2> QED
    BY <1>6, <2>1, <2>2, OrderedConcat
<1>8. Ordered(arrived, front \o back)
  BY <1>4, <1>6, <1>7, OrderedConcat DEF Ahead
<1>9. ToSet(front \o back) \subseteq ToSet(queue)
  <2>1. ToSet(front \o (one \o back)) = ToSet(front) \cup ToSet(one \o back)
    <3>1. \A p, q \in Seq(Actions) : ToSet(p \o q) = ToSet(p) \cup ToSet(q)
      BY ElementsOfConcat
    <3> QED
      BY <1>4, <1>5, <3>1
  <2>2. ToSet(front \o back) = ToSet(front) \cup ToSet(back)
    BY <1>4, ElementsOfConcat
  <2> QED
    BY <1>4, <1>7, <2>1, <2>2
<1>10. arrived' = arrived /\ sent' = sent
  BY DEF Cancel, batches
<1>11. Follows(arrived', queue')
  BY <1>3, <1>8, <1>9, <1>10 DEF InOrder, Follows, Ahead
<1> QED
  BY <1>10, <1>11, QueuedInOrder

LEMMA InitInOrder == Init => InOrder
  BY DEF Init, InOrder, Follows, NoRepeats, ToSet, Ordered

LEMMA NextInOrder == TypeOK /\ InOrder /\ [Next]_vars => InOrder'
<1> SUFFICES ASSUME TypeOK, InOrder, [Next]_vars PROVE InOrder'
  OBVIOUS
<1>1. queue \in Seq(Actions) /\ <<>> \in Seq(Actions) /\ queue \o <<>> = queue
  BY ConcatEmptySeq DEF TypeOK
<1>2. ASSUME Flush(queue, <<>>), arrived' = arrived PROVE InOrder'
  BY <1>1, <1>2, FlushInOrder DEF InOrder
<1>3. ASSUME UNCHANGED <<queue, sent, arrived>> PROVE InOrder'
  BY <1>3, QueuedInOrder DEF InOrder
<1>4. ASSUME FinishFlush PROVE InOrder'
  <2>1. arrived' = arrived
    BY <1>4 DEF FinishFlush
  <2> QED
    BY <1>2, <1>3, <1>4, <2>1 DEF FinishFlush
<1>5. ASSUME NEW a \in Actions, Enqueue(a) PROVE InOrder'
  BY <1>5, EnqueueInOrder
<1>6. ASSUME NEW a \in Actions, Cancel(a) PROVE InOrder'
  BY <1>6, CancelInOrder
<1>7. CASE TimerFires
  BY <1>2, <1>3, <1>7 DEF TimerFires, batches
<1>8. ASSUME NEW f \in Flushers, FlushWithResult(f) PROVE InOrder'
  BY <1>2, <1>3, <1>8 DEF FlushWithResult, batches
<1>9. ASSUME NEW id \in acks, AckArrives(id) PROVE InOrder'
  BY <1>3, <1>4, <1>9 DEF AckArrives, batches
<1>10. CASE BatchTimesOut
  BY <1>4, <1>10 DEF BatchTimesOut
<1>11. CASE Destroy
  <2>1. queue' = <<>> /\ arrived' = arrived /\ sent' = sent
    BY <1>11 DEF Destroy
  <2>2. DOMAIN queue' = {} /\ ToSet(queue') = {}
    BY <2>1 DEF ToSet
  <2>3. Ordered(arrived', queue') /\ \A P : Ahead(arrived', P, ToSet(queue'))
    BY <2>2 DEF Ordered, Ahead
  <2>4. Follows(arrived', queue')
    BY <2>1, <2>2, <2>3 DEF InOrder, Follows
  <2> QED
    BY <2>1, <2>4, QueuedInOrder
<1>12. ASSUME NEW id \in handling, MainAnswers(id) PROVE InOrder'
  BY <1>3, <1>12 DEF MainAnswers, batches
<1>13. CASE UNCHANGED vars
  BY <1>3, <1>13 DEF vars, batches
<1> QED
  BY <1>5, <1>6, <1>7, <1>8, <1>9, <1>10, <1>11, <1>12, <1>13 DEF Next

LEMMA InOrderSends == TypeOK /\ InOrder => SentInOrder
<1> SUFFICES ASSUME TypeOK, InOrder PROVE SentInOrder
  OBVIOUS
<1> DEFINE rows == Append(sent, queue)
<1>1. /\ DOMAIN sent = 1..Len(sent) /\ Len(sent) \in Nat
      /\ DOMAIN rows = 1..(Len(sent) + 1)
      /\ \A k \in DOMAIN sent : rows[k] = sent[k]
      /\ rows[Len(sent) + 1] = queue
  BY AppendProperties DEF TypeOK
<1> HIDE DEF rows
<1>2. ASSUME NEW k \in DOMAIN rows
      PROVE  \/ k \in DOMAIN sent /\ rows[k] = sent[k]
             \/ k = Len(sent) + 1 /\ rows[k] = queue
  BY <1>1
<1>3. ASSUME NEW k \in DOMAIN rows, NEW l \in DOMAIN rows, k < l
      PROVE  Ahead(arrived, ToSet(rows[k]), ToSet(rows[l]))
  <2>1. k \in DOMAIN sent /\ rows[k] = sent[k]
    BY <1>1, <1>3
  <2> QED
    BY <1>2, <1>3, <2>1 DEF InOrder, Follows
<1>4. ASSUME NEW k \in DOMAIN rows PROVE Ordered(arrived, rows[k])
  BY <1>2 DEF InOrder, Follows
<1>5. ASSUME NEW k \in DOMAIN rows, NEW l \in DOMAIN rows,
             NEW i \in DOMAIN rows[k], NEW j \in DOMAIN rows[l], k < l \/ (k = l /\ i < j)
      PROVE  Precedes(rows[k][i], rows[l][j])
  <2>1. CASE k < l
    BY <1>3, <2>1 DEF Ahead, ToSet, Precedes
  <2>2. CASE k = l /\ i < j
    BY <1>4, <2>2 DEF Ordered, Precedes
  <2> QED
    BY <1>5, <2>1, <2>2
<1> QED
  BY <1>5 DEF SentInOrder, rows

-----------------------------------------------------------------------------
(* The strengthened invariant holds in every behaviour, fair or not. *)
THEOREM BatcherInvariant == Spec => []IInv
  BY InitInvariant, NextInvariant, PTL DEF Spec

(* The queue never exceeds the hard limit, nor a batch its size: whatever is
   put at the head or the tail of the queue while a flush is in progress. *)
THEOREM BatcherTypeOK == Spec => []TypeOK
<1>1. IInv => TypeOK
  BY DEF IInv
<1> QED
  BY <1>1, BatcherInvariant, PTL

(* Actions that wait are always about to be flushed, by the timer or by the
   end of a flush in progress, and there is one flush at a time. *)
THEOREM BatcherNeverStrands == Spec => []NoStrandedQueue
<1>1. IInv => NoStrandedQueue
  BY DEF IInv
<1> QED
  BY <1>1, BatcherInvariant, PTL

(* A caller of flushWithResult waits only for a flush that will answer it. *)
THEOREM BatcherServesWaiters == Spec => []WaitersAreServed
<1>1. IInv => WaitersAreServed
  BY DEF IInv
<1> QED
  BY <1>1, BatcherInvariant, PTL

(* Each action has one place, in the queue or in the active batch, until it is
   settled, and is settled once. *)
THEOREM BatcherSettlesOnce == Spec => []SettledOnce
<1>1. IInv => TypeOK /\ NoStrandedQueue
  BY DEF IInv
<1> QED
  BY <1>1, BatcherInvariant, InitPlaced, NextPlaced, PlacedSettles, PTL DEF Spec

(* Normal actions leave in the order they came in, over all batches. *)
THEOREM BatcherSendsInOrder == Spec => []SentInOrder
<1>1. IInv => TypeOK
  BY DEF IInv
<1> QED
  BY <1>1, BatcherInvariant, InitInOrder, NextInOrder, InOrderSends, PTL DEF Spec
=============================================================================
