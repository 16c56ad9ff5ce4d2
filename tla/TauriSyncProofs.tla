-------------------------- MODULE TauriSyncProofs ---------------------------
(***************************************************************************)
(* For any webviews, any keys and any bounds: the copy of a webview agrees *)
(* with the store on its keys when nothing is on its way to it, a webview  *)
(* asks for the whole state only after an emission has failed, and the     *)
(* registries of the plugin hold nothing that no event will remove.        *)
(*                                                                         *)
(* What the argument turns on is how far the broadcast under way is with a *)
(* webview.  Up to its turn, the events on their way to it lead to its     *)
(* baseline; from its turn on they lead to the store, first with the one   *)
(* that is computed and then with the one that is sent.                    *)
(***************************************************************************)
EXTENDS TauriSync, SequenceTheorems, TLAPS

-----------------------------------------------------------------------------
(* What updates say *)

(* What an update says of a key, compared with a state t: the value of t, or
   nothing. *)
Tells(u, t, k) ==
    IF u.kind = "full" THEN ~Differ(u.state, t, k)
    ELSE \/ k \in u.state.removed /\ k \notin DOMAIN t
         \/ /\ k \notin u.state.removed /\ k \in DOMAIN u.state.changed
            /\ ~Differ(u.state.changed, t, k)

Silent(u, k) ==
    /\ u.kind = "delta"
    /\ k \notin u.state.removed /\ k \notin DOMAIN u.state.changed

(* Events that say something else than t are followed by one that says t. *)
Corrected(es, t, k) ==
    \A i \in DOMAIN es :
        \/ Tells(es[i].update, t, k) \/ Silent(es[i].update, k)
        \/ \E n \in DOMAIN es : i < n /\ Tells(es[n].update, t, k)

(* A copy has the value of t, or an event that is younger will tell it. *)
Will(es, age, c, t, k) ==
    \/ ~Differ(c, t, k)
    \/ \E n \in DOMAIN es : age < es[n].age /\ Tells(es[n].update, t, k)

-----------------------------------------------------------------------------
(* The inductive invariant *)

(* How far the broadcast under way is with a webview. *)
HasTurn(l) == Locked /\ broadcast.now # None /\ broadcast.now.label = l
Stage(l) ==
    IF HasTurn(l) THEN broadcast.now.stage
    ELSE IF Locked /\ l \in broadcast.todo THEN "awaits" ELSE "done"
Fresh(l) == Locked /\ l \in broadcast.fresh \cap broadcast.todo

Event == broadcast.now.event
EventsOf(l) == IF Stage(l) = "emit" THEN Append(events[l], Event) ELSE events[l]

(* The events have brought, or will bring, what the store is now; those that
   are on their way, and the one whose turn it is. *)
Told(l) ==
    \/ Stage(l) \in {"emit", "record", "note"}
    \/ Stage(l) = "done" /\ l \notin owed

(* Nothing was sent that the baseline does not include. *)
Recorded(l) == baseline[l] # None /\ Stage(l) \in {"awaits", "emit", "done"}

(* Whose content follows the store: an answer that is awaited, or the copy. *)
Follower(l) ==
    \/ answer[l] # None
    \/ phase[l] = "live" /\ resync[l] = "idle"
Content(l) == IF answer[l] # None THEN answer[l].state ELSE copy[l]
AgeOf(l) == IF answer[l] # None THEN answer[l].age ELSE 0

ClientAt(l) ==
    /\ phase[l] # "none" => l \in open
    /\ ~Listening(l) => events[l] = <<>> /\ lastSeq[l] = 0 /\ resync[l] = "idle"
    /\ answer[l] # None
          <=> (phase[l] \in {"answered", "attaching"} \/ resync[l] = "answered")
    /\ phase[l] = "attaching" => copy[l] = answer[l].state
    /\ phase[l] = "closing" => resync[l] # "idle"
    /\ \A i \in DOMAIN events[l] : events[l][i].age \in 1..Age

TurnInv ==
    Locked =>
        /\ broadcast.state = store
        /\ broadcast.todo # {}
        /\ Age > 0
        /\ broadcast.now # None =>
              /\ broadcast.now.label \in broadcast.todo
              /\ Event.age = Age
              /\ broadcast.now.label \in open =>
                    broadcast.now.scoped = View(broadcast.now.label, store)
              /\ broadcast.now.stage = "note" => broadcast.now.label \notin owed

AnswerAt(l) ==
    answer[l] # None =>
        /\ answer[l].age <= Age
        /\ answer[l].age = Age => \A k \in KeysOf(l) : ~Differ(answer[l].state, store, k)

BaselineAt(l) ==
    l \in open /\ baseline[l] # None /\ Stage(l) \in {"note", "done"} /\ l \notin owed
        => baseline[l] = View(l, store)

EventsAt(l) ==
    l \in open =>
        \A k \in KeysOf(l) :
            /\ Told(l) => Corrected(EventsOf(l), store, k)
            /\ Recorded(l) => Corrected(events[l], baseline[l], k)

FollowAt(l) ==
    l \in open /\ l \notin missed /\ Follower(l) =>
        \A k \in KeysOf(l) :
            /\ Told(l) => Will(EventsOf(l), AgeOf(l), Content(l), store, k)
            /\ Recorded(l) =>
                  \/ Will(events[l], AgeOf(l), Content(l), baseline[l], k)
                  \/ Stage(l) = "done" /\ l \notin owed
                  \/ Fresh(l) /\ Differ(baseline[l], store, k)

Unsent(l) == IF Stage(l) = "emit" THEN 1 ELSE 0

SequenceAt(l) ==
    failures = 0 =>
        /\ resync[l] = "idle"
        /\ l \in open =>
              /\ \A i \in DOMAIN events[l] :
                    events[l][i].seq + (Len(events[l]) - i) + Unsent(l) = seqs[l]
              /\ lastSeq[l] # 0 => lastSeq[l] + Len(events[l]) + Unsent(l) = seqs[l]
              /\ Stage(l) = "emit" => Event.seq = seqs[l]

Ids(l) == {events[l][i].id : i \in DOMAIN events[l]}
Accounted(l) == excused \cup Ids(l) \cup acks[l]

PendingAt(l) ==
    /\ resync[l] # "asked" => pending[l] \subseteq Accounted(l)
    /\ Stage(l) \in {"record", "note"} => Event.id \in Accounted(l)
    /\ Locked /\ broadcast.now # None => Event.id \notin pending[l]

(* Update ids have been handed out. *)
IdsInv ==
    /\ \A l \in Labels : Ids(l) \subseteq 1..updates
    /\ Locked /\ broadcast.now # None => Event.id \in 1..updates

ForgottenAt(l) ==
    l \notin open /\ l \notin missed =>
        subs[l] = {} /\ baseline[l] = None /\ pending[l] = {} /\ seqs[l] = 0

ClientInv == \A l \in Labels : ClientAt(l)
AnswerInv == \A l \in Labels : AnswerAt(l)
BaselineInv == \A l \in Labels : BaselineAt(l)
EventsInv == \A l \in Labels : EventsAt(l)
FollowInv == \A l \in Labels : FollowAt(l)
SequenceInv == \A l \in Labels : SequenceAt(l)
PendingInv == \A l \in Labels : PendingAt(l)
ForgottenInv == \A l \in Labels : ForgottenAt(l)
IInv ==
    /\ TypeOK /\ IdsInv /\ TurnInv /\ ClientInv /\ AnswerInv
    /\ BaselineInv /\ EventsInv /\ FollowInv
    /\ SequenceInv /\ PendingInv /\ ForgottenInv

-----------------------------------------------------------------------------
(* Lemmas about states, updates and sequences of events *)

(* What is picked agrees with the state it is picked from. *)
LEMMA PickAgrees ==
    ASSUME NEW t, NEW keys, NEW k \in keys
    PROVE  ~Differ(Pick(t, keys), t, k)
BY DEF Differ, Pick

(* States that agree with a third agree. *)
LEMMA AgreeTrans ==
    ASSUME NEW s, NEW t, NEW u, NEW k, ~Differ(s, t, k)
    PROVE  /\ Differ(s, u, k) <=> Differ(t, u, k)
           /\ Differ(u, s, k) <=> Differ(u, t, k)
           /\ ~Differ(t, s, k) /\ ~Differ(s, s, k)
BY DEF Differ

(* What an update says of a key depends on the value of the key alone. *)
LEMMA TellsSame ==
    ASSUME NEW u, NEW s, NEW t, NEW k, ~Differ(s, t, k)
    PROVE  Tells(u, s, k) <=> Tells(u, t, k)
<1>1. k \in DOMAIN s <=> k \in DOMAIN t
  BY DEF Differ
<1>2. \A c : Differ(c, s, k) <=> Differ(c, t, k)
  BY AgreeTrans
<1> QED BY <1>1, <1>2 DEF Tells

LEMMA SameContent ==
    ASSUME NEW es, NEW s, NEW t, NEW k, ~Differ(s, t, k)
    PROVE  /\ Corrected(es, s, k) <=> Corrected(es, t, k)
           /\ \A age, c : Will(es, age, c, s, k) <=> Will(es, age, c, t, k)
<1>1. \A u : Tells(u, s, k) <=> Tells(u, t, k)
  BY TellsSame
<1>2. \A c : Differ(c, s, k) <=> Differ(c, t, k)
  BY AgreeTrans
<1>3. Corrected(es, s, k) <=> Corrected(es, t, k)
  BY <1>1 DEF Corrected
<1>4. \A age, c : Will(es, age, c, s, k) <=> Will(es, age, c, t, k)
  BY <1>1, <1>2 DEF Will
<1> QED BY <1>3, <1>4

(* The update that is computed says what changed, and only that. *)
LEMMA DeltaTells ==
    ASSUME NEW b, NEW s, NEW keys, NEW k \in keys
    PROVE  LET u == [kind |-> "delta", state |-> Delta(b, s, keys)]
           IN  IF Differ(b, s, k) THEN Tells(u, s, k) ELSE Silent(u, k)
<1> DEFINE u == [kind |-> "delta", state |-> Delta(b, s, keys)]
<1>1. /\ DOMAIN u.state.changed = {j \in keys \cap DOMAIN s : Differ(b, s, j)}
      /\ u.state.removed = (keys \cap DOMAIN b) \ DOMAIN s
      /\ \A j \in DOMAIN u.state.changed : u.state.changed[j] = s[j]
      /\ u.kind = "delta"
  BY DEF Delta, Pick
<1> HIDE DEF u
<1>2. CASE Differ(b, s, k) /\ k \in DOMAIN s
  <2>1. k \in DOMAIN u.state.changed /\ k \notin u.state.removed
        /\ u.state.changed[k] = s[k]
    BY <1>1, <1>2
  <2>2. ~Differ(u.state.changed, s, k)
    BY <1>2, <2>1 DEF Differ
  <2>3. Tells(u, s, k)
    BY <1>1, <2>1, <2>2 DEF Tells
  <2> QED BY <1>2, <2>3 DEF u
<1>3. CASE Differ(b, s, k) /\ k \notin DOMAIN s
  <2>1. k \in u.state.removed
    BY <1>1, <1>3 DEF Differ
  <2>2. Tells(u, s, k)
    BY <1>1, <1>3, <2>1 DEF Tells
  <2> QED BY <1>3, <2>2 DEF u
<1>4. CASE ~Differ(b, s, k)
  <2>1. k \notin DOMAIN u.state.changed /\ k \notin u.state.removed
    BY <1>1, <1>4 DEF Differ
  <2>2. Silent(u, k)
    BY <1>1, <2>1 DEF Silent
  <2> QED BY <1>4, <2>2 DEF u
<1> QED BY <1>2, <1>3, <1>4

(* A delta without content is for states that are equal. *)
LEMMA UnchangedIsEqual ==
    ASSUME NEW b \in States, NEW s \in States, IsEmpty(Delta(b, s, Keys))
    PROVE  b = s
<1>1. DOMAIN b \subseteq Keys /\ DOMAIN s \subseteq Keys
  BY DEF States
<1>2. b = [k \in DOMAIN b |-> b[k]] /\ s = [k \in DOMAIN s |-> s[k]]
  BY DEF States
<1>3. /\ {j \in Keys \cap DOMAIN s : Differ(b, s, j)} = {}
      /\ (Keys \cap DOMAIN b) \ DOMAIN s = {}
  BY DEF IsEmpty, Delta, Pick
<1>4. DOMAIN b = DOMAIN s
  BY <1>1, <1>3 DEF Differ
<1>5. \A k \in DOMAIN s : b[k] = s[k]
  BY <1>1, <1>3, <1>4 DEF Differ
<1> QED BY <1>2, <1>4, <1>5

(* What is applied has the value the event says, or is left alone. *)
LEMMA MergedContent ==
    ASSUME NEW c, NEW u, NEW t, NEW k
    PROVE  /\ Tells(u, t, k) => ~Differ(Merged(c, u), t, k)
           /\ Silent(u, k) => (Differ(Merged(c, u), t, k) <=> Differ(c, t, k))
<1>1. CASE u.kind = "full"
  BY <1>1 DEF Merged, Tells, Silent
<1>2. CASE u.kind # "full"
  <2> DEFINE d == u.state
             m == Merge(c, d)
  <2>1. /\ DOMAIN m = (DOMAIN c \cup DOMAIN d.changed) \ d.removed
        /\ \A j \in DOMAIN m :
              m[j] = IF j \in DOMAIN d.changed THEN d.changed[j] ELSE c[j]
    BY DEF Merge
  <2>2. Merged(c, u) = m
    BY <1>2 DEF Merged
  <2> HIDE DEF m
  <2>3. Tells(u, t, k) => ~Differ(m, t, k)
    BY <1>2, <2>1 DEF Tells, Differ
  <2>4. Silent(u, k) => (Differ(m, t, k) <=> Differ(c, t, k))
    BY <2>1 DEF Silent, Differ
  <2> QED BY <2>2, <2>3, <2>4
<1> QED BY <1>1, <1>2

LEMMA AppendFacts ==
    ASSUME NEW es \in Seq(Events), NEW e \in Events
    PROVE  /\ Append(es, e) \in Seq(Events)
           /\ Len(es) \in Nat /\ DOMAIN es = 1..Len(es)
           /\ DOMAIN Append(es, e) = 1..(Len(es) + 1)
           /\ \A i \in 1..Len(es) : Append(es, e)[i] = es[i]
           /\ Append(es, e)[Len(es) + 1] = e
BY AppendProperties

LEMMA TailFacts ==
    ASSUME NEW es \in Seq(Events), es # <<>>
    PROVE  /\ Tail(es) \in Seq(Events)
           /\ Len(es) \in Nat \ {0} /\ DOMAIN es = 1..Len(es)
           /\ Head(es) = es[1] /\ Head(es) \in Events
           /\ Len(Tail(es)) = Len(es) - 1
           /\ DOMAIN Tail(es) = 1..(Len(es) - 1)
           /\ \A i \in 1..(Len(es) - 1) : Tail(es)[i] = es[i + 1]
BY HeadTailProperties

LEMMA TailOfAppend ==
    ASSUME NEW es \in Seq(Events), NEW e \in Events, es # <<>>
    PROVE  /\ Append(es, e) # <<>>
           /\ Tail(Append(es, e)) = Append(Tail(es), e)
           /\ Head(Append(es, e)) = Head(es)
<1>1. Append(es, e) # <<>> /\ Head(Append(es, e)) = Head(es)
  BY AppendFacts, TailFacts
<1>2. Tail(Append(es, e)) = Append(Tail(es), e)
  <2> DEFINE s == Tail(Append(es, e))
             t == Append(Tail(es), e)
  <2>1. /\ s \in Seq(Events) /\ Len(s) = Len(es)
        /\ \A i \in 1..Len(es) : s[i] = Append(es, e)[i + 1]
    <3>1. Append(es, e) \in Seq(Events) /\ Len(Append(es, e)) = Len(es) + 1
      BY AppendProperties
    <3>2. Len(es) \in Nat
      OBVIOUS
    <3> QED BY <1>1, <3>1, <3>2, TailFacts
  <2>2. /\ Tail(es) \in Seq(Events) /\ Len(Tail(es)) = Len(es) - 1
        /\ Len(es) \in Nat \ {0}
    BY TailFacts
  <2>3. /\ t \in Seq(Events) /\ Len(t) = Len(es)
        /\ \A i \in 1..(Len(es) - 1) : t[i] = Tail(es)[i]
        /\ t[Len(es)] = e
    BY <2>2, AppendProperties
  <2>4. \A i \in 1..Len(es) : s[i] = t[i]
    <3>1. TAKE i \in 1..Len(es)
    <3>2. CASE i = Len(es)
      BY <2>1, <2>3, <3>2, AppendFacts
    <3>3. CASE i # Len(es)
      <4>1. \A m \in Nat \ {0} : \A j \in 1..m : j # m => j \in 1..(m - 1) /\ j + 1 \in 1..m
        OBVIOUS
      <4>2. i \in 1..(Len(es) - 1) /\ i + 1 \in 1..Len(es)
        BY ONLY <2>2, <3>3, <4>1
      <4> QED BY <2>1, <2>3, <4>2, TailFacts, AppendFacts
    <3> QED BY <3>2, <3>3
  <2> HIDE DEF s, t
  <2>5. s = t
    BY <2>1, <2>3, <2>4, SeqEqual
  <2> QED BY <2>5 DEF s, t
<1> QED BY <1>1, <1>2

(* Events that were received leave events that are corrected. *)
LEMMA CorrectedTail ==
    ASSUME NEW es \in Seq(Events), es # <<>>, NEW t, NEW k, Corrected(es, t, k)
    PROVE  Corrected(Tail(es), t, k)
<1>1. SUFFICES ASSUME NEW i \in 1..(Len(es) - 1)
               PROVE  \/ Tells(Tail(es)[i].update, t, k) \/ Silent(Tail(es)[i].update, k)
                      \/ \E n \in 1..(Len(es) - 1) :
                            i < n /\ Tells(Tail(es)[n].update, t, k)
  BY TailFacts DEF Corrected
<1>2. i + 1 \in DOMAIN es /\ Tail(es)[i] = es[i + 1]
  BY TailFacts
<1>3. CASE \E n \in DOMAIN es : i + 1 < n /\ Tells(es[n].update, t, k)
  <2>1. PICK n \in DOMAIN es : i + 1 < n /\ Tells(es[n].update, t, k)
    BY <1>3
  <2>2. n - 1 \in 1..(Len(es) - 1) /\ i < n - 1 /\ (n - 1) + 1 = n
    BY <2>1, TailFacts
  <2>3. Tail(es)[n - 1] = es[n]
    BY <2>2, TailFacts
  <2> QED BY <2>1, <2>2, <2>3
<1>4. CASE Tells(es[i + 1].update, t, k) \/ Silent(es[i + 1].update, k)
  BY <1>2, <1>4
<1> QED BY <1>2, <1>3, <1>4 DEF Corrected

(* The last event corrects what it tells, and disturbs nothing if it is silent. *)
LEMMA CorrectedAppend ==
    ASSUME NEW es \in Seq(Events), NEW e \in Events, NEW t, NEW k,
           \/ Tells(e.update, t, k)
           \/ Silent(e.update, k) /\ Corrected(es, t, k)
    PROVE  Corrected(Append(es, e), t, k)
<1> DEFINE s == Append(es, e)
           N == Len(es) + 1
<1>1. /\ Len(es) \in Nat /\ N \in Nat /\ DOMAIN es = 1..Len(es)
      /\ DOMAIN s = 1..N /\ s[N] = e
      /\ \A i \in 1..Len(es) : s[i] = es[i]
  BY AppendFacts
<1>2. \A i \in 1..N : i = N \/ (i \in 1..Len(es) /\ i < N)
  BY <1>1
<1>3. \A i \in 1..Len(es) : i \in 1..N
  BY <1>1
<1>4. N \in 1..N
  BY <1>1
<1> HIDE DEF s, N
<1>5. CASE Tells(e.update, t, k)
  <2>1. Corrected(s, t, k)
    BY <1>1, <1>2, <1>4, <1>5 DEF Corrected
  <2> QED BY <2>1 DEF s
<1>6. CASE Silent(e.update, k) /\ Corrected(es, t, k)
  <2>1. Corrected(s, t, k)
    BY <1>1, <1>2, <1>3, <1>6 DEF Corrected
  <2> QED BY <2>1 DEF s
<1> QED BY <1>5, <1>6

(* The last event has none that corrects it. *)
LEMMA CorrectedLast ==
    ASSUME NEW es \in Seq(Events), NEW e \in Events, NEW t, NEW k,
           Corrected(Append(es, e), t, k)
    PROVE  Corrected(Append(<<>>, e), t, k)
<1>1. /\ Len(es) + 1 \in DOMAIN Append(es, e) /\ Append(es, e)[Len(es) + 1] = e
      /\ \A n \in DOMAIN Append(es, e) : ~(Len(es) + 1 < n)
  BY AppendFacts
<1>2. Tells(e.update, t, k) \/ Silent(e.update, k)
  BY <1>1 DEF Corrected
<1>3. DOMAIN Append(<<>>, e) = {1} /\ Append(<<>>, e)[1] = e
  OBVIOUS
<1> QED BY <1>2, <1>3 DEF Corrected

LEMMA CorrectedNone ==
    ASSUME NEW t, NEW k
    PROVE  Corrected(<<>>, t, k)
BY DEF Corrected

(* A younger age does not hide what will be told. *)
LEMMA WillYounger ==
    ASSUME NEW es \in Seq(Events), NEW age \in Nat, NEW c, NEW t, NEW k,
           Will(es, age, c, t, k)
    PROVE  Will(es, 0, c, t, k)
<1>1. \A n \in DOMAIN es : es[n].age \in Nat
  <2>1. \A n \in DOMAIN es : es[n] \in Events
    OBVIOUS
  <2> QED BY <2>1 DEF Events
<1>2. \A n \in DOMAIN es : age < es[n].age => 0 < es[n].age
  BY <1>1
<1> QED BY <1>2 DEF Will

LEMMA WillAppend ==
    ASSUME NEW es \in Seq(Events), NEW e \in Events, NEW age \in Nat, NEW c, NEW t, NEW k,
           \/ Will(es, age, c, t, k)
           \/ age < e.age /\ Tells(e.update, t, k)
    PROVE  Will(Append(es, e), age, c, t, k)
<1>1. /\ Len(es) \in Nat /\ DOMAIN es = 1..Len(es)
      /\ DOMAIN Append(es, e) = 1..(Len(es) + 1)
      /\ Append(es, e)[Len(es) + 1] = e
      /\ \A i \in 1..Len(es) : Append(es, e)[i] = es[i] /\ i \in 1..(Len(es) + 1)
      /\ Len(es) + 1 \in 1..(Len(es) + 1)
  BY AppendFacts
<1> QED BY <1>1 DEF Will

(* An event that is not younger than the answer may be dropped. *)
LEMMA WillDrop ==
    ASSUME NEW es \in Seq(Events), es # <<>>, NEW age \in Nat, NEW c, NEW t, NEW k,
           Will(es, age, c, t, k), ~(age < Head(es).age)
    PROVE  Will(Tail(es), age, c, t, k)
<1>1. CASE ~Differ(c, t, k)
  BY <1>1 DEF Will
<1>2. CASE \E n \in DOMAIN es : age < es[n].age /\ Tells(es[n].update, t, k)
  <2>1. PICK n \in DOMAIN es : age < es[n].age /\ Tells(es[n].update, t, k)
    BY <1>2
  <2>2. n # 1
    BY <2>1, TailFacts
  <2>3. n - 1 \in DOMAIN Tail(es) /\ (n - 1) + 1 = n
    BY <2>2, TailFacts
  <2>4. Tail(es)[n - 1] = es[n]
    BY <2>3, TailFacts
  <2> QED BY <2>1, <2>3, <2>4 DEF Will
<1> QED BY <1>1, <1>2 DEF Will

(* The copy after an event is applied will have the value that it would have
   had, or one that is told again. *)
LEMMA WillApply ==
    ASSUME NEW es \in Seq(Events), es # <<>>, NEW c, NEW t, NEW k,
           \A i \in DOMAIN es : 0 < es[i].age,
           Corrected(es, t, k),
           Will(es, 0, c, t, k) \/ Head(es).update.kind = "full"
    PROVE  Will(Tail(es), 0, Merged(c, Head(es).update), t, k)
<1> DEFINE u == Head(es).update
<1>1. u = es[1].update /\ 1 \in DOMAIN es
  BY TailFacts
<1> HIDE DEF u
<1>2. \A n \in DOMAIN es : 1 < n => n - 1 \in DOMAIN Tail(es) /\ Tail(es)[n - 1] = es[n]
  <2>1. TAKE n \in DOMAIN es
  <2>2. HAVE 1 < n
  <2>3. n - 1 \in 1..(Len(es) - 1) /\ (n - 1) + 1 = n
    BY <2>2, TailFacts
  <2> QED BY <2>3, TailFacts
<1>3. \A n \in DOMAIN es : n = 1 \/ 1 < n
  BY TailFacts
<1>4. CASE \E n \in DOMAIN es : 1 < n /\ Tells(es[n].update, t, k)
  BY <1>2, <1>4 DEF Will
<1>5. CASE Tells(u, t, k)
  BY <1>5, MergedContent DEF Will, u
<1>6. CASE /\ Silent(u, k)
           /\ ~\E n \in DOMAIN es : 1 < n /\ Tells(es[n].update, t, k)
  <2>1. u.kind # "full" /\ ~Tells(u, t, k)
    BY <1>6 DEF Silent, Tells
  <2>2. ~Differ(c, t, k)
    BY <1>1, <1>3, <1>6, <2>1 DEF Will, u
  <2>3. ~Differ(Merged(c, u), t, k)
    BY <1>6, <2>2, MergedContent
  <2> QED BY <2>3 DEF Will, u
<1> QED BY <1>1, <1>4, <1>5, <1>6 DEF Corrected, u
-----------------------------------------------------------------------------
(* Types *)

LEMMA StateTypes ==
    /\ \A s \in States : \A ks : Pick(s, ks) \in States
    /\ \A s, t \in States : \A ks : Merge(s, [changed |-> t, removed |-> ks]) \in States
    /\ Nothing \in States
<1>1. \A s \in States : /\ DOMAIN s \in SUBSET Keys
                        /\ \A k \in DOMAIN s : s[k] \in 1..MaxChanges
  BY DEF States
<1>2. \A f, D : D \in SUBSET Keys /\ f = [k \in D |-> f[k]] /\ (\A k \in D : f[k] \in 1..MaxChanges)
                  => f \in States
  <2>1. TAKE f, D
  <2>2. HAVE D \in SUBSET Keys /\ f = [k \in D |-> f[k]] /\ (\A k \in D : f[k] \in 1..MaxChanges)
  <2>3. f \in [D -> 1..MaxChanges]
    BY <2>2
  <2> QED BY <2>2, <2>3 DEF States
<1>3. \A s \in States : \A ks : Pick(s, ks) \in States
  <2>1. TAKE s \in States
  <2> TAKE ks
  <2>2. /\ DOMAIN Pick(s, ks) \in SUBSET Keys
        /\ Pick(s, ks) = [k \in ks \cap DOMAIN s |-> Pick(s, ks)[k]]
        /\ DOMAIN Pick(s, ks) = ks \cap DOMAIN s
        /\ \A k \in DOMAIN Pick(s, ks) : Pick(s, ks)[k] \in 1..MaxChanges
    BY <1>1 DEF Pick
  <2> QED BY <1>2, <2>2
<1>4. \A s, t \in States : \A ks : Merge(s, [changed |-> t, removed |-> ks]) \in States
  <2>1. TAKE s, t \in States
  <2> TAKE ks
  <2> DEFINE m == Merge(s, [changed |-> t, removed |-> ks])
             D == (DOMAIN s \cup DOMAIN t) \ ks
  <2>2. /\ m = [k \in D |-> m[k]]
        /\ \A k \in D : m[k] = IF k \in DOMAIN t THEN t[k] ELSE s[k]
    BY DEF Merge
  <2>3. D \in SUBSET Keys /\ \A k \in D : m[k] \in 1..MaxChanges
    BY <1>1, <2>2
  <2> HIDE DEF m, D
  <2>4. m \in States
    BY <1>2, <2>2, <2>3
  <2> QED BY <2>4 DEF m
<1>5. Nothing \in States
  <2>1. Nothing \in [{} -> 1..MaxChanges]
    BY DEF Nothing
  <2> QED BY <2>1 DEF States
<1> QED BY <1>3, <1>4, <1>5

LEMMA ViewType ==
    ASSUME NEW l, NEW s \in States
    PROVE  View(l, s) \in States
BY StateTypes DEF View

LEMMA OutcomeType ==
    ASSUME TypeOK, NEW l \in Labels, NEW s \in States
    PROVE  Outcome(l, s) \in Updates
<1>1. CASE baseline[l] = None
  BY <1>1 DEF Outcome, Updates
<1>2. CASE baseline[l] # None
  <2>1. Delta(baseline[l], s, Keys).changed \in States
    BY StateTypes DEF Delta
  <2>2. DOMAIN baseline[l] \in SUBSET Keys
    BY <1>2 DEF TypeOK, States
  <2>3. Delta(baseline[l], s, Keys) \in [changed : States, removed : SUBSET Keys]
    BY <2>1, <2>2 DEF Delta
  <2> QED BY <1>2, <2>3 DEF Outcome, Updates
<1> QED BY <1>1, <1>2

LEMMA MergedType ==
    ASSUME NEW c \in States, NEW u \in Updates
    PROVE  Merged(c, u) \in States
<1>1. CASE u.kind = "full"
  BY <1>1 DEF Merged, Updates
<1>2. CASE u.kind # "full"
  <2>1. u.state \in [changed : States, removed : SUBSET Keys]
    BY <1>2 DEF Updates
  <2>2. u.state = [changed |-> u.state.changed, removed |-> u.state.removed]
        /\ u.state.changed \in States
    BY <2>1
  <2>3. Merge(c, [changed |-> u.state.changed, removed |-> u.state.removed]) \in States
    BY <2>2, StateTypes
  <2>4. Merge(c, u.state) \in States
    BY <2>2, <2>3
  <2> QED BY <1>2, <2>4 DEF Merged
<1> QED BY <1>1, <1>2

LEMMA AgeType ==
    ASSUME TypeOK
    PROVE  Age \in Nat
BY TauriAssumption DEF TypeOK, Age

(* A broadcast that is under way is a record. *)
LEMMA BroadcastType ==
    ASSUME TypeOK, Locked
    PROVE  /\ broadcast \in Broadcasts
           /\ broadcast.now # None => broadcast.now \in Turns
           /\ broadcast = [state |-> broadcast.state, todo |-> broadcast.todo,
                           now |-> broadcast.now, fresh |-> broadcast.fresh]
BY DEF TypeOK, Locked, Broadcasts

LEMMA IsBroadcast ==
    ASSUME NEW s \in States, NEW todo \in SUBSET Labels, NEW now \in Turns \cup {None},
           NEW fresh \in SUBSET Labels
    PROVE  LET b == [state |-> s, todo |-> todo, now |-> now, fresh |-> fresh]
           IN  b \in Broadcasts /\ b # None
BY NoneAssumption DEF Broadcasts

(* What the steps of a broadcast make of it. *)
LEMMA DoneIs ==
    ASSUME TypeOK, Locked, NEW l \in Labels
    PROVE  /\ Done(l) = IF broadcast.todo \ {l} = {} THEN None
                        ELSE [state |-> broadcast.state, todo |-> broadcast.todo \ {l},
                              now |-> None, fresh |-> broadcast.fresh]
           /\ Done(l) \in Broadcasts \cup {None}
           /\ broadcast.todo \ {l} # {} => Done(l) # None
<1>1. broadcast = [state |-> broadcast.state, todo |-> broadcast.todo,
                   now |-> broadcast.now, fresh |-> broadcast.fresh]
      /\ broadcast \in Broadcasts
  BY BroadcastType
<1>2. Done(l) = IF broadcast.todo \ {l} = {} THEN None
                ELSE [state |-> broadcast.state, todo |-> broadcast.todo \ {l},
                      now |-> None, fresh |-> broadcast.fresh]
  <2>1. \A todo : [broadcast EXCEPT !.todo = todo, !.now = None]
           = [state |-> broadcast.state, todo |-> todo,
              now |-> None, fresh |-> broadcast.fresh]
    <3>1. TAKE todo
    <3> DEFINE b == [broadcast EXCEPT !.todo = todo]
    <3>2. b = [state |-> broadcast.state, todo |-> todo,
               now |-> broadcast.now, fresh |-> broadcast.fresh]
      BY <1>1
    <3>3. [broadcast EXCEPT !.todo = todo, !.now = None] = [b EXCEPT !.now = None]
      OBVIOUS
    <3> HIDE DEF b
    <3>4. [b EXCEPT !.now = None] = [state |-> broadcast.state, todo |-> todo,
                                     now |-> None, fresh |-> broadcast.fresh]
      BY <3>2
    <3> QED BY <3>3, <3>4
  <2> QED BY <2>1 DEF Done
<1>3. broadcast.state \in States /\ broadcast.todo \in SUBSET Labels
      /\ broadcast.fresh \in SUBSET Labels
  BY <1>1 DEF Broadcasts
<1> QED BY <1>2, <1>3, IsBroadcast

LEMMA TurnIs ==
    ASSUME TypeOK, Locked, NEW turn \in Turns
    PROVE  LET b == [broadcast EXCEPT !.now = turn]
           IN  /\ b = [state |-> broadcast.state, todo |-> broadcast.todo,
                       now |-> turn, fresh |-> broadcast.fresh]
               /\ b \in Broadcasts /\ b # None /\ turn # None
<1>1. broadcast = [state |-> broadcast.state, todo |-> broadcast.todo,
                   now |-> broadcast.now, fresh |-> broadcast.fresh]
      /\ broadcast \in Broadcasts
  BY BroadcastType
<1>2. [broadcast EXCEPT !.now = turn]
         = [state |-> broadcast.state, todo |-> broadcast.todo,
            now |-> turn, fresh |-> broadcast.fresh]
  BY <1>1
<1>3. broadcast.state \in States /\ broadcast.todo \in SUBSET Labels
      /\ broadcast.fresh \in SUBSET Labels
  BY <1>1 DEF Broadcasts
<1> QED BY <1>2, <1>3, IsBroadcast, NoneAssumption

LEMMA StageIs ==
    ASSUME TypeOK, Locked, broadcast.now # None,
           NEW stage \in {"emit", "record", "note"}
    PROVE  LET turn == [broadcast.now EXCEPT !.stage = stage]
           IN  /\ [broadcast EXCEPT !.now.stage = stage] = [broadcast EXCEPT !.now = turn]
               /\ turn \in Turns /\ turn.stage = stage /\ turn.label = broadcast.now.label
               /\ turn.event = broadcast.now.event /\ turn.scoped = broadcast.now.scoped
<1>1. broadcast.now \in Turns /\ broadcast \in Broadcasts
  BY BroadcastType
<1> QED BY <1>1 DEF Turns, Broadcasts

LEMMA FreshIs ==
    ASSUME TypeOK, Locked, NEW l \in Labels
    PROVE  LET b == [broadcast EXCEPT !.fresh = @ \cup {l}]
           IN  /\ b = [state |-> broadcast.state, todo |-> broadcast.todo,
                       now |-> broadcast.now, fresh |-> broadcast.fresh \cup {l}]
               /\ b \in Broadcasts /\ b # None
<1>1. broadcast = [state |-> broadcast.state, todo |-> broadcast.todo,
                   now |-> broadcast.now, fresh |-> broadcast.fresh]
      /\ broadcast \in Broadcasts
  BY BroadcastType
<1>2. [broadcast EXCEPT !.fresh = @ \cup {l}]
         = [state |-> broadcast.state, todo |-> broadcast.todo,
            now |-> broadcast.now, fresh |-> broadcast.fresh \cup {l}]
  BY <1>1
<1>3. broadcast.state \in States /\ broadcast.todo \in SUBSET Labels
      /\ broadcast.fresh \cup {l} \in SUBSET Labels /\ broadcast.now \in Turns \cup {None}
  BY <1>1 DEF Broadcasts
<1> QED BY <1>2, <1>3, IsBroadcast

LEMMA StartIs ==
    ASSUME NEW s \in States, open \in SUBSET Labels, StartBroadcast(s)
    PROVE  /\ open = {} => broadcast' = None
           /\ open # {} => /\ broadcast' = [state |-> s, todo |-> open,
                                            now |-> None, fresh |-> {}]
                           /\ broadcast' \in Broadcasts /\ broadcast' # None
BY IsBroadcast DEF StartBroadcast

LEMMA InitTypes == Init => TypeOK /\ IdsInv
<1> SUFFICES ASSUME Init PROVE TypeOK /\ IdsInv
  OBVIOUS
<1> USE DEF Init
<1>1. /\ store \in States /\ copy \in [Labels -> States]
      /\ answer \in [Labels -> Answers \cup {None}]
      /\ baseline \in [Labels -> States \cup {None}]
      /\ broadcast \in Broadcasts \cup {None}
  BY StateTypes
<1>2. /\ phase \in [Labels -> Phases] /\ resync \in [Labels -> Resyncs]
      /\ events \in [Labels -> Seq(Events)]
      /\ seqs \in [Labels -> Nat] /\ lastSeq \in [Labels -> Nat]
      /\ subs \in [Labels -> SUBSET Keys]
      /\ updates \in Nat
      /\ open \subseteq Labels /\ owed \subseteq Labels /\ missed \subseteq Labels
  BY DEF Phases, Resyncs
<1>3. /\ pending \in [Labels -> SUBSET (1..updates)]
      /\ acks \in [Labels -> SUBSET (1..updates)]
      /\ excused \subseteq 1..updates
  OBVIOUS
<1>4. /\ changes \in 0..MaxChanges /\ subscribes \in 0..MaxSubscribes
      /\ failures \in 0..MaxFailures /\ clients \in 0..MaxClients
  BY TauriAssumption
<1>5. TypeOK
  BY ONLY <1>1, <1>2, <1>3, <1>4 DEF TypeOK
<1>6. IdsInv
  BY DEF IdsInv, Ids, Locked
<1> QED BY <1>5, <1>6

LEMMA EventsSame ==
    ASSUME IdsInv, events' = events, updates \in Nat, updates' \in {updates, updates + 1},
           Locked' /\ (broadcast.now # None)' => (Event.id \in 1..updates)'
    PROVE  IdsInv'
<1>1. \A l \in Labels : Ids(l)' = Ids(l)
  BY DEF Ids
<1>2. 1..updates \subseteq 1..updates'
  OBVIOUS
<1> QED BY <1>1, <1>2 DEF IdsInv

(* Receiving an event, or losing all, leaves ids that have been handed out. *)
LEMMA IdsOfTail ==
    ASSUME TypeOK, NEW l \in Labels, events[l] # <<>>,
           events' = [events EXCEPT ![l] = Tail(@)]
    PROVE  /\ events' \in [Labels -> Seq(Events)]
           /\ Ids(l) = Ids(l)' \cup {Head(events[l]).id}
           /\ Head(events[l]) \in Events
           /\ \A m \in Labels : m # l => Ids(m)' = Ids(m)
<1>1. events[l] \in Seq(Events)
  BY DEF TypeOK
<1>2. /\ Tail(events[l]) \in Seq(Events) /\ Len(events[l]) \in Nat \ {0}
      /\ Head(events[l]) = events[l][1] /\ Head(events[l]) \in Events
      /\ DOMAIN events[l] = 1..Len(events[l])
      /\ DOMAIN Tail(events[l]) = 1..(Len(events[l]) - 1)
      /\ \A i \in 1..(Len(events[l]) - 1) : Tail(events[l])[i] = events[l][i + 1]
  BY <1>1, TailFacts
<1>3. events'[l] = Tail(events[l]) /\ \A m \in Labels : m # l => events'[m] = events[m]
  BY DEF TypeOK
<1>4. events' \in [Labels -> Seq(Events)]
  BY <1>2 DEF TypeOK
<1>5. Ids(l) = Ids(l)' \cup {Head(events[l]).id}
  <2>1. ASSUME NEW i \in DOMAIN events[l]
        PROVE  events[l][i].id \in Ids(l)' \cup {Head(events[l]).id}
    <3>1. CASE i = 1
      BY <1>2, <3>1
    <3>2. CASE i # 1
      <4>1. i - 1 \in DOMAIN Tail(events[l]) /\ (i - 1) + 1 = i
        BY <1>2, <3>2
      <4>2. events'[l][i - 1] = events[l][i]
        BY <1>2, <1>3, <4>1
      <4> QED BY <1>3, <4>1, <4>2 DEF Ids
    <3> QED BY <3>1, <3>2
  <2>2. ASSUME NEW i \in DOMAIN events'[l]
        PROVE  events'[l][i].id \in Ids(l)
    <3> DEFINE N == Len(events[l])
    <3>0. \A n \in Nat \ {0} : \A j \in 1..(n - 1) : j + 1 \in 1..n
      OBVIOUS
    <3> HIDE DEF N
    <3>1. i \in 1..(N - 1) /\ i + 1 \in DOMAIN events[l]
      <4>1. i \in 1..(N - 1) /\ N \in Nat \ {0} /\ DOMAIN events[l] = 1..N
        BY <1>2, <1>3 DEF N
      <4> QED BY <3>0, <4>1
    <3> USE DEF N
    <3>2. events'[l][i] = events[l][i + 1]
      BY <1>2, <1>3, <3>1
    <3> QED BY <3>1, <3>2 DEF Ids
  <2>3. Head(events[l]).id \in Ids(l)
    BY <1>2 DEF Ids
  <2>4. Ids(l) \subseteq Ids(l)' \cup {Head(events[l]).id}
    BY <2>1 DEF Ids
  <2>5. Ids(l)' \subseteq Ids(l)
    BY <2>2 DEF Ids
  <2> QED BY <2>3, <2>4, <2>5
<1> QED BY <1>2, <1>3, <1>4, <1>5 DEF Ids

LEMMA IdsOfGone ==
    ASSUME TypeOK, NEW l \in Labels, Gone(l)
    PROVE  /\ events' \in [Labels -> Seq(Events)]
           /\ events'[l] = <<>>
           /\ Ids(l)' = {} /\ excused' = excused \cup Ids(l)
           /\ \A m \in Labels : m # l => Ids(m)' = Ids(m)
<1>1. events' = [events EXCEPT ![l] = <<>>]
      /\ excused' = excused \cup {e.id : e \in ToSet(events[l])}
  BY DEF Gone
<1>2. events'[l] = <<>> /\ \A m \in Labels : m # l => events'[m] = events[m]
  BY <1>1 DEF TypeOK
<1>3. events' \in [Labels -> Seq(Events)]
  BY <1>1 DEF TypeOK
<1>4. {e.id : e \in ToSet(events[l])} = Ids(l)
  <2>1. \A es : ToSet(es) = {es[i] : i \in DOMAIN es}
    BY DEF ToSet
  <2>2. \A e \in ToSet(events[l]) : e.id \in Ids(l)
    BY <2>1 DEF Ids
  <2>3. \A i \in DOMAIN events[l] : events[l][i] \in ToSet(events[l])
    BY <2>1
  <2>4. \A x \in Ids(l) : x \in {e.id : e \in ToSet(events[l])}
    BY <2>3 DEF Ids
  <2>5. \A x \in {e.id : e \in ToSet(events[l])} : x \in Ids(l)
    BY <2>2
  <2> QED BY <2>4, <2>5
<1>5. Ids(l)' = {}
  BY <1>2 DEF Ids
<1>6. \A m \in Labels : m # l => Ids(m)' = Ids(m)
  BY <1>2 DEF Ids
<1> QED BY <1>1, <1>2, <1>3, <1>4, <1>5, <1>6

LEMMA IdsOfAppend ==
    ASSUME TypeOK, NEW l \in Labels, NEW e \in Events,
           events' = [events EXCEPT ![l] = Append(@, e)]
    PROVE  /\ events' \in [Labels -> Seq(Events)]
           /\ Ids(l)' = Ids(l) \cup {e.id}
           /\ \A m \in Labels : m # l => Ids(m)' = Ids(m)
<1>1. events[l] \in Seq(Events)
  BY DEF TypeOK
<1>2. events'[l] = Append(events[l], e) /\ \A m \in Labels : m # l => events'[m] = events[m]
  BY DEF TypeOK
<1>3. events' \in [Labels -> Seq(Events)]
  BY <1>1, AppendFacts DEF TypeOK
<1>4. Ids(l)' = Ids(l) \cup {e.id}
  <2>1. /\ Len(events[l]) \in Nat
        /\ DOMAIN events[l] = 1..Len(events[l])
        /\ DOMAIN events'[l] = 1..(Len(events[l]) + 1)
        /\ \A i \in 1..Len(events[l]) : events'[l][i] = events[l][i]
        /\ events'[l][Len(events[l]) + 1] = e
    BY <1>1, <1>2, AppendFacts
  <2>2. \A n \in Nat : 1..(n + 1) = 1..n \cup {n + 1}
    OBVIOUS
  <2>3. DOMAIN events'[l] = DOMAIN events[l] \cup {Len(events[l]) + 1}
    BY <2>1, <2>2
  <2> QED BY <2>1, <2>3 DEF Ids
<1> QED BY <1>2, <1>3, <1>4 DEF Ids

(* The conjuncts of TypeOK, in groups that a step leaves alone or not. *)
StoreTypes ==
    /\ store \in States
    /\ changes \in 0..MaxChanges /\ subscribes \in 0..MaxSubscribes
    /\ failures \in 0..MaxFailures /\ clients \in 0..MaxClients
    /\ open \subseteq Labels
TableTypes ==
    /\ subs \in [Labels -> SUBSET Keys]
    /\ baseline \in [Labels -> States \cup {None}]
    /\ seqs \in [Labels -> Nat]
    /\ owed \subseteq Labels /\ missed \subseteq Labels
IdTypes ==
    /\ updates \in Nat
    /\ pending \in [Labels -> SUBSET (1..updates)]
    /\ acks \in [Labels -> SUBSET (1..updates)]
    /\ excused \subseteq 1..updates
ClientTypes ==
    /\ phase \in [Labels -> Phases]
    /\ resync \in [Labels -> Resyncs]
    /\ answer \in [Labels -> Answers \cup {None}]
    /\ copy \in [Labels -> States]
    /\ lastSeq \in [Labels -> Nat]

LEMMA TypeParts ==
    /\ TypeOK => /\ StoreTypes /\ TableTypes /\ IdTypes /\ ClientTypes
                 /\ broadcast \in Broadcasts \cup {None}
                 /\ events \in [Labels -> Seq(Events)]
    /\ StoreTypes' /\ TableTypes' /\ IdTypes' /\ ClientTypes'
          /\ broadcast' \in Broadcasts \cup {None}
          /\ events' \in [Labels -> Seq(Events)]
       => TypeOK'
BY DEF TypeOK, StoreTypes, TableTypes, IdTypes, ClientTypes

LEMMA PartsUnchanged ==
    /\ StoreTypes /\ UNCHANGED <<store, changes, subscribes, failures, clients, open>>
          => StoreTypes'
    /\ TableTypes /\ UNCHANGED <<subs, baseline, seqs, owed, missed>> => TableTypes'
    /\ IdTypes /\ UNCHANGED <<updates, pending, acks, excused>> => IdTypes'
    /\ ClientTypes /\ UNCHANGED client => ClientTypes'
BY DEF StoreTypes, TableTypes, IdTypes, ClientTypes, client

(* The steps of the client and its commands, which leave the broadcast alone
   but for the snapshots it is told of. *)
LEMMA ClientStepTypes ==
    ASSUME TypeOK, IdsInv, ClientInv, NEW l \in Labels,
           \/ InitialRead(l) \/ ResyncDropPending(l) \/ ResyncForget(l) \/ ResyncRead(l)
           \/ Initialize(l) \/ PublishInitial(l) \/ Attach(l) \/ OpenWindow(l)
    PROVE  TypeOK' /\ IdsInv'
<1> USE DEF bounds, perLabel, client, ghosts
<1>0. StoreTypes /\ TableTypes /\ IdTypes /\ ClientTypes
      /\ broadcast \in Broadcasts \cup {None} /\ events \in [Labels -> Seq(Events)]
  BY TypeParts
<1>1. ASSUME NoteSnapshot(l)
      PROVE  /\ broadcast' \in Broadcasts \cup {None}
             /\ Locked' <=> Locked
             /\ Locked => broadcast'.now = broadcast.now
  <2>1. CASE Locked
    BY <1>1, <2>1, FreshIs DEF NoteSnapshot, Locked
  <2>2. CASE ~Locked
    BY <1>1, <2>2 DEF NoteSnapshot, Locked, TypeOK
  <2> QED BY <2>1, <2>2
<1>2. \A s \in States : Answer(s) \in Answers
  BY AgeType DEF Answer, Answers
<1>3. CASE InitialRead(l)
  <2> USE <1>3 DEF InitialRead
  <2>1. broadcast' \in Broadcasts \cup {None}
    BY <1>1
  <2>2. Answer(store) \in Answers
    BY <1>2 DEF TypeOK
  <2>3. TableTypes'
    BY <1>0 DEF TableTypes
  <2>4. ClientTypes'
    BY <1>0, <2>2 DEF ClientTypes, Phases
  <2>5. TypeOK'
    BY <1>0, <2>1, <2>3, <2>4, TypeParts, PartsUnchanged
  <2>6. IdsInv'
    BY <1>1, EventsSame DEF IdsInv, Event, TypeOK
  <2> QED BY <2>5, <2>6
<1>4. CASE ResyncRead(l)
  <2> USE <1>4 DEF ResyncRead
  <2>1. broadcast' \in Broadcasts \cup {None}
    BY <1>1
  <2>2. Answer(View(l, store)) \in Answers
    BY <1>2, ViewType DEF TypeOK
  <2>3. TableTypes'
    BY <1>0 DEF TableTypes
  <2>4. ClientTypes'
    BY <1>0, <2>2 DEF ClientTypes, Resyncs
  <2>5. TypeOK'
    BY <1>0, <2>1, <2>3, <2>4, TypeParts, PartsUnchanged
  <2>6. IdsInv'
    BY <1>1, EventsSame DEF IdsInv, Event, TypeOK
  <2> QED BY <2>5, <2>6
<1>5. CASE \/ ResyncDropPending(l) \/ ResyncForget(l)
           \/ Initialize(l) \/ PublishInitial(l) \/ Attach(l) \/ OpenWindow(l)
  <2>1. events' = events /\ broadcast' = broadcast /\ updates' = updates
    BY <1>5 DEF ResyncDropPending, ResyncForget, Initialize, PublishInitial, Attach,
                OpenWindow
  <2>2. IdsInv'
    BY <2>1, EventsSame DEF IdsInv, Locked, Event, TypeOK
  <2>3. CASE ResyncDropPending(l)
    <3> USE <2>3 DEF ResyncDropPending, DropPending
    <3>1. IdTypes'
      BY <1>0 DEF IdTypes
    <3>2. ClientTypes'
      BY <1>0 DEF ClientTypes, Resyncs
    <3> QED BY <1>0, <2>1, <2>2, <3>1, <3>2, TypeParts, PartsUnchanged
  <2>4. CASE ResyncForget(l)
    <3> USE <2>4 DEF ResyncForget, Forget, Record
    <3>1. TableTypes'
      BY <1>0 DEF TableTypes
    <3>2. ClientTypes'
      BY <1>0 DEF ClientTypes, Resyncs
    <3> QED BY <1>0, <2>1, <2>2, <3>1, <3>2, TypeParts, PartsUnchanged
  <2>5. CASE Initialize(l)
    <3> USE <2>5 DEF Initialize
    <3>1. StoreTypes'
      BY <1>0, TauriAssumption DEF StoreTypes
    <3>2. ClientTypes'
      BY <1>0 DEF ClientTypes, Phases
    <3>3. TableTypes'
      BY <1>0 DEF TableTypes
    <3> QED BY <1>0, <2>1, <2>2, <3>1, <3>2, <3>3, TypeParts, PartsUnchanged
  <2>6. CASE PublishInitial(l)
    <3> USE <2>6 DEF PublishInitial
    <3>1. answer[l] # None
      BY DEF ClientInv, ClientAt
    <3>2. answer[l].state \in States
      BY <1>0, <3>1 DEF ClientTypes, Answers
    <3>3. ClientTypes'
      BY <1>0, <3>2 DEF ClientTypes, Phases
    <3> QED BY <1>0, <2>1, <2>2, <3>3, TypeParts, PartsUnchanged
  <2>7. CASE Attach(l)
    <3> USE <2>7 DEF Attach
    <3>1. ClientTypes'
      BY <1>0 DEF ClientTypes, Phases
    <3> QED BY <1>0, <2>1, <2>2, <3>1, TypeParts, PartsUnchanged
  <2>8. CASE OpenWindow(l)
    <3> USE <2>8 DEF OpenWindow
    <3>1. StoreTypes'
      BY <1>0, TauriAssumption DEF StoreTypes
    <3>2. TableTypes'
      BY <1>0 DEF TableTypes
    <3> QED BY <1>0, <2>1, <2>2, <3>1, <3>2, TypeParts, PartsUnchanged
  <2> QED BY <1>5, <2>2, <2>3, <2>4, <2>5, <2>6, <2>7, <2>8
<1> QED BY <1>3, <1>4, <1>5

LEMMA FewerIds ==
    ASSUME IdsInv, updates' = updates, broadcast' = broadcast,
           \A m \in Labels : Ids(m)' \subseteq Ids(m)
    PROVE  IdsInv'
BY DEF IdsInv, Locked, Event

LEMMA GoneTypes ==
    ASSUME TypeOK, IdsInv, NEW l \in Labels, Gone(l), updates' = updates
    PROVE  /\ ClientTypes'
           /\ events' \in [Labels -> Seq(Events)]
           /\ excused' \subseteq 1..updates
           /\ \A m \in Labels : Ids(m)' \subseteq Ids(m)
<1>1. /\ events' \in [Labels -> Seq(Events)]
      /\ Ids(l)' = {} /\ excused' = excused \cup Ids(l)
      /\ \A m \in Labels : m # l => Ids(m)' = Ids(m)
  BY IdsOfGone
<1>2. excused' \subseteq 1..updates
  BY <1>1 DEF IdsInv, TypeOK
<1>3. ClientTypes'
  BY StateTypes DEF Gone, ClientTypes, TypeOK, Phases, Resyncs
<1> QED BY <1>1, <1>2, <1>3

(* The steps that receive an event, or end a client. *)
LEMMA EventStepTypes ==
    ASSUME TypeOK, IdsInv, ClientInv, NEW l \in Labels,
           \/ \E id \in acks[l] : Acknowledge(l, id)
           \/ EventDropped(l) \/ EventReportsGap(l) \/ EventApplied(l)
           \/ ResyncEnds(l) \/ Destroy(l) \/ ReloadPage(l) \/ CloseWindow(l)
    PROVE  TypeOK' /\ IdsInv'
<1> USE DEF bounds, perLabel, client, ghosts
<1>0. StoreTypes /\ TableTypes /\ IdTypes /\ ClientTypes
      /\ broadcast \in Broadcasts \cup {None} /\ events \in [Labels -> Seq(Events)]
  BY TypeParts
<1>1. ASSUME events[l] # <<>>, events' = [events EXCEPT ![l] = Tail(@)]
      PROVE  /\ events' \in [Labels -> Seq(Events)]
             /\ \A m \in Labels : Ids(m)' \subseteq Ids(m)
             /\ Head(events[l]) \in Events /\ Head(events[l]).id \in 1..updates
  BY <1>1, IdsOfTail DEF IdsInv
<1>2. ASSUME Gone(l), updates' = updates
      PROVE  /\ ClientTypes'
             /\ events' \in [Labels -> Seq(Events)]
             /\ excused' \subseteq 1..updates
             /\ \A m \in Labels : Ids(m)' \subseteq Ids(m)
  BY <1>2, GoneTypes
<1>3. ASSUME NEW id \in acks[l], Acknowledge(l, id) PROVE TypeOK' /\ IdsInv'
  <2> USE <1>3 DEF Acknowledge, Ack
  <2>1. IdTypes'
    BY <1>0 DEF IdTypes
  <2>2. IdsInv'
    BY FewerIds DEF Ids
  <2> QED BY <1>0, <2>1, <2>2, TypeParts, PartsUnchanged
<1>4. CASE EventDropped(l)
  <2> USE <1>4 DEF EventDropped, Drop
  <2>1. TableTypes'
    BY <1>0 DEF TableTypes
  <2>2. IdTypes'
    BY <1>0, <1>1 DEF IdTypes
  <2> QED BY <1>0, <1>1, <2>1, <2>2, TypeParts, PartsUnchanged, FewerIds
<1>5. CASE EventReportsGap(l)
  <2> USE <1>5 DEF EventReportsGap
  <2>1. ClientTypes'
    BY <1>0 DEF ClientTypes, Resyncs
  <2>2. IdTypes'
    BY <1>0, <1>1 DEF IdTypes
  <2> QED BY <1>0, <1>1, <2>1, <2>2, TypeParts, PartsUnchanged, FewerIds
<1>6. CASE EventApplied(l)
  <2> USE <1>6 DEF EventApplied
  <2>1. Head(events[l]).seq \in Nat /\ Head(events[l]).update \in Updates
    BY <1>1 DEF Events
  <2>2. Merged(copy[l], Head(events[l]).update) \in States
    BY <1>0, <2>1, MergedType DEF ClientTypes
  <2>3. ClientTypes'
    BY <1>0, <2>1, <2>2 DEF ClientTypes
  <2>4. IdTypes'
    BY <1>0, <1>1 DEF IdTypes
  <2>5. TableTypes'
    BY <1>0 DEF TableTypes
  <2> QED BY <1>0, <1>1, <2>3, <2>4, <2>5, TypeParts, PartsUnchanged, FewerIds
<1>7. CASE ResyncEnds(l)
  <2> USE <1>7 DEF ResyncEnds
  <2>1. CASE phase[l] = "closing"
    <3>1. Gone(l) /\ updates' = updates
      BY <2>1
    <3>2. IdTypes'
      BY <1>0, <1>2, <3>1 DEF IdTypes
    <3> QED BY <1>0, <1>2, <3>1, <3>2, TypeParts, PartsUnchanged, FewerIds
  <2>2. CASE phase[l] # "closing"
    <3>1. answer[l] # None
      BY DEF ClientInv, ClientAt
    <3>2. answer[l].state \in States
      BY <1>0, <3>1 DEF ClientTypes, Answers
    <3>6. /\ copy' = [copy EXCEPT ![l] = answer[l].state]
          /\ lastSeq' = [lastSeq EXCEPT ![l] = 0]
          /\ resync' = [resync EXCEPT ![l] = "idle"]
          /\ answer' = [answer EXCEPT ![l] = None]
          /\ phase' = phase
      BY <2>2
    <3>3. ClientTypes'
      BY ONLY <1>0, <3>2, <3>6 DEF ClientTypes, Resyncs
    <3>4. events' = events /\ excused' = excused
      BY <2>2
    <3>5. IdsInv'
      BY <3>4, FewerIds DEF Ids
    <3> QED BY <1>0, <3>3, <3>4, <3>5, TypeParts, PartsUnchanged
  <2> QED BY <2>1, <2>2
<1>8. CASE Destroy(l)
  <2> USE <1>8 DEF Destroy
  <2>1. CASE resync[l] = "idle"
    <3>1. Gone(l) /\ updates' = updates
      BY <2>1
    <3>2. IdTypes'
      BY <1>0, <1>2, <3>1 DEF IdTypes
    <3> QED BY <1>0, <1>2, <3>1, <3>2, TypeParts, PartsUnchanged, FewerIds
  <2>2. CASE resync[l] # "idle"
    <3>1. ClientTypes'
      BY <1>0, <2>2 DEF ClientTypes, Phases
    <3>2. events' = events /\ excused' = excused
      BY <2>2
    <3>3. IdsInv'
      BY <3>2, FewerIds DEF Ids
    <3> QED BY <1>0, <3>1, <3>2, <3>3, TypeParts, PartsUnchanged
  <2> QED BY <2>1, <2>2
<1>9. CASE ReloadPage(l)
  <2> USE <1>9 DEF ReloadPage
  <2>1. Gone(l) /\ updates' = updates
    BY DEF PageGone
  <2>2. IdTypes'
    BY <1>0, <1>2, <2>1 DEF IdTypes
  <2> QED BY <1>0, <1>2, <2>1, <2>2, TypeParts, PartsUnchanged, FewerIds
<1>10. CASE CloseWindow(l)
  <2> USE <1>10 DEF CloseWindow, ForgetKeys, SetKeys, Forget, Record, DropPending, ForgetSeq
  <2>1. Gone(l) /\ updates' = updates
    BY DEF PageGone
  <2>2. IdTypes'
    BY <1>0, <1>2, <2>1 DEF IdTypes
  <2>3. StoreTypes'
    BY <1>0 DEF StoreTypes
  <2>4. TableTypes'
    BY <1>0 DEF TableTypes
  <2> QED BY <1>0, <1>2, <2>1, <2>2, <2>3, <2>4, TypeParts, FewerIds
<1> QED BY <1>3, <1>4, <1>5, <1>6, <1>7, <1>8, <1>9, <1>10

(* The turn that begins when an update is computed. *)
Scoped(l) == View(l, broadcast.state)
NewEvent(l) == [seq |-> seqs[l] + 1, id |-> updates + 1, age |-> Age,
                update |-> Outcome(l, Scoped(l))]
NewTurn(l) == [label |-> l, scoped |-> Scoped(l), stage |-> "emit", event |-> NewEvent(l)]

LEMMA ComputeIs ==
    ASSUME TypeOK, NEW l \in Labels, ComputeUpdate(l)
    PROVE  /\ Locked /\ broadcast.now = None /\ l \in broadcast.todo
           /\ Scoped(l) \in States
           /\ NewEvent(l) \in Events /\ NewTurn(l) \in Turns /\ NewTurn(l) # None
           /\ missed' = IF l \in open THEN missed ELSE missed \cup {l}
           /\ UNCHANGED <<store, changes, subscribes, failures, clients, open, subs, baseline,
                          pending, events, acks, phase, resync, answer, copy, lastSeq, excused>>
           /\ IF Unchanged(Outcome(l, Scoped(l)))
              THEN /\ broadcast' = Done(l) /\ owed' = owed \ {l}
                   /\ UNCHANGED <<seqs, updates>>
              ELSE /\ seqs' = [seqs EXCEPT ![l] = seqs[l] + 1] /\ updates' = updates + 1
                   /\ owed' = owed
                   /\ broadcast' = [state |-> broadcast.state, todo |-> broadcast.todo,
                                    now |-> NewTurn(l), fresh |-> broadcast.fresh]
                   /\ broadcast' \in Broadcasts /\ broadcast' # None
<1> USE DEF bounds, perLabel, client, ghosts
<1>1. Locked /\ broadcast.now = None /\ l \in broadcast.todo
  BY DEF ComputeUpdate
<1>2. Scoped(l) \in States
  BY <1>1, BroadcastType, ViewType DEF Scoped, Broadcasts
<1>3. NewEvent(l) \in Events
  <2>1. Outcome(l, Scoped(l)) \in Updates
    BY <1>2, OutcomeType
  <2>2. Age \in Nat
    BY AgeType
  <2>3. seqs[l] + 1 \in Nat /\ updates + 1 \in Nat
    BY DEF TypeOK
  <2> QED BY <2>1, <2>2, <2>3 DEF NewEvent, Events
<1>4. NewTurn(l) \in Turns /\ NewTurn(l) # None
  BY <1>2, <1>3, NoneAssumption DEF NewTurn, Turns
<1>5. CASE Unchanged(Outcome(l, Scoped(l)))
  <2>1. broadcast' = Done(l) /\ owed' = owed \ {l} /\ UNCHANGED <<seqs, updates>>
    BY <1>5 DEF ComputeUpdate, Scoped
  <2> QED BY <1>1, <1>2, <1>3, <1>4, <1>5, <2>1 DEF ComputeUpdate
<1>6. CASE ~Unchanged(Outcome(l, Scoped(l)))
  <2>1. /\ seqs' = [seqs EXCEPT ![l] = seqs[l] + 1] /\ updates' = updates + 1
        /\ owed' = owed
        /\ broadcast' = [broadcast EXCEPT !.now =
              [label |-> l, scoped |-> Scoped(l), stage |-> "emit",
               event |-> [seq |-> seqs'[l], id |-> updates', age |-> Age,
                          update |-> Outcome(l, Scoped(l))]]]
    BY <1>6 DEF ComputeUpdate, Scoped, NextSeq
  <2>2. seqs'[l] = seqs[l] + 1
    BY <2>1 DEF TypeOK
  <2>3. broadcast' = [broadcast EXCEPT !.now = NewTurn(l)]
    BY <2>1, <2>2 DEF NewTurn, NewEvent
  <2>4. /\ broadcast' = [state |-> broadcast.state, todo |-> broadcast.todo,
                         now |-> NewTurn(l), fresh |-> broadcast.fresh]
        /\ broadcast' \in Broadcasts /\ broadcast' # None
    BY <1>1, <1>4, <2>3, TurnIs
  <2> QED BY <1>1, <1>2, <1>3, <1>4, <1>6, <2>1, <2>4 DEF ComputeUpdate
<1> QED BY <1>5, <1>6

(* The later stages of a turn. *)
LEMMA TurnStepIs ==
    ASSUME TypeOK, Locked, broadcast.now # None, NEW stage \in {"emit", "record", "note"},
           broadcast' = [broadcast EXCEPT !.now.stage = stage]
    PROVE  /\ broadcast' \in Broadcasts /\ broadcast' # None /\ broadcast'.now # None
           /\ broadcast'.state = broadcast.state /\ broadcast'.todo = broadcast.todo
           /\ broadcast'.fresh = broadcast.fresh
           /\ broadcast'.now.stage = stage /\ broadcast'.now.label = broadcast.now.label
           /\ broadcast'.now.event = broadcast.now.event
           /\ broadcast'.now.scoped = broadcast.now.scoped
<1> DEFINE turn == [broadcast.now EXCEPT !.stage = stage]
<1>1. /\ [broadcast EXCEPT !.now.stage = stage] = [broadcast EXCEPT !.now = turn]
      /\ turn \in Turns /\ turn.stage = stage /\ turn.label = broadcast.now.label
      /\ turn.event = broadcast.now.event /\ turn.scoped = broadcast.now.scoped
  BY StageIs
<1> HIDE DEF turn
<1>2. /\ broadcast' = [state |-> broadcast.state, todo |-> broadcast.todo,
                       now |-> turn, fresh |-> broadcast.fresh]
      /\ broadcast' \in Broadcasts /\ broadcast' # None /\ turn # None
  BY <1>1, TurnIs
<1> QED BY <1>1, <1>2

LEMMA DispatchIs ==
    ASSUME TypeOK, Dispatch
    PROVE  /\ store' \in States /\ changes' = changes + 1 /\ changes < MaxChanges
           /\ StartBroadcast(store') /\ ~Locked
           /\ UNCHANGED <<subscribes, failures, clients, open, subs, baseline, seqs, pending,
                          updates, events, acks, phase, resync, answer, copy, lastSeq,
                          excused, owed, missed>>
<1> USE DEF bounds, perLabel, client, ghosts
<1>1. PICK set \in SUBSET Keys, removed \in SUBSET DOMAIN store :
         store' = [k \in (DOMAIN store \cup set) \ removed |->
                      IF k \in set THEN changes + 1 ELSE store[k]]
  BY DEF Dispatch
<1>2. changes + 1 \in 1..MaxChanges
  BY TauriAssumption DEF TypeOK, Dispatch
<1>3. DOMAIN store \in SUBSET Keys /\ \A k \in DOMAIN store : store[k] \in 1..MaxChanges
  BY DEF TypeOK, States
<1>4. store' \in [(DOMAIN store \cup set) \ removed -> 1..MaxChanges]
  BY <1>1, <1>2, <1>3
<1>5. store' \in States
  BY <1>3, <1>4 DEF States
<1> QED BY <1>5 DEF Dispatch

LEMMA DispatchAge ==
    ASSUME TypeOK, Dispatch
    PROVE  Age' = Age + 1 /\ Age' \in Nat /\ Age <= Age'
<1>1. changes' = changes + 1 /\ subscribes' = subscribes
  BY DispatchIs
<1>2. changes \in Nat /\ subscribes \in Nat
  BY DEF TypeOK
<1> QED BY ONLY <1>1, <1>2 DEF Age

LEMMA ChangeKeysIs ==
    ASSUME TypeOK, NEW l \in Labels, Subscribe(l) \/ Unsubscribe(l)
    PROVE  \E keys \in SUBSET Keys :
             /\ ~Locked /\ phase[l] = "live"
             /\ subscribes' = subscribes + 1 /\ subscribes < MaxSubscribes
             /\ subs' = [subs EXCEPT ![l] = keys]
             /\ baseline' = [baseline EXCEPT ![l] = None]
             /\ StartBroadcast(store)
             /\ UNCHANGED <<store, changes, failures, clients, open, seqs, pending, updates,
                            events, acks, phase, resync, answer, copy, lastSeq, excused,
                            owed, missed>>
<1> USE DEF bounds, client, ghosts
<1>1. PICK keys \in SUBSET Keys : ChangeKeys(l, keys)
  BY DEF Subscribe, Unsubscribe, TypeOK
<1> QED BY <1>1 DEF ChangeKeys, SetKeys, Forget, Record

LEMMA ChangeKeysAge ==
    ASSUME TypeOK, NEW l \in Labels, Subscribe(l) \/ Unsubscribe(l)
    PROVE  Age' = Age + 1 /\ Age' \in Nat /\ Age <= Age'
<1>1. changes' = changes /\ subscribes' = subscribes + 1
  BY ChangeKeysIs
<1>2. changes \in Nat /\ subscribes \in Nat
  BY DEF TypeOK
<1> QED BY ONLY <1>1, <1>2 DEF Age

(* The steps of a broadcast, and those that begin one. *)
LEMMA BroadcastStepTypes ==
    ASSUME TypeOK, IdsInv,
           \/ Dispatch \/ Emit \/ EmitFails \/ RecordBaseline \/ RecordPending
           \/ \E l \in Labels : ComputeUpdate(l) \/ Subscribe(l) \/ Unsubscribe(l)
    PROVE  TypeOK' /\ IdsInv'
<1> USE DEF bounds, perLabel, client, ghosts
<1>0. StoreTypes /\ TableTypes /\ IdTypes /\ ClientTypes
      /\ broadcast \in Broadcasts \cup {None} /\ events \in [Labels -> Seq(Events)]
  BY TypeParts
<1>1. ASSUME NEW s \in States, StartBroadcast(s)
      PROVE  /\ broadcast' \in Broadcasts \cup {None}
             /\ Locked' => broadcast'.now = None
  <2>1. open \in SUBSET Labels
    BY DEF TypeOK
  <2> QED BY <1>1, <2>1, StartIs DEF Locked
<1>2. ASSUME Locked, broadcast.now # None
      PROVE  /\ broadcast.now.label \in Labels /\ broadcast.now.scoped \in States
             /\ broadcast.now.event \in Events /\ Event.id \in 1..updates
  BY <1>2, BroadcastType DEF Turns, IdsInv
<1>3. CASE Dispatch
  <2>1. /\ store' \in States /\ changes' = changes + 1 /\ changes < MaxChanges
        /\ StartBroadcast(store')
        /\ UNCHANGED <<subscribes, failures, clients, open, subs, baseline, seqs, pending,
                       updates, events, acks, phase, resync, answer, copy, lastSeq,
                       excused, owed, missed>>
    BY <1>3, DispatchIs
  <2>2. broadcast' \in Broadcasts \cup {None} /\ (Locked' => broadcast'.now = None)
    <3>1. PICK s \in States : s = store'
      BY <2>1
    <3> QED BY <1>1, <2>1, <3>1
  <2>3. StoreTypes'
    BY <1>0, <2>1, TauriAssumption DEF StoreTypes
  <2>4. IdsInv'
    BY <2>1, <2>2, EventsSame DEF TypeOK
  <2> QED BY <1>0, <2>1, <2>2, <2>3, <2>4, TypeParts, PartsUnchanged
<1>4. ASSUME NEW l \in Labels, Subscribe(l) \/ Unsubscribe(l)
      PROVE  TypeOK' /\ IdsInv'
  <2>1. PICK keys \in SUBSET Keys :
             /\ subscribes' = subscribes + 1 /\ subscribes < MaxSubscribes
             /\ subs' = [subs EXCEPT ![l] = keys]
             /\ baseline' = [baseline EXCEPT ![l] = None]
             /\ StartBroadcast(store)
             /\ UNCHANGED <<store, changes, failures, clients, open, seqs, pending, updates,
                            events, acks, phase, resync, answer, copy, lastSeq, excused,
                            owed, missed>>
    BY <1>4, ChangeKeysIs
  <2>2. broadcast' \in Broadcasts \cup {None} /\ (Locked' => broadcast'.now = None)
    BY <1>1, <2>1 DEF TypeOK
  <2>3. StoreTypes'
    BY <1>0, <2>1, TauriAssumption DEF StoreTypes
  <2>4. TableTypes'
    BY <1>0, <2>1 DEF TableTypes
  <2>5. IdsInv'
    BY <2>1, <2>2, EventsSame DEF TypeOK
  <2> QED BY <1>0, <2>1, <2>2, <2>3, <2>4, <2>5, TypeParts, PartsUnchanged
<1>5. ASSUME NEW l \in Labels, ComputeUpdate(l)
      PROVE  TypeOK' /\ IdsInv'
  <2>1. /\ Locked /\ NewEvent(l) \in Events /\ NewTurn(l) \in Turns /\ NewTurn(l) # None
        /\ missed' = IF l \in open THEN missed ELSE missed \cup {l}
        /\ UNCHANGED <<store, changes, subscribes, failures, clients, open, subs, baseline,
                       pending, events, acks, phase, resync, answer, copy, lastSeq, excused>>
    BY <1>5, ComputeIs
  <2>2. CASE Unchanged(Outcome(l, Scoped(l)))
    <3>1. broadcast' = Done(l) /\ owed' = owed \ {l} /\ UNCHANGED <<seqs, updates>>
      BY <1>5, <2>2, ComputeIs
    <3>2. broadcast' \in Broadcasts \cup {None} /\ (Locked' => broadcast'.now = None)
      BY <2>1, <3>1, DoneIs DEF Locked
    <3>3. TableTypes'
      BY <1>0, <2>1, <3>1 DEF TableTypes
    <3>4. IdsInv'
      BY <2>1, <3>1, <3>2, EventsSame DEF TypeOK
    <3> QED BY <1>0, <2>1, <3>1, <3>2, <3>3, <3>4, TypeParts, PartsUnchanged
  <2>3. CASE ~Unchanged(Outcome(l, Scoped(l)))
    <3>1. /\ seqs' = [seqs EXCEPT ![l] = seqs[l] + 1] /\ updates' = updates + 1
          /\ owed' = owed
          /\ broadcast' = [state |-> broadcast.state, todo |-> broadcast.todo,
                           now |-> NewTurn(l), fresh |-> broadcast.fresh]
          /\ broadcast' \in Broadcasts /\ broadcast' # None
      BY <1>5, <2>3, ComputeIs
    <3>2. TableTypes'
      BY <1>0, <2>1, <3>1 DEF TableTypes
    <3>3. updates' \in Nat /\ 1..updates \subseteq 1..updates' /\ updates + 1 \in 1..updates'
      BY <1>0, <3>1 DEF IdTypes
    <3>4. IdTypes'
      BY <1>0, <2>1, <3>3 DEF IdTypes
    <3>5. Event' = NewEvent(l)
      BY <3>1 DEF Event, NewTurn
    <3>6. (Event.id)' \in 1..updates'
      BY <3>3, <3>5 DEF NewEvent
    <3>7. IdsInv'
      BY <1>0, <2>1, <3>1, <3>6, EventsSame DEF IdTypes
    <3> QED BY <1>0, <2>1, <3>1, <3>2, <3>4, <3>7, TypeParts, PartsUnchanged
  <2> QED BY <2>2, <2>3
<1>6. CASE Emit
  <2>0. PICK l : l = broadcast.now.label
    OBVIOUS
  <2>1. /\ Locked /\ broadcast.now # None
        /\ broadcast' = [broadcast EXCEPT !.now.stage = "record"]
        /\ UNCHANGED <<store, changes, subscribes, failures, clients, open, subs, baseline, seqs,
                       pending, updates, acks, phase, resync, answer, copy, lastSeq, owed>>
        /\ IF Listening(l)
           THEN /\ events' = [events EXCEPT ![l] = Append(@, Event)]
                /\ UNCHANGED <<excused, missed>>
           ELSE /\ excused' = excused \cup {Event.id} /\ missed' \subseteq missed \cup {l}
                /\ events' = events
    BY <1>6, <2>0 DEF Emit, Drop, Event
  <2>2. /\ broadcast' \in Broadcasts /\ broadcast' # None
        /\ Event' = Event
    BY <2>1, TurnStepIs DEF Event
  <2>3. l \in Labels /\ Event \in Events /\ Event.id \in 1..updates
    BY <1>2, <2>0, <2>1 DEF Event
  <2>4. TableTypes'
    BY <1>0, <2>1, <2>3 DEF TableTypes
  <2>5. IdTypes'
    BY <1>0, <2>1, <2>3 DEF IdTypes
  <2>6. events' \in [Labels -> Seq(Events)]
        /\ \A m \in Labels : Ids(m)' \subseteq 1..updates
    <3>1. CASE Listening(l)
      <4>1. /\ events' \in [Labels -> Seq(Events)]
            /\ Ids(l)' = Ids(l) \cup {Event.id}
            /\ \A m \in Labels : m # l => Ids(m)' = Ids(m)
        <5>1. PICK e \in Events : e = Event
          BY <2>3
        <5> QED BY <2>1, <2>3, <3>1, <5>1, IdsOfAppend
      <4> QED BY <2>3, <4>1 DEF IdsInv
    <3>2. CASE ~Listening(l)
      BY <1>0, <2>1, <3>2 DEF IdsInv, Ids
    <3> QED BY <3>1, <3>2
  <2>7. IdsInv'
    BY <2>1, <2>2, <2>3, <2>6 DEF IdsInv
  <2> QED BY <1>0, <2>1, <2>2, <2>4, <2>5, <2>6, <2>7, TypeParts, PartsUnchanged
<1>7. CASE EmitFails
  <2> USE <1>7 DEF EmitFails
  <2>1. broadcast.todo \in SUBSET Labels
    BY BroadcastType DEF Broadcasts
  <2>2. StoreTypes'
    BY <1>0, TauriAssumption DEF StoreTypes
  <2>3. TableTypes'
    BY <1>0, <2>1 DEF TableTypes
  <2>4. IdsInv'
    BY EventsSame DEF TypeOK, Locked
  <2> QED BY <1>0, <2>2, <2>3, <2>4, TypeParts, PartsUnchanged
<1>8. CASE RecordBaseline
  <2> USE <1>8 DEF RecordBaseline, Record
  <2>1. /\ broadcast' \in Broadcasts /\ broadcast' # None
        /\ Event' = Event /\ broadcast'.now # None
    BY TurnStepIs DEF Event
  <2>2. TableTypes'
    BY <1>0, <1>2 DEF TableTypes
  <2>3. IdsInv'
    BY <1>2, <2>1, EventsSame DEF TypeOK
  <2> QED BY <1>0, <2>1, <2>2, <2>3, TypeParts, PartsUnchanged
<1>9. CASE RecordPending
  <2> USE <1>9 DEF RecordPending, NotePending
  <2>1. broadcast' \in Broadcasts \cup {None} /\ (Locked' => broadcast'.now = None)
    BY <1>2, DoneIs DEF Locked
  <2>2. TableTypes'
    BY <1>0, <1>2 DEF TableTypes
  <2>3. IdTypes'
    BY <1>0, <1>2 DEF IdTypes, Event
  <2>4. IdsInv'
    BY <2>1, EventsSame DEF TypeOK
  <2> QED BY <1>0, <2>1, <2>2, <2>3, <2>4, TypeParts, PartsUnchanged
<1> QED BY <1>3, <1>4, <1>5, <1>6, <1>7, <1>8, <1>9

LEMMA TypeStep ==
    ASSUME TypeOK, IdsInv, ClientInv, [Next]_vars
    PROVE  TypeOK' /\ IdsInv'
<1>1. CASE Next
  BY <1>1, ClientStepTypes, EventStepTypes, BroadcastStepTypes DEF Next, LabelStep
<1>2. CASE UNCHANGED vars
  <2>1. UNCHANGED <<store, changes, subscribes, failures, clients, open>>
        /\ UNCHANGED <<subs, baseline, seqs, owed, missed>>
        /\ UNCHANGED <<updates, pending, acks, excused>> /\ UNCHANGED client
        /\ UNCHANGED <<broadcast, events>>
    BY <1>2 DEF vars, bounds, perLabel, client, ghosts
  <2>2. TypeOK'
    BY <2>1, TypeParts, PartsUnchanged
  <2>3. IdsInv'
    BY <2>1, FewerIds DEF Ids
  <2> QED BY <2>2, <2>3
<1> QED BY <1>1, <1>2
-----------------------------------------------------------------------------
(* How the steps of a broadcast move its webviews on *)

LEMMA StageValues ==
    ASSUME TypeOK, NEW l
    PROVE  /\ Stage(l) \in {"awaits", "emit", "record", "note", "done"}
           /\ HasTurn(l) => Stage(l) = broadcast.now.stage
           /\ Stage(l) \in {"emit", "record", "note"} => HasTurn(l)
           /\ HasTurn(l) => Stage(l) \in {"emit", "record", "note"}
           /\ ~Locked => Stage(l) = "done" /\ ~Fresh(l)
<1>1. HasTurn(l) => broadcast.now.stage \in {"emit", "record", "note"}
  BY BroadcastType DEF HasTurn, Turns
<1> QED BY <1>1 DEF Stage, HasTurn, Fresh

LEMMA StageSame ==
    ASSUME broadcast' = broadcast, NEW l
    PROVE  /\ Stage(l)' = Stage(l) /\ (Fresh(l)' <=> Fresh(l)) /\ Event' = Event
           /\ (Locked' <=> Locked) /\ (HasTurn(l)' <=> HasTurn(l))
BY DEF Stage, Fresh, Event, Locked, HasTurn

LEMMA StageNoted ==
    ASSUME TypeOK, NEW m \in Labels, NoteSnapshot(m), NEW l
    PROVE  /\ Stage(l)' = Stage(l) /\ (Fresh(l) => Fresh(l)') /\ Event' = Event
           /\ (Locked' <=> Locked) /\ (HasTurn(l)' <=> HasTurn(l))
           /\ Stage(m) = "awaits" => Fresh(m)'
           /\ HasTurn(m) /\ broadcast.now.label \in broadcast.todo => Fresh(m)'
           /\ Locked => /\ broadcast'.state = broadcast.state
                        /\ broadcast'.todo = broadcast.todo
                        /\ broadcast'.now = broadcast.now
<1>1. CASE Locked
  <2>1. /\ broadcast' = [state |-> broadcast.state, todo |-> broadcast.todo,
                         now |-> broadcast.now, fresh |-> broadcast.fresh \cup {m}]
        /\ broadcast' # None
    BY <1>1, FreshIs DEF NoteSnapshot
  <2>2. /\ broadcast'.state = broadcast.state /\ broadcast'.todo = broadcast.todo
        /\ broadcast'.now = broadcast.now /\ broadcast'.fresh = broadcast.fresh \cup {m}
        /\ Locked'
    BY <2>1 DEF Locked
  <2>3. /\ Stage(l)' = Stage(l) /\ (Fresh(l) => Fresh(l)') /\ Event' = Event
        /\ (HasTurn(l)' <=> HasTurn(l))
    BY <1>1, <2>2 DEF Stage, Fresh, Event, HasTurn
  <2>4. /\ Stage(m) = "awaits" => m \in broadcast.todo
        /\ HasTurn(m) => broadcast.now.label = m
    <3>1. HasTurn(m) => Stage(m) # "awaits"
      BY StageValues, BroadcastType DEF Turns, HasTurn
    <3> QED BY <3>1 DEF Stage, HasTurn
  <2>5. m \in broadcast.todo => Fresh(m)'
    BY <2>2 DEF Fresh
  <2> QED BY <1>1, <2>2, <2>3, <2>4, <2>5
<1>2. CASE ~Locked
  BY <1>2, StageSame DEF NoteSnapshot, Stage, HasTurn
<1> QED BY <1>1, <1>2

LEMMA StageStarted ==
    ASSUME TypeOK, NEW s \in States, StartBroadcast(s), NEW l \in Labels,
           open' = open
    PROVE  /\ Stage(l)' = IF l \in open THEN "awaits" ELSE "done"
           /\ ~Fresh(l)'
           /\ Locked' => /\ broadcast'.state = s /\ broadcast'.todo = open
                         /\ broadcast'.now = None /\ broadcast'.todo # {}
<1>1. open \in SUBSET Labels
  BY DEF TypeOK
<1>2. /\ open = {} => broadcast' = None
      /\ open # {} => /\ broadcast' = [state |-> s, todo |-> open,
                                       now |-> None, fresh |-> {}]
                      /\ broadcast' # None
  BY <1>1, StartIs
<1> QED BY <1>2 DEF Stage, Fresh, Locked, HasTurn

(* A webview's turn ends, or is passed over. *)
LEMMA StageDone ==
    ASSUME TypeOK, Locked, NEW m \in Labels, broadcast' = Done(m), NEW l,
           broadcast.now = None \/ broadcast.now.label = m
    PROVE  /\ Stage(l)' = IF l = m THEN "done" ELSE Stage(l)
           /\ l # m => (Fresh(l)' <=> Fresh(l))
           /\ Stage(l)' # "emit" /\ ~HasTurn(l)'
           /\ Locked' => /\ broadcast'.state = broadcast.state
                         /\ broadcast'.todo = broadcast.todo \ {m}
                         /\ broadcast'.now = None /\ broadcast'.todo # {}
<1>1. /\ broadcast' = IF broadcast.todo \ {m} = {} THEN None
                      ELSE [state |-> broadcast.state, todo |-> broadcast.todo \ {m},
                            now |-> None, fresh |-> broadcast.fresh]
      /\ broadcast.todo \ {m} # {} => broadcast' # None
  BY DoneIs
<1>2. CASE broadcast.todo \ {m} = {}
  <2>1. broadcast' = None
    BY <1>1, <1>2
  <2>2. l # m => l \notin broadcast.todo
    BY <1>2
  <2> QED BY <2>1, <2>2 DEF Stage, Fresh, Locked, HasTurn
<1>3. CASE broadcast.todo \ {m} # {}
  BY <1>1, <1>3 DEF Stage, Fresh, Locked, HasTurn
<1> QED BY <1>2, <1>3

LEMMA StageComputed ==
    ASSUME TypeOK, NEW m \in Labels, ComputeUpdate(m),
           ~Unchanged(Outcome(m, Scoped(m))), NEW l
    PROVE  /\ Stage(l)' = IF l = m THEN "emit" ELSE Stage(l)
           /\ Fresh(l)' <=> Fresh(l)
           /\ Event' = NewEvent(m)
           /\ l # m => Stage(l) # "emit"
<1>1. /\ Locked /\ broadcast.now = None
      /\ broadcast' = [state |-> broadcast.state, todo |-> broadcast.todo,
                       now |-> NewTurn(m), fresh |-> broadcast.fresh]
      /\ broadcast' # None /\ NewTurn(m) # None
  BY ComputeIs
<1>2. /\ NewTurn(m).label = m /\ NewTurn(m).stage = "emit"
      /\ NewTurn(m).event = NewEvent(m)
  BY DEF NewTurn
<1> QED BY <1>1, <1>2 DEF Stage, Fresh, Event, Locked, HasTurn

LEMMA StageTurned ==
    ASSUME TypeOK, Locked, broadcast.now # None, NEW stage \in {"emit", "record", "note"},
           broadcast' = [broadcast EXCEPT !.now.stage = stage], NEW l
    PROVE  /\ Stage(l)' = IF HasTurn(l) THEN stage ELSE Stage(l)
           /\ Fresh(l)' <=> Fresh(l)
           /\ Event' = Event
           /\ HasTurn(l)' <=> HasTurn(l)
           /\ Locked'
<1>1. /\ broadcast' # None /\ broadcast'.now # None
      /\ broadcast'.state = broadcast.state /\ broadcast'.todo = broadcast.todo
      /\ broadcast'.fresh = broadcast.fresh
      /\ broadcast'.now.stage = stage /\ broadcast'.now.label = broadcast.now.label
      /\ broadcast'.now.event = broadcast.now.event
  BY TurnStepIs
<1> QED BY <1>1 DEF Stage, Fresh, Event, Locked, HasTurn

LEMMA StageEnded ==
    ASSUME broadcast' = None, NEW l
    PROVE  Stage(l)' = "done" /\ ~Fresh(l)' /\ ~Locked' /\ ~HasTurn(l)'
BY DEF Stage, Fresh, Locked, HasTurn
-----------------------------------------------------------------------------
(* What a step leaves alone *)

(* The steps of a client, its window and its commands that take no turn. *)
ClientStep(l) ==
    \/ InitialRead(l)
    \/ ResyncDropPending(l) \/ ResyncForget(l) \/ ResyncRead(l) \/ ResyncEnds(l)
    \/ \E id \in acks[l] : Acknowledge(l, id)
    \/ Initialize(l) \/ PublishInitial(l) \/ Attach(l) \/ Destroy(l)
    \/ EventDropped(l) \/ EventReportsGap(l) \/ EventApplied(l)
    \/ OpenWindow(l) \/ ReloadPage(l) \/ CloseWindow(l)

Untouched(l) ==
    /\ subs'[l] = subs[l] /\ baseline'[l] = baseline[l]
    /\ seqs'[l] = seqs[l] /\ pending'[l] = pending[l]
    /\ events'[l] = events[l] /\ acks'[l] = acks[l]
    /\ phase'[l] = phase[l] /\ resync'[l] = resync[l] /\ answer'[l] = answer[l]
    /\ copy'[l] = copy[l] /\ lastSeq'[l] = lastSeq[l]
    /\ l \in open' <=> l \in open
    /\ l \in owed' <=> l \in owed
    /\ l \in missed' <=> l \in missed

LEMMA OthersUntouched ==
    ASSUME TypeOK, NEW m \in Labels, ClientStep(m), NEW l \in Labels, l # m
    PROVE  Untouched(l)
<1> USE DEF bounds, perLabel, client, ghosts, TypeOK, Untouched
<1>1. CASE InitialRead(m)
  BY <1>1 DEF InitialRead
<1>2. CASE ResyncDropPending(m)
  BY <1>2 DEF ResyncDropPending, DropPending
<1>3. CASE ResyncForget(m)
  BY <1>3 DEF ResyncForget, Forget, Record
<1>4. CASE ResyncRead(m)
  BY <1>4 DEF ResyncRead
<1>5. CASE ResyncEnds(m)
  BY <1>5 DEF ResyncEnds, Gone
<1>6. ASSUME NEW id \in acks[m], Acknowledge(m, id) PROVE Untouched(l)
  BY <1>6 DEF Acknowledge, Ack
<1>7. CASE Initialize(m)
  BY <1>7 DEF Initialize
<1>8. CASE PublishInitial(m)
  BY <1>8 DEF PublishInitial
<1>9. CASE Attach(m)
  BY <1>9 DEF Attach
<1>10. CASE Destroy(m)
  BY <1>10 DEF Destroy, Gone
<1>11. CASE EventDropped(m)
  BY <1>11 DEF EventDropped, Drop
<1>12. CASE EventReportsGap(m)
  BY <1>12 DEF EventReportsGap
<1>13. CASE EventApplied(m)
  BY <1>13 DEF EventApplied
<1>14. CASE OpenWindow(m)
  BY <1>14 DEF OpenWindow
<1>15. CASE ReloadPage(m)
  BY <1>15 DEF ReloadPage, PageGone, Gone
<1>16. CASE CloseWindow(m)
  BY <1>16 DEF CloseWindow, PageGone, Gone, ForgetKeys, SetKeys, Forget, Record, DropPending,
               ForgetSeq
<1> HIDE DEF Untouched, TypeOK
<1> QED BY <1>1, <1>2, <1>3, <1>4, <1>5, <1>6, <1>7, <1>8, <1>9, <1>10, <1>11, <1>12, <1>13,
           <1>14, <1>15, <1>16 DEF ClientStep

LEMMA ClientStepKeeps ==
    ASSUME TypeOK, NEW m \in Labels, ClientStep(m)
    PROVE  /\ UNCHANGED <<store, changes, subscribes, failures, updates>> /\ Age' = Age
           /\ Locked' <=> Locked
           /\ Locked => /\ broadcast'.state = broadcast.state
                        /\ broadcast'.todo = broadcast.todo
                        /\ broadcast'.now = broadcast.now
           /\ \A l : /\ Stage(l)' = Stage(l) /\ (HasTurn(l)' <=> HasTurn(l))
                     /\ Fresh(l) => Fresh(l)'
           /\ Event' = Event
           /\ excused \subseteq excused'
<1> USE DEF bounds, ghosts
<1>1. UNCHANGED <<store, changes, subscribes, failures, updates>>
      /\ (broadcast' = broadcast \/ NoteSnapshot(m))
      /\ excused \subseteq excused'
  BY DEF ClientStep, InitialRead, ResyncDropPending, ResyncForget, ResyncRead, ResyncEnds,
         Acknowledge, Initialize, PublishInitial, Attach, Destroy, EventDropped,
         EventReportsGap, EventApplied, OpenWindow, ReloadPage, CloseWindow, PageGone, Gone,
         Drop
<1>2. CASE broadcast' = broadcast
  BY <1>1, <1>2, StageSame DEF Age
<1>3. CASE NoteSnapshot(m)
  BY <1>1, <1>3, StageNoted DEF Age
<1> QED BY <1>1, <1>2, <1>3
-----------------------------------------------------------------------------
(* The turn, the clients and their answers *)

LEMMA TurnStep ==
    ASSUME TypeOK, TurnInv, ClientInv, Next
    PROVE  TurnInv'
<1> USE DEF bounds, perLabel, client, ghosts
<1>0. Age \in Nat /\ open \in SUBSET Labels /\ store \in States
  BY AgeType DEF TypeOK
<1>1. CASE Dispatch
  <2>1. /\ store' \in States /\ changes' = changes + 1 /\ StartBroadcast(store')
        /\ UNCHANGED <<subscribes, open>>
    BY <1>1, DispatchIs
  <2>2. Age' > 0
    BY <2>1 DEF Age, TypeOK
  <2>3. PICK s \in States : s = store'
    BY <2>1
  <2>4. Locked' => /\ broadcast'.state = s /\ broadcast'.todo # {} /\ broadcast'.now = None
    BY <1>0, <2>1, <2>3, StartIs DEF Locked
  <2> QED BY <2>2, <2>3, <2>4 DEF TurnInv
<1>2. ASSUME NEW m \in Labels, Subscribe(m) \/ Unsubscribe(m) PROVE TurnInv'
  <2>1. /\ subscribes' = subscribes + 1 /\ StartBroadcast(store)
        /\ UNCHANGED <<store, changes, open>>
    BY <1>2, ChangeKeysIs
  <2>2. Age' > 0
    BY <2>1 DEF Age, TypeOK
  <2>3. Locked' => /\ broadcast'.state = store /\ broadcast'.todo # {}
                   /\ broadcast'.now = None
    BY <1>0, <2>1, StartIs DEF Locked
  <2> QED BY <2>1, <2>2, <2>3 DEF TurnInv
<1>3. ASSUME NEW m \in Labels, ComputeUpdate(m) PROVE TurnInv'
  <2>1. /\ Locked /\ broadcast.now = None /\ m \in broadcast.todo
        /\ UNCHANGED <<store, changes, subscribes, open, subs>>
    BY <1>3, ComputeIs
  <2>2. CASE Unchanged(Outcome(m, Scoped(m)))
    <3>1. broadcast' = Done(m) /\ owed' = owed \ {m}
      BY <1>3, <2>2, ComputeIs
    <3>2. Locked' => /\ broadcast'.state = broadcast.state
                     /\ broadcast'.now = None /\ broadcast'.todo # {}
      BY <2>1, <3>1, StageDone
    <3> QED BY <2>1, <3>2 DEF TurnInv, Age
  <2>3. CASE ~Unchanged(Outcome(m, Scoped(m)))
    <3>1. broadcast' = [state |-> broadcast.state, todo |-> broadcast.todo,
                        now |-> NewTurn(m), fresh |-> broadcast.fresh]
      BY <1>3, <2>3, ComputeIs
    <3>2. /\ broadcast'.now.label = m /\ broadcast'.now.stage = "emit"
          /\ Event'.age = Age /\ broadcast'.now.scoped = Scoped(m)
      BY <3>1 DEF NewTurn, NewEvent, Event
    <3>3. Scoped(m) = View(m, store) /\ View(m, store)' = View(m, store)
      BY <2>1 DEF Scoped, TurnInv, View, KeysOf
    <3>4. broadcast'.state = broadcast.state /\ broadcast'.todo = broadcast.todo
      BY <3>1
    <3>5. (View(broadcast.now.label, store))' = View(m, store)
      BY <2>1, <3>2 DEF View, KeysOf
    <3> QED BY <2>1, <3>2, <3>3, <3>4, <3>5 DEF TurnInv, Age
  <2> QED BY <2>2, <2>3
<1>4. CASE Emit
  <2>1. /\ Locked /\ broadcast.now # None
        /\ broadcast' = [broadcast EXCEPT !.now.stage = "record"]
        /\ UNCHANGED <<store, changes, subscribes, open, subs, owed>>
    BY <1>4 DEF Emit
  <2>2. /\ broadcast'.state = broadcast.state /\ broadcast'.todo = broadcast.todo
        /\ broadcast'.now.stage = "record" /\ broadcast'.now.label = broadcast.now.label
        /\ Event' = Event /\ broadcast'.now.scoped = broadcast.now.scoped
    BY <2>1, TurnStepIs DEF Event
  <2>3. (View(broadcast.now.label, store))' = View(broadcast.now.label, store)
    BY <2>1, <2>2 DEF View, KeysOf
  <2> QED BY <2>1, <2>2, <2>3 DEF TurnInv, Age
<1>5. CASE EmitFails
  BY <1>5 DEF EmitFails, TurnInv, Locked
<1>6. CASE RecordBaseline
  <2>1. /\ Locked /\ broadcast.now # None
        /\ broadcast' = [broadcast EXCEPT !.now.stage = "note"]
        /\ owed' = owed \ {broadcast.now.label}
        /\ UNCHANGED <<store, changes, subscribes, open, subs>>
    BY <1>6 DEF RecordBaseline
  <2>2. /\ broadcast'.state = broadcast.state /\ broadcast'.todo = broadcast.todo
        /\ broadcast'.now.label = broadcast.now.label
        /\ Event' = Event /\ broadcast'.now.scoped = broadcast.now.scoped
    BY <2>1, TurnStepIs DEF Event
  <2>3. (View(broadcast.now.label, store))' = View(broadcast.now.label, store)
    BY <2>1, <2>2 DEF View, KeysOf
  <2> QED BY <2>1, <2>2, <2>3 DEF TurnInv, Age
<1>7. CASE RecordPending
  <2>1. PICK m \in Labels : m = broadcast.now.label /\ Locked
    BY <1>7, BroadcastType DEF RecordPending, Turns
  <2>2. broadcast' = Done(m) /\ UNCHANGED <<store, changes, subscribes>>
    BY <1>7, <2>1 DEF RecordPending
  <2>3. Locked' => /\ broadcast'.state = broadcast.state
                   /\ broadcast'.now = None /\ broadcast'.todo # {}
    BY <2>1, <2>2, StageDone
  <2> QED BY <2>1, <2>2, <2>3 DEF TurnInv, Age
<1>8. ASSUME NEW m \in Labels, ClientStep(m) PROVE TurnInv'
  <2>1. /\ store' = store /\ Age' = Age /\ Event' = Event
        /\ Locked' <=> Locked
        /\ Locked => /\ broadcast'.state = broadcast.state
                     /\ broadcast'.todo = broadcast.todo
                     /\ broadcast'.now = broadcast.now
    BY <1>8, ClientStepKeeps
  <2>2. SUFFICES ASSUME Locked, broadcast.now # None
                 PROVE  /\ broadcast.now.label \in open' =>
                              broadcast.now.scoped = (View(broadcast.now.label, store))'
                        /\ broadcast.now.stage = "note" => broadcast.now.label \notin owed'
    BY <2>1 DEF TurnInv
  <2>3. PICK l \in Labels : l = broadcast.now.label /\ l \in broadcast.todo
    BY <2>2, BroadcastType DEF Turns, TurnInv
  <2>4. /\ l \in open' => l \in open /\ subs'[l] = subs[l]
        /\ l \in owed' => l \in owed
    <3>1. CASE l # m
      BY <1>8, <3>1, OthersUntouched DEF Untouched
    <3>2. CASE l = m
      BY <1>8, <2>2, <2>3, <3>2
         DEF ClientStep, InitialRead, ResyncDropPending, ResyncForget, ResyncRead, ResyncEnds,
             Acknowledge, Initialize, PublishInitial, Attach, Destroy, EventDropped,
             EventReportsGap, EventApplied, OpenWindow, ReloadPage, CloseWindow
    <3> QED BY <3>1, <3>2
  <2>5. (View(broadcast.now.label, store))' = (View(l, store))'
    BY <2>1, <2>2, <2>3 DEF View, KeysOf
  <2>6. l \in open' => (View(l, store))' = View(l, store)
    BY <2>1, <2>4 DEF View, KeysOf
  <2> QED BY <2>2, <2>3, <2>4, <2>5, <2>6 DEF TurnInv
<1> QED BY <1>1, <1>2, <1>3, <1>4, <1>5, <1>6, <1>7, <1>8 DEF Next, LabelStep, ClientStep

LEMMA ClientFrame ==
    ASSUME TypeOK, NEW l \in Labels, ClientAt(l), Age' \in Nat, Age <= Age',
           phase'[l] = phase[l], resync'[l] = resync[l], answer'[l] = answer[l],
           copy'[l] = copy[l], events'[l] = events[l], lastSeq'[l] = lastSeq[l],
           l \in open => l \in open'
    PROVE  ClientAt(l)'
<1>1. Age \in Nat /\ 1..Age \subseteq 1..Age'
  BY AgeType
<1>2. \A i \in DOMAIN events'[l] : events'[l][i].age \in 1..Age'
  BY <1>1 DEF ClientAt
<1> QED BY <1>2 DEF ClientAt, Listening

(* A client that is gone leaves nothing. *)
LEMMA GoneIs ==
    ASSUME TypeOK, NEW l \in Labels, Gone(l)
    PROVE  /\ phase'[l] = "none" /\ resync'[l] = "idle" /\ answer'[l] = None
           /\ events'[l] = <<>> /\ lastSeq'[l] = 0
BY DEF Gone, TypeOK

LEMMA GoneClient ==
    ASSUME TypeOK, NEW l \in Labels, Gone(l)
    PROVE  ClientAt(l)'
BY GoneIs DEF ClientAt, Listening

LEMMA ClientInvStep ==
    ASSUME TypeOK, TurnInv, ClientInv, Next
    PROVE  ClientInv'
<1> USE DEF bounds, perLabel, client, ghosts
<1>0. SUFFICES ASSUME NEW l \in Labels PROVE ClientAt(l)'
  BY DEF ClientInv
<1>c. ClientAt(l) /\ Age \in Nat
  BY AgeType DEF ClientInv
<1>1. CASE Dispatch
  <2>1. Age' \in Nat /\ Age <= Age'
    BY <1>1, DispatchAge
  <2> QED BY <1>1, <1>c, <2>1, ClientFrame, DispatchIs
<1>2. ASSUME NEW m \in Labels, Subscribe(m) \/ Unsubscribe(m) PROVE ClientAt(l)'
  <2>1. Age' \in Nat /\ Age <= Age'
    BY <1>2, ChangeKeysAge
  <2> QED BY <1>2, <1>c, <2>1, ClientFrame, ChangeKeysIs
<1>3. ASSUME NEW m \in Labels, ComputeUpdate(m) PROVE ClientAt(l)'
  <2>1. Age' = Age
    BY <1>3, ComputeIs DEF Age
  <2> QED BY <1>3, <1>c, <2>1, ClientFrame, ComputeIs
<1>4. CASE Emit
  <2>1. PICK m \in Labels : m = broadcast.now.label
    BY <1>4, BroadcastType DEF Emit, Turns
  <2>2. /\ Locked /\ broadcast.now # None
        /\ UNCHANGED <<store, changes, subscribes, open, phase, resync, answer, copy, lastSeq>>
        /\ IF Listening(m) THEN events' = [events EXCEPT ![m] = Append(@, Event)]
                           ELSE events' = events
    BY <1>4, <2>1 DEF Emit, Drop, Event
  <2>3. Age' = Age
    BY <2>2 DEF Age
  <2>4. CASE l # m \/ ~Listening(m)
    <3>1. events'[l] = events[l]
      BY <2>2, <2>4 DEF TypeOK
    <3> QED BY <1>c, <2>2, <2>3, <3>1, ClientFrame
  <2>5. CASE l = m /\ Listening(m)
    <3>1. PICK e \in Events : e = Event
      BY <2>2, BroadcastType DEF Event, Turns
    <3>2. events[l] \in Seq(Events) /\ events'[l] = Append(events[l], e)
      BY <2>2, <2>5, <3>1 DEF TypeOK
    <3>3. e.age \in 1..Age
      BY <1>c, <2>2, <3>1 DEF TurnInv
    <3>4. \A i \in DOMAIN events'[l] : events'[l][i].age \in 1..Age
      <4>1. \A n \in Nat : \A i \in 1..(n + 1) : i \in 1..n \/ i = n + 1
        OBVIOUS
      <4> QED BY <1>c, <3>2, <3>3, <4>1, AppendFacts DEF ClientAt
    <3> QED BY <1>c, <2>2, <2>3, <2>5, <3>4 DEF ClientAt, Listening
  <2> QED BY <2>4, <2>5
<1>5. CASE EmitFails \/ RecordBaseline \/ RecordPending
  <2>1. UNCHANGED <<changes, subscribes, open, phase, resync, answer, copy, lastSeq, events>>
    BY <1>5 DEF EmitFails, RecordBaseline, RecordPending
  <2>2. Age' = Age
    BY <2>1 DEF Age
  <2> QED BY <1>c, <2>1, <2>2, ClientFrame
<1>6. ASSUME NEW m \in Labels, ClientStep(m) PROVE ClientAt(l)'
  <2>0. Age' = Age
    BY <1>6, ClientStepKeeps
  <2>1. CASE l # m
    <3>1. Untouched(l)
      BY <1>6, <2>1, OthersUntouched
    <3> QED BY <1>c, <2>0, <3>1, ClientFrame DEF Untouched
  <2>2. CASE l = m
    <3>1. ASSUME events[l] # <<>>, events' = [events EXCEPT ![l] = Tail(@)]
          PROVE  \A i \in DOMAIN events'[l] : events'[l][i].age \in 1..Age
      <4>1. events'[l] = Tail(events[l]) /\ events[l] \in Seq(Events)
        BY <3>1 DEF TypeOK
      <4>2. \A n \in Nat \ {0} : \A i \in 1..(n - 1) : i + 1 \in 1..n
        OBVIOUS
      <4>3. ASSUME NEW i \in DOMAIN events'[l] PROVE events'[l][i].age \in 1..Age
        <5>1. i + 1 \in DOMAIN events[l] /\ events'[l][i] = events[l][i + 1]
          BY <3>1, <4>1, <4>2, TailFacts
        <5> QED BY <1>c, <5>1 DEF ClientAt
      <4> QED BY <4>3
    <3> USE DEF TypeOK
    <3>2. CASE InitialRead(l)
      <4>1. Answer(store) # None
        BY <1>c, NoneAssumption DEF Answer, Answers
      <4> QED BY <1>c, <2>0, <3>2, <4>1 DEF InitialRead, ClientAt, Listening
    <3>3. CASE ResyncRead(l)
      <4>1. Answer(View(l, store)) # None
        BY <1>c, ViewType, NoneAssumption DEF Answer, Answers
      <4> QED BY <1>c, <2>0, <3>3, <4>1 DEF ResyncRead, ClientAt, Listening
    <3>4. CASE ResyncDropPending(l) \/ ResyncForget(l)
      BY <1>c, <2>0, <3>4 DEF ResyncDropPending, ResyncForget, ClientAt, Listening
    <3>5. CASE ResyncEnds(l)
      <4>1. CASE phase[l] = "closing"
        BY <3>5, <4>1, GoneClient DEF ResyncEnds
      <4>2. CASE phase[l] # "closing"
        BY <1>c, <2>0, <3>5, <4>2 DEF ResyncEnds, ClientAt, Listening
      <4> QED BY <4>1, <4>2
    <3>6. ASSUME NEW id \in acks[l], Acknowledge(l, id) PROVE ClientAt(l)'
      BY <1>c, <2>0, <3>6 DEF Acknowledge, ClientAt, Listening
    <3>7. CASE Initialize(l) \/ PublishInitial(l) \/ Attach(l)
      BY <1>c, <2>0, <3>7 DEF Initialize, PublishInitial, Attach, ClientAt, Listening
    <3>8. CASE Destroy(l)
      <4>1. CASE resync[l] = "idle"
        BY <3>8, <4>1, GoneClient DEF Destroy
      <4>2. CASE resync[l] # "idle"
        BY <1>c, <2>0, <3>8, <4>2 DEF Destroy, ClientAt, Listening
      <4> QED BY <4>1, <4>2
    <3>9. CASE EventDropped(l)
      BY <1>c, <2>0, <3>1, <3>9 DEF EventDropped, ClientAt, Listening
    <3>10. CASE EventReportsGap(l)
      BY <1>c, <2>0, <3>1, <3>10 DEF EventReportsGap, ClientAt, Listening
    <3>11. CASE EventApplied(l)
      BY <1>c, <2>0, <3>1, <3>11 DEF EventApplied, ClientAt, Listening
    <3>12. CASE OpenWindow(l)
      BY <1>c, <2>0, <3>12 DEF OpenWindow, ClientAt, Listening
    <3>13. CASE ReloadPage(l) \/ CloseWindow(l)
      BY <3>13, GoneClient DEF ReloadPage, CloseWindow, PageGone
    <3> HIDE DEF TypeOK
    <3> QED BY <1>6, <2>2, <3>2, <3>3, <3>4, <3>5, <3>6, <3>7, <3>8, <3>9, <3>10, <3>11, <3>12,
               <3>13 DEF ClientStep
  <2> QED BY <2>1, <2>2
<1> QED BY <1>1, <1>2, <1>3, <1>4, <1>5, <1>6 DEF Next, LabelStep, ClientStep

(* An answer goes with its client, and is not the newest any more after a
   change. *)
LEMMA AnswerInvStep ==
    ASSUME TypeOK, AnswerInv, ClientInv, Next
    PROVE  AnswerInv'
<1> USE DEF bounds, perLabel, client, ghosts
<1>0. SUFFICES ASSUME NEW l \in Labels PROVE AnswerAt(l)'
  BY DEF AnswerInv
<1>c. AnswerAt(l) /\ Age \in Nat /\ (answer[l] # None => answer[l].age \in Nat)
  BY AgeType DEF AnswerInv, TypeOK, Answers
<1>1. ASSUME answer'[l] = answer[l], Age' = Age + 1 PROVE AnswerAt(l)'
  BY <1>1, <1>c DEF AnswerAt
<1>2. ASSUME answer'[l] = answer[l], Age' = Age, store' = store, subs'[l] = subs[l]
      PROVE  AnswerAt(l)'
  BY <1>2, <1>c DEF AnswerAt, KeysOf
<1>3. ASSUME answer'[l] = None PROVE AnswerAt(l)'
  BY <1>3 DEF AnswerAt
<1>4. CASE Dispatch
  <2>1. answer' = answer /\ Age' = Age + 1
    BY <1>4, DispatchIs, DispatchAge
  <2> QED BY <1>1, <2>1
<1>5. ASSUME NEW m \in Labels, Subscribe(m) \/ Unsubscribe(m) PROVE AnswerAt(l)'
  <2>1. answer' = answer /\ Age' = Age + 1
    BY <1>5, ChangeKeysIs, ChangeKeysAge
  <2> QED BY <1>1, <2>1
<1>6. ASSUME NEW m \in Labels, ComputeUpdate(m) PROVE AnswerAt(l)'
  <2>1. answer' = answer /\ Age' = Age /\ store' = store /\ subs' = subs
    BY <1>6, ComputeIs DEF Age
  <2> QED BY <1>2, <2>1
<1>7. CASE Emit \/ EmitFails \/ RecordBaseline \/ RecordPending
  <2>1. UNCHANGED <<answer, changes, subscribes, store, subs>>
    BY <1>7 DEF Emit, EmitFails, RecordBaseline, RecordPending
  <2> QED BY <1>2, <2>1 DEF Age
<1>8. ASSUME NEW m \in Labels, ClientStep(m) PROVE AnswerAt(l)'
  <2>1. Age' = Age /\ store' = store
    BY <1>8, ClientStepKeeps
  <2>2. CASE l # m
    <3>1. Untouched(l)
      BY <1>8, <2>2, OthersUntouched
    <3> QED BY <1>2, <2>1, <3>1 DEF Untouched
  <2>3. CASE l = m
    <3>1. CASE InitialRead(l)
      <4>1. answer'[l] = [state |-> store, age |-> Age] /\ subs'[l] = subs[l]
        BY <3>1 DEF InitialRead, Answer, TypeOK
      <4>2. \A k : ~Differ(store, store, k)
        BY DEF Differ
      <4> QED BY <1>c, <2>1, <4>1, <4>2 DEF AnswerAt
    <3>2. CASE ResyncRead(l)
      <4>1. answer'[l] = [state |-> View(l, store), age |-> Age] /\ subs'[l] = subs[l]
        BY <3>2 DEF ResyncRead, Answer, TypeOK
      <4>2. \A k \in KeysOf(l) : ~Differ(View(l, store), store, k)
        BY PickAgrees DEF View
      <4>3. KeysOf(l)' = KeysOf(l)
        BY <4>1 DEF KeysOf
      <4> QED BY <1>c, <2>1, <4>1, <4>2, <4>3 DEF AnswerAt
    <3>3. ASSUME NEW id \in acks[l], Acknowledge(l, id) PROVE AnswerAt(l)'
      BY <1>2, <2>1, <3>3 DEF Acknowledge
    <3>4. CASE \/ ResyncDropPending(l) \/ ResyncForget(l) \/ Initialize(l) \/ PublishInitial(l)
               \/ EventDropped(l) \/ EventReportsGap(l) \/ EventApplied(l) \/ OpenWindow(l)
      <4>1. answer' = answer /\ subs' = subs
        BY <3>4 DEF ResyncDropPending, ResyncForget, Initialize, PublishInitial,
                    EventDropped, EventReportsGap, EventApplied, OpenWindow
      <4> QED BY <1>2, <2>1, <4>1
    <3>5. CASE Attach(l) \/ ReloadPage(l) \/ CloseWindow(l)
      <4>1. answer'[l] = None
        BY <3>5, GoneIs DEF Attach, ReloadPage, CloseWindow, PageGone, TypeOK
      <4> QED BY <1>3, <4>1
    <3>6. CASE ResyncEnds(l)
      <4>1. answer'[l] = None
        BY <3>6, GoneIs DEF ResyncEnds, TypeOK
      <4> QED BY <1>3, <4>1
    <3>7. CASE Destroy(l)
      <4>1. subs'[l] = subs[l] /\ (answer'[l] = None \/ answer'[l] = answer[l])
        BY <3>7, GoneIs DEF Destroy
      <4> QED BY <1>2, <1>3, <2>1, <4>1
    <3> QED BY <1>8, <2>3, <3>1, <3>2, <3>3, <3>4, <3>5, <3>6, <3>7 DEF ClientStep
  <2> QED BY <2>2, <2>3
<1> QED BY <1>4, <1>5, <1>6, <1>7, <1>8 DEF Next, LabelStep, ClientStep

-----------------------------------------------------------------------------
(* The content of a webview *)

ContentAt(l) == BaselineAt(l) /\ EventsAt(l) /\ FollowAt(l)
ContentInv == BaselineInv /\ EventsInv /\ FollowInv

(* A step that is about another webview. *)
LEMMA ContentFrame ==
    ASSUME NEW l \in Labels, ContentAt(l), store' = store, Untouched(l),
           Stage(l)' = Stage(l), Fresh(l) => Fresh(l)',
           Stage(l) = "emit" => Event' = Event
    PROVE  ContentAt(l)'
<1>1. /\ EventsOf(l)' = EventsOf(l) /\ (Told(l)' <=> Told(l)) /\ (Recorded(l)' <=> Recorded(l))
      /\ (Follower(l)' <=> Follower(l)) /\ Content(l)' = Content(l) /\ AgeOf(l)' = AgeOf(l)
      /\ KeysOf(l)' = KeysOf(l) /\ View(l, store)' = View(l, store)
  BY DEF Untouched, EventsOf, Told, Recorded, Follower, Content, AgeOf, KeysOf, View
<1>2. BaselineAt(l)'
  BY <1>1 DEF ContentAt, Untouched, BaselineAt
<1>3. EventsAt(l)'
  <2>1. SUFFICES ASSUME l \in open, NEW k \in KeysOf(l)
                 PROVE  /\ Told(l) => Corrected(EventsOf(l), store, k)
                        /\ Recorded(l) => Corrected(events[l], baseline[l], k)
    BY <1>1 DEF EventsAt, Untouched
  <2> QED BY <2>1 DEF ContentAt, EventsAt
<1>4. FollowAt(l)'
  <2>1. SUFFICES ASSUME l \in open, l \notin missed, Follower(l), NEW k \in KeysOf(l)
                 PROVE  /\ Told(l) => Will(EventsOf(l), AgeOf(l), Content(l), store, k)
                        /\ Recorded(l) =>
                              \/ Will(events[l], AgeOf(l), Content(l), baseline[l], k)
                              \/ Stage(l) = "done" /\ l \notin owed
                              \/ Fresh(l) /\ Differ(baseline[l], store, k)
    BY <1>1 DEF FollowAt, Untouched
  <2> QED BY <2>1 DEF ContentAt, FollowAt
<1> QED BY <1>2, <1>3, <1>4 DEF ContentAt

(* A broadcast begins: the events lead to the baseline, which is the store
   that was, unless the webview is owed something. *)
LEMMA StartContent ==
    ASSUME TypeOK, NEW l \in Labels, ContentAt(l), ~Locked,
           l \in open => Stage(l)' = "awaits",
           open' = open, missed' = missed, events' = events, answer' = answer, copy' = copy,
           phase' = phase, resync' = resync,
           \/ baseline'[l] = None
           \/ baseline'[l] = baseline[l] /\ subs'[l] = subs[l]
    PROVE  ContentAt(l)'
<1>1. Stage(l) = "done" /\ ~Fresh(l) /\ EventsOf(l) = events[l]
  BY StageValues DEF EventsOf
<1>2. (Follower(l)' <=> Follower(l)) /\ Content(l)' = Content(l) /\ AgeOf(l)' = AgeOf(l)
  BY DEF Follower, Content, AgeOf
<1>3. l \in open => ~Told(l)'
  BY DEF Told
<1>4. Recorded(l)' /\ l \in open =>
         /\ Recorded(l) /\ baseline'[l] = baseline[l] /\ KeysOf(l)' = KeysOf(l)
         /\ baseline[l] # None
  BY <1>1 DEF Recorded, KeysOf
<1>5. BaselineAt(l)'
  BY DEF BaselineAt
<1>6. EventsAt(l)'
  BY <1>3, <1>4 DEF ContentAt, EventsAt
<1>7. FollowAt(l)'
  <2>1. SUFFICES ASSUME l \in open, l \notin missed, Follower(l), Recorded(l)',
                        NEW k \in KeysOf(l)
                 PROVE  Will(events[l], AgeOf(l), Content(l), baseline[l], k)
    BY <1>2, <1>3, <1>4 DEF FollowAt
  <2>2. CASE l \in owed
    BY <1>1, <1>4, <2>1, <2>2 DEF ContentAt, FollowAt
  <2>3. CASE l \notin owed
    <3>1. baseline[l] = View(l, store)
      BY <1>1, <1>4, <2>1, <2>3 DEF ContentAt, BaselineAt
    <3>2. ~Differ(baseline[l], store, k)
      BY <3>1, PickAgrees DEF View
    <3>3. Will(events[l], AgeOf(l), Content(l), store, k)
      BY <1>1, <2>1, <2>3 DEF ContentAt, FollowAt, Told
    <3> QED BY <3>2, <3>3, SameContent
  <2> QED BY <2>2, <2>3
<1> QED BY <1>5, <1>6, <1>7 DEF ContentAt

(* The update of the webview whose turn it is tells what its baseline lacks. *)
LEMMA ComputeContent ==
    ASSUME TypeOK, TurnInv, AnswerInv, ClientInv, NEW l \in Labels, ContentAt(l),
           ComputeUpdate(l)
    PROVE  ContentAt(l)'
<1> DEFINE u == Outcome(l, Scoped(l))
<1>1. /\ Locked /\ broadcast.now = None /\ l \in broadcast.todo
      /\ Scoped(l) \in States /\ NewEvent(l) \in Events
      /\ missed' = IF l \in open THEN missed ELSE missed \cup {l}
      /\ UNCHANGED <<store, changes, subscribes, open, subs, baseline, events, phase, resync,
                     answer, copy>>
  BY ComputeIs
<1>2. Stage(l) = "awaits" /\ EventsOf(l) = events[l] /\ events[l] \in Seq(Events)
  BY <1>1 DEF Stage, HasTurn, EventsOf, TypeOK
<1>3. Scoped(l) = View(l, store)
  BY <1>1 DEF Scoped, TurnInv
<1>4. /\ Follower(l)' <=> Follower(l)
      /\ Content(l)' = Content(l) /\ AgeOf(l)' = AgeOf(l)
      /\ KeysOf(l)' = KeysOf(l) /\ View(l, store)' = View(l, store)
  BY <1>1 DEF Follower, Content, AgeOf, KeysOf, View
<1>5. \A k \in KeysOf(l) : k \in Keys
  BY DEF KeysOf, TypeOK
<1>6. \A k \in KeysOf(l) : ~Differ(Scoped(l), store, k)
  BY <1>3, PickAgrees DEF View
<1>7. Recorded(l) <=> baseline[l] # None
  BY <1>2 DEF Recorded
<1>8. CASE Unchanged(u)
  <2>1. broadcast' = Done(l) /\ owed' = owed \ {l}
    BY <1>8, ComputeIs
  <2>2. Stage(l)' = "done" /\ EventsOf(l)' = events[l] /\ Told(l)'
    BY <1>1, <2>1, StageDone DEF EventsOf, Told
  <2>3. baseline[l] # None /\ IsEmpty(Delta(baseline[l], Scoped(l), Keys))
    BY <1>8 DEF Unchanged, Outcome
  <2>4. baseline[l] = Scoped(l)
    BY <1>1, <2>3, UnchangedIsEqual DEF TypeOK
  <2>5. BaselineAt(l)'
    BY <1>1, <1>3, <1>4, <2>4 DEF BaselineAt
  <2>6. EventsAt(l)'
    <3>1. SUFFICES ASSUME l \in open, NEW k \in KeysOf(l)
                   PROVE  /\ Corrected(events[l], store, k)
                          /\ Corrected(events[l], baseline[l], k)
      BY <1>1, <1>4, <2>2 DEF EventsAt
    <3>2. Corrected(events[l], baseline[l], k)
      BY <1>7, <2>3, <3>1 DEF ContentAt, EventsAt
    <3> QED BY <1>6, <2>4, <3>2, SameContent
  <2>7. FollowAt(l)'
    <3>1. SUFFICES ASSUME l \in open, l \notin missed, Follower(l), NEW k \in KeysOf(l)
                   PROVE  Will(events[l], AgeOf(l), Content(l), store, k)
      BY <1>1, <1>4, <2>1, <2>2 DEF FollowAt
    <3>2. ~Differ(baseline[l], store, k)
      BY <1>6, <2>4
    <3>3. Will(events[l], AgeOf(l), Content(l), baseline[l], k)
      BY <1>2, <1>7, <2>3, <3>1, <3>2 DEF ContentAt, FollowAt
    <3> QED BY <3>2, <3>3, SameContent
  <2> QED BY <2>5, <2>6, <2>7 DEF ContentAt
<1>9. CASE ~Unchanged(u)
  <2>1. /\ owed' = owed
        /\ Stage(l)' = "emit" /\ (Fresh(l)' <=> Fresh(l)) /\ Event' = NewEvent(l)
    BY <1>9, ComputeIs, StageComputed
  <2>2. /\ Told(l)' /\ EventsOf(l)' = Append(events[l], NewEvent(l))
        /\ Recorded(l)' <=> Recorded(l)
    BY <1>1, <1>7, <2>1 DEF EventsOf, Told, Recorded
  <2>3. NewEvent(l).update = u /\ NewEvent(l).age = Age /\ Age \in Nat /\ Age > 0
    BY <1>1, AgeType DEF NewEvent, TurnInv
  <2>4. ASSUME NEW k \in KeysOf(l)
        PROVE  IF baseline[l] = None \/ Differ(baseline[l], store, k)
               THEN Tells(u, store, k) ELSE Silent(u, k)
    <3>1. CASE baseline[l] = None
      <4>1. u = [kind |-> "full", state |-> Scoped(l)]
        BY <3>1 DEF Outcome
      <4> QED BY <1>6, <3>1, <4>1 DEF Tells
    <3>2. CASE baseline[l] # None
      <4>1. u = [kind |-> "delta", state |-> Delta(baseline[l], Scoped(l), Keys)]
        BY <3>2 DEF Outcome
      <4>2. IF Differ(baseline[l], Scoped(l), k) THEN Tells(u, Scoped(l), k) ELSE Silent(u, k)
        BY <1>5, <4>1, DeltaTells
      <4>3. Differ(baseline[l], Scoped(l), k) <=> Differ(baseline[l], store, k)
        BY <1>6, AgreeTrans
      <4>4. Tells(u, Scoped(l), k) <=> Tells(u, store, k)
        BY <1>6, TellsSame
      <4> HIDE DEF u
      <4> QED BY <3>2, <4>2, <4>3, <4>4
    <3> QED BY <3>1, <3>2
  <2> HIDE DEF u
  <2>5. BaselineAt(l)'
    BY <2>1 DEF BaselineAt
  <2>6. EventsAt(l)'
    <3>1. SUFFICES ASSUME l \in open, NEW k \in KeysOf(l)
                   PROVE  /\ Corrected(Append(events[l], NewEvent(l)), store, k)
                          /\ Recorded(l) => Corrected(events[l], baseline[l], k)
      BY <1>1, <1>4, <2>2 DEF EventsAt
    <3>2. Recorded(l) => Corrected(events[l], baseline[l], k)
      BY <3>1 DEF ContentAt, EventsAt
    <3>3. \/ Tells(u, store, k)
          \/ Silent(u, k) /\ Corrected(events[l], store, k)
      <4>1. CASE baseline[l] = None \/ Differ(baseline[l], store, k)
        BY <2>4, <4>1
      <4>2. CASE ~(baseline[l] = None \/ Differ(baseline[l], store, k))
        BY <1>7, <2>4, <3>2, <4>2, SameContent
      <4> QED BY <4>1, <4>2
    <3> QED BY <1>1, <1>2, <2>3, <3>2, <3>3, CorrectedAppend
  <2>7. FollowAt(l)'
    <3>1. SUFFICES ASSUME l \in open, l \notin missed, Follower(l), NEW k \in KeysOf(l)
                   PROVE  /\ Will(Append(events[l], NewEvent(l)), AgeOf(l), Content(l), store, k)
                          /\ Recorded(l) =>
                                \/ Will(events[l], AgeOf(l), Content(l), baseline[l], k)
                                \/ Fresh(l) /\ Differ(baseline[l], store, k)
      BY <1>1, <1>4, <2>1, <2>2 DEF FollowAt
    <3>2. Recorded(l) => \/ Will(events[l], AgeOf(l), Content(l), baseline[l], k)
                         \/ Fresh(l) /\ Differ(baseline[l], store, k)
      BY <1>2, <3>1 DEF ContentAt, FollowAt
    <3>3. AgeOf(l) \in Nat /\ AgeOf(l) <= Age
      BY <2>3 DEF AgeOf, TypeOK, Answers, AnswerInv, AnswerAt
    <3>4. CASE AgeOf(l) = Age
      <4>1. ~Differ(Content(l), store, k)
        BY <2>3, <3>4 DEF AgeOf, Content, AnswerInv, AnswerAt
      <4> QED BY <3>2, <4>1 DEF Will
    <3>5. CASE AgeOf(l) # Age
      <4>1. AgeOf(l) < NewEvent(l).age
        BY <2>3, <3>3, <3>5
      <4>2. \/ Tells(u, store, k)
            \/ Will(events[l], AgeOf(l), Content(l), store, k)
        <5>1. CASE baseline[l] = None \/ Differ(baseline[l], store, k)
          BY <2>4, <5>1
        <5>2. CASE ~(baseline[l] = None \/ Differ(baseline[l], store, k))
          BY <1>7, <3>2, <5>2, SameContent
        <5> QED BY <5>1, <5>2
      <4> QED BY <1>1, <1>2, <2>3, <3>2, <3>3, <4>1, <4>2, WillAppend
    <3> QED BY <3>4, <3>5
  <2> QED BY <2>5, <2>6, <2>7 DEF ContentAt
<1> QED BY <1>8, <1>9

(* The event is on its way, or nobody listens. *)
LEMMA EmitContent ==
    ASSUME TypeOK, TurnInv, AnswerInv, ClientInv, NEW l \in Labels, ContentAt(l), Emit, HasTurn(l)
    PROVE  ContentAt(l)'
<1>1. /\ Locked /\ broadcast.now # None /\ broadcast.now.label = l
      /\ broadcast.now.stage = "emit"
      /\ broadcast' = [broadcast EXCEPT !.now.stage = "record"]
      /\ UNCHANGED <<store, open, subs, baseline, phase, resync, answer, copy, owed>>
      /\ IF Listening(l)
         THEN events' = [events EXCEPT ![l] = Append(@, Event)] /\ missed' = missed
         ELSE /\ events' = events
              /\ missed' = IF answer[l] # None /\ Event.age > answer[l].age
                           THEN missed \cup {l} ELSE missed
  BY DEF Emit, Drop, Event, HasTurn, perLabel, client
<1>2. /\ Stage(l) = "emit" /\ Stage(l)' = "record"
  BY <1>1, StageTurned DEF Stage, HasTurn
<1>3. /\ Follower(l)' <=> Follower(l)
      /\ Content(l)' = Content(l) /\ AgeOf(l)' = AgeOf(l)
      /\ KeysOf(l)' = KeysOf(l)
  BY <1>1 DEF Follower, Content, AgeOf, KeysOf
<1>4. /\ EventsOf(l) = Append(events[l], Event) /\ EventsOf(l)' = events'[l]
      /\ Told(l) /\ Told(l)' /\ ~Recorded(l)'
  BY <1>2 DEF EventsOf, Told, Recorded
<1>5. BaselineAt(l)'
  BY <1>2 DEF BaselineAt
<1>6. CASE Listening(l)
  <2>1. events'[l] = Append(events[l], Event) /\ missed' = missed
    BY <1>1, <1>6 DEF TypeOK
  <2>2. EventsAt(l)'
    BY <1>1, <1>3, <1>4, <2>1 DEF ContentAt, EventsAt
  <2>3. FollowAt(l)'
    BY <1>1, <1>3, <1>4, <2>1 DEF ContentAt, FollowAt
  <2> QED BY <1>5, <2>2, <2>3 DEF ContentAt
<1>7. CASE ~Listening(l)
  <2>1. events'[l] = <<>>
    BY <1>1, <1>7 DEF ClientInv, ClientAt
  <2>2. EventsAt(l)'
    BY <1>4, <2>1, CorrectedNone DEF EventsAt
  <2>3. FollowAt(l)'
    <3>1. SUFFICES ASSUME l \notin missed', Follower(l), NEW k \in KeysOf(l)
                   PROVE  ~Differ(Content(l), store, k)
      BY <1>1, <1>3, <1>4, <2>1 DEF FollowAt, Will
    <3>2. answer[l] # None
      BY <1>7, <3>1 DEF Follower, Listening
    <3>3. ~(Event.age > answer[l].age)
      BY <1>1, <1>7, <3>1, <3>2
    <3>4. Event.age = Age /\ Age \in Nat /\ answer[l].age \in Nat /\ answer[l].age <= Age
      BY <1>1, <3>2, AgeType DEF TurnInv, AnswerInv, AnswerAt, TypeOK, Answers
    <3>5. answer[l].age = Age
      BY <3>3, <3>4
    <3> QED BY <3>1, <3>2, <3>5 DEF AnswerInv, AnswerAt, Content
  <2> QED BY <1>5, <2>2, <2>3 DEF ContentAt
<1> QED BY <1>6, <1>7

(* Those that are left out are owed the change, and those ahead miss it. *)
LEMMA EmitFailsContent ==
    ASSUME TypeOK, TurnInv, NEW l \in Labels, ContentAt(l), EmitFails
    PROVE  ContentAt(l)'
<1>1. /\ Locked /\ broadcast.now # None /\ broadcast.now.stage = "emit"
      /\ broadcast' = None
      /\ owed' = owed \cup broadcast.todo
      /\ missed' = missed \cup {m \in broadcast.fresh \cap broadcast.todo : baseline[m] # None}
      /\ UNCHANGED <<store, open, subs, baseline, events, phase, resync, answer, copy>>
  BY DEF EmitFails, perLabel, client
<1>2. Stage(l)' = "done" /\ EventsOf(l)' = events[l]
  BY <1>1, StageEnded DEF EventsOf
<1>3. /\ Follower(l)' <=> Follower(l)
      /\ Content(l)' = Content(l) /\ AgeOf(l)' = AgeOf(l)
      /\ KeysOf(l)' = KeysOf(l) /\ View(l, store)' = View(l, store)
  BY <1>1 DEF Follower, Content, AgeOf, KeysOf, View
<1>4. CASE l \in broadcast.todo
  <2>1. Stage(l) \in {"emit", "awaits"}
    BY <1>1, <1>4 DEF Stage, HasTurn
  <2>2. /\ l \in owed' /\ ~Told(l)' /\ (Recorded(l)' <=> Recorded(l))
        /\ Recorded(l) => baseline[l] # None
    BY <1>1, <1>2, <1>4, <2>1 DEF Told, Recorded
  <2>3. BaselineAt(l)'
    BY <2>2 DEF BaselineAt
  <2>4. EventsAt(l)'
    BY <1>1, <1>3, <2>2 DEF ContentAt, EventsAt
  <2>5. FollowAt(l)'
    <3>1. SUFFICES ASSUME l \in open, l \notin missed', Follower(l), Recorded(l),
                          NEW k \in KeysOf(l)
                   PROVE  Will(events[l], AgeOf(l), Content(l), baseline[l], k)
      BY <1>1, <1>3, <2>2 DEF FollowAt
    <3>2. ~Fresh(l) /\ l \notin missed
      BY <1>1, <1>4, <2>2, <3>1 DEF Fresh
    <3> QED BY <2>1, <3>1, <3>2 DEF ContentAt, FollowAt
  <2> QED BY <2>3, <2>4, <2>5 DEF ContentAt
<1>5. CASE l \notin broadcast.todo
  <2>1. Stage(l) = "done" /\ EventsOf(l) = events[l] /\ ~Fresh(l)
    BY <1>1, <1>5 DEF Stage, HasTurn, TurnInv, EventsOf, Fresh
  <2>2. /\ Told(l)' <=> Told(l)
        /\ Recorded(l)' <=> Recorded(l)
        /\ l \in owed' <=> l \in owed
        /\ l \in missed' <=> l \in missed
    BY <1>1, <1>2, <1>5, <2>1 DEF Told, Recorded
  <2>3. BaselineAt(l)'
    BY <1>1, <1>3, <2>1, <2>2 DEF ContentAt, BaselineAt
  <2>4. EventsAt(l)'
    BY <1>1, <1>2, <1>3, <2>1, <2>2 DEF ContentAt, EventsAt
  <2>5. FollowAt(l)'
    <3>1. SUFFICES ASSUME l \in open, l \notin missed, Follower(l), NEW k \in KeysOf(l)
                   PROVE  /\ Told(l) => Will(events[l], AgeOf(l), Content(l), store, k)
                          /\ Recorded(l) =>
                                \/ Will(events[l], AgeOf(l), Content(l), baseline[l], k)
                                \/ l \notin owed
      BY <1>1, <1>2, <1>3, <2>2 DEF FollowAt
    <3> QED BY <2>1, <3>1 DEF ContentAt, FollowAt
  <2> QED BY <2>3, <2>4, <2>5 DEF ContentAt
<1> QED BY <1>4, <1>5

(* What was sent is the baseline. *)
LEMMA RecordContent ==
    ASSUME TypeOK, TurnInv, NEW l \in Labels, ContentAt(l), RecordBaseline, HasTurn(l)
    PROVE  ContentAt(l)'
<1>1. /\ Locked /\ broadcast.now # None /\ broadcast.now.label = l
      /\ broadcast.now.stage = "record"
      /\ broadcast' = [broadcast EXCEPT !.now.stage = "note"]
      /\ baseline' = [baseline EXCEPT ![l] = broadcast.now.scoped]
      /\ missed' = IF l \in open THEN missed ELSE missed \cup {l}
      /\ UNCHANGED <<store, open, subs, events, phase, resync, answer, copy>>
  BY DEF RecordBaseline, Record, HasTurn, client
<1>2. Stage(l) = "record" /\ Stage(l)' = "note"
  BY <1>1, StageTurned DEF Stage, HasTurn
<1>3. /\ Follower(l)' <=> Follower(l)
      /\ Content(l)' = Content(l) /\ AgeOf(l)' = AgeOf(l)
      /\ KeysOf(l)' = KeysOf(l) /\ View(l, store)' = View(l, store)
  BY <1>1 DEF Follower, Content, AgeOf, KeysOf, View
<1>4. /\ EventsOf(l)' = EventsOf(l)
      /\ Told(l) /\ Told(l)' /\ ~Recorded(l)'
  BY <1>1, <1>2 DEF EventsOf, Told, Recorded
<1>5. BaselineAt(l)'
  <2>1. l \in open => baseline'[l] = View(l, store)
    BY <1>1 DEF TurnInv, TypeOK
  <2> QED BY <1>1, <1>3, <2>1 DEF BaselineAt
<1>6. EventsAt(l)'
  BY <1>1, <1>3, <1>4 DEF ContentAt, EventsAt
<1>7. FollowAt(l)'
  BY <1>1, <1>3, <1>4 DEF ContentAt, FollowAt
<1> QED BY <1>5, <1>6, <1>7 DEF ContentAt

(* The turn is over: the baseline is the store, or has been forgotten. *)
LEMMA NoteContent ==
    ASSUME TypeOK, TurnInv, NEW l \in Labels, ContentAt(l), RecordPending, HasTurn(l)
    PROVE  ContentAt(l)'
<1>1. /\ Locked /\ broadcast.now # None /\ broadcast.now.label = l
      /\ broadcast.now.stage = "note" /\ broadcast' = Done(l)
      /\ missed' = IF l \in open THEN missed ELSE missed \cup {l}
      /\ UNCHANGED <<store, open, subs, baseline, events, phase, resync, answer, copy, owed>>
  BY DEF RecordPending, HasTurn, client
<1>2. Stage(l) = "note" /\ Stage(l)' = "done" /\ l \notin owed
  BY <1>1, StageDone DEF Stage, HasTurn, TurnInv
<1>3. /\ Follower(l)' <=> Follower(l)
      /\ Content(l)' = Content(l) /\ AgeOf(l)' = AgeOf(l)
      /\ KeysOf(l)' = KeysOf(l) /\ View(l, store)' = View(l, store)
  BY <1>1 DEF Follower, Content, AgeOf, KeysOf, View
<1>4. /\ EventsOf(l)' = EventsOf(l) /\ EventsOf(l) = events[l]
      /\ Told(l) /\ Told(l)'
      /\ Recorded(l)' => baseline[l] # None
  BY <1>1, <1>2 DEF EventsOf, Told, Recorded
<1>5. BaselineAt(l)'
  BY <1>1, <1>2, <1>3 DEF ContentAt, BaselineAt
<1>6. EventsAt(l)'
  <2>1. SUFFICES ASSUME l \in open, NEW k \in KeysOf(l)
                 PROVE  /\ Corrected(events[l], store, k)
                        /\ Recorded(l)' => Corrected(events[l], baseline[l], k)
    BY <1>1, <1>3, <1>4 DEF EventsAt
  <2>2. Corrected(events[l], store, k)
    BY <1>4, <2>1 DEF ContentAt, EventsAt
  <2>3. ASSUME Recorded(l)' PROVE ~Differ(baseline[l], store, k)
    <3>1. baseline[l] = View(l, store)
      BY <1>2, <1>4, <2>1, <2>3 DEF ContentAt, BaselineAt
    <3> QED BY <3>1, PickAgrees DEF View
  <2> QED BY <2>2, <2>3, SameContent
<1>7. FollowAt(l)'
  BY <1>1, <1>2, <1>3, <1>4 DEF ContentAt, FollowAt
<1> QED BY <1>5, <1>6, <1>7 DEF ContentAt

(* What the content of a webview is about, but for its client. *)
Kept(l) ==
    /\ store' = store /\ subs'[l] = subs[l] /\ baseline'[l] = baseline[l]
    /\ l \in open' <=> l \in open
    /\ l \in owed' <=> l \in owed
    /\ Stage(l)' = Stage(l) /\ (Fresh(l) => Fresh(l)') /\ Event' = Event

LEMMA KeptFacts ==
    ASSUME NEW l, Kept(l)
    PROVE  /\ (Told(l)' <=> Told(l)) /\ (Recorded(l)' <=> Recorded(l))
           /\ KeysOf(l)' = KeysOf(l) /\ View(l, store)' = View(l, store)
           /\ BaselineAt(l) => BaselineAt(l)'
           /\ events'[l] = events[l] => EventsOf(l)' = EventsOf(l)
BY DEF Kept, Told, Recorded, KeysOf, View, BaselineAt, EventsOf

LEMMA KeptEvents ==
    ASSUME NEW l, Kept(l), events'[l] = events[l], EventsAt(l)
    PROVE  EventsAt(l)'
<1>1. /\ (Told(l)' <=> Told(l)) /\ (Recorded(l)' <=> Recorded(l))
      /\ KeysOf(l)' = KeysOf(l) /\ EventsOf(l)' = EventsOf(l)
  BY KeptFacts
<1> QED BY <1>1 DEF EventsAt, Kept

(* The client keeps what it follows, or follows nothing any more. *)
LEMMA KeptContent ==
    ASSUME NEW l, Kept(l), events'[l] = events[l], ContentAt(l),
           Follower(l)' /\ l \notin missed'
              => /\ Follower(l) /\ l \notin missed
                 /\ Content(l)' = Content(l) /\ AgeOf(l)' = AgeOf(l)
    PROVE  ContentAt(l)'
<1>1. /\ (Told(l)' <=> Told(l)) /\ (Recorded(l)' <=> Recorded(l))
      /\ KeysOf(l)' = KeysOf(l) /\ EventsOf(l)' = EventsOf(l)
  BY KeptFacts
<1>2. FollowAt(l)'
  BY <1>1 DEF ContentAt, FollowAt, Kept
<1> QED BY <1>2, KeptFacts, KeptEvents DEF ContentAt

(* An answer becomes the copy: events of any age will be applied to it. *)
LEMMA YoungerContent ==
    ASSUME TypeOK, NEW l \in Labels, Kept(l), events'[l] = events[l], ContentAt(l),
           answer[l] # None, answer'[l] = None, copy'[l] = answer[l].state,
           missed' = missed
    PROVE  ContentAt(l)'
<1>1. /\ (Told(l)' <=> Told(l)) /\ (Recorded(l)' <=> Recorded(l))
      /\ KeysOf(l)' = KeysOf(l) /\ EventsOf(l)' = EventsOf(l)
  BY KeptFacts
<1>2. /\ Follower(l) /\ Content(l)' = Content(l) /\ AgeOf(l)' = 0 /\ AgeOf(l) \in Nat
  BY DEF Follower, Content, AgeOf, TypeOK, Answers
<1>3. events[l] \in Seq(Events) /\ EventsOf(l) \in Seq(Events)
  <2>1. Stage(l) = "emit" => Event \in Events
    BY StageValues, BroadcastType DEF HasTurn, Event, Turns
  <2> QED BY <2>1, AppendFacts DEF EventsOf, TypeOK
<1>4. FollowAt(l)'
  <2>1. SUFFICES ASSUME l \in open, l \notin missed, NEW k \in KeysOf(l)
                 PROVE  /\ Told(l) => Will(EventsOf(l), 0, Content(l), store, k)
                        /\ Recorded(l) =>
                              \/ Will(events[l], 0, Content(l), baseline[l], k)
                              \/ Stage(l) = "done" /\ l \notin owed
                              \/ Fresh(l) /\ Differ(baseline[l], store, k)
    BY <1>1, <1>2 DEF FollowAt, Kept
  <2>2. /\ Told(l) => Will(EventsOf(l), AgeOf(l), Content(l), store, k)
        /\ Recorded(l) =>
              \/ Will(events[l], AgeOf(l), Content(l), baseline[l], k)
              \/ Stage(l) = "done" /\ l \notin owed
              \/ Fresh(l) /\ Differ(baseline[l], store, k)
    BY <1>2, <2>1 DEF ContentAt, FollowAt
  <2> QED BY <1>2, <1>3, <2>2, WillYounger
<1> QED BY <1>4, KeptFacts, KeptEvents DEF ContentAt

(* Without a client nothing is followed, and nothing but the event whose turn
   it is on its way. *)
LEMMA GoneContent ==
    ASSUME TypeOK, NEW l \in Labels, Kept(l), Gone(l), ContentAt(l)
    PROVE  ContentAt(l)'
<1>1. /\ (Told(l)' <=> Told(l)) /\ (Recorded(l)' <=> Recorded(l))
      /\ KeysOf(l)' = KeysOf(l)
  BY KeptFacts
<1>2. events'[l] = <<>> /\ ~Follower(l)'
  BY GoneIs DEF Follower
<1>3. FollowAt(l)'
  BY <1>2 DEF FollowAt
<1>4. EventsAt(l)'
  <2>1. SUFFICES ASSUME l \in open, NEW k \in KeysOf(l)
                 PROVE  /\ Told(l) => Corrected(EventsOf(l)', store, k)
                        /\ Corrected(<<>>, baseline[l], k)
    BY <1>1, <1>2 DEF EventsAt, Kept
  <2>2. CASE Stage(l) = "emit"
    <3>1. PICK e \in Events : e = Event
      BY <2>2, StageValues, BroadcastType DEF HasTurn, Event, Turns
    <3>2. EventsOf(l) = Append(events[l], e) /\ EventsOf(l)' = Append(<<>>, e) /\ Told(l)
      BY <1>2, <2>2, <3>1 DEF EventsOf, Kept, Told
    <3>3. Corrected(Append(events[l], e), store, k)
      BY <2>1, <3>2 DEF ContentAt, EventsAt
    <3> QED BY <3>2, <3>3, CorrectedLast, CorrectedNone DEF TypeOK
  <2>3. CASE Stage(l) # "emit"
    BY <1>2, <2>3, CorrectedNone DEF EventsOf, Kept
  <2> QED BY <2>2, <2>3
<1> QED BY <1>3, <1>4, KeptFacts DEF ContentAt

(* A snapshot has the store, which the broadcast under way brings to the
   baseline, unless its emission fails. *)
LEMMA ReadContent ==
    ASSUME TypeOK, TurnInv, NEW l \in Labels, ContentAt(l), Kept(l), events'[l] = events[l],
           answer'[l] # None,
           \A k \in KeysOf(l) : ~Differ(answer'[l].state, store, k),
           Behind(l) => l \in missed',
           Stage(l) \in {"awaits", "emit"} => Fresh(l)'
    PROVE  ContentAt(l)'
<1>1. /\ (Told(l)' <=> Told(l)) /\ (Recorded(l)' <=> Recorded(l))
      /\ KeysOf(l)' = KeysOf(l) /\ EventsOf(l)' = EventsOf(l)
  BY KeptFacts
<1>2. Content(l)' = answer'[l].state
  BY DEF Content
<1>3. FollowAt(l)'
  <2>1. SUFFICES ASSUME l \in open, l \notin missed', NEW k \in KeysOf(l)
                 PROVE  /\ Will(EventsOf(l), AgeOf(l)', answer'[l].state, store, k)
                        /\ Recorded(l) =>
                              \/ Will(events[l], AgeOf(l)', answer'[l].state, baseline[l], k)
                              \/ Stage(l) = "done" /\ l \notin owed
                              \/ Fresh(l)' /\ Differ(baseline[l], store, k)
    BY <1>1, <1>2 DEF FollowAt, Kept
  <2>2. ~Differ(answer'[l].state, store, k)
    BY <2>1
  <2>3. Will(EventsOf(l), AgeOf(l)', answer'[l].state, store, k)
    BY <2>2 DEF Will
  <2>4. ASSUME Recorded(l), ~(Stage(l) = "done" /\ l \notin owed),
               ~Differ(baseline[l], store, k)
        PROVE  Will(events[l], AgeOf(l)', answer'[l].state, baseline[l], k)
    <3>1. ~Differ(answer'[l].state, baseline[l], k)
      BY <2>2, <2>4, AgreeTrans
    <3> QED BY <3>1 DEF Will
  <2>5. ASSUME Recorded(l), ~(Stage(l) = "done" /\ l \notin owed)
        PROVE  Fresh(l)'
    BY <2>1, <2>5 DEF Recorded, Behind
  <2> QED BY <2>3, <2>4, <2>5
<1> QED BY <1>3, KeptFacts, KeptEvents DEF ContentAt

LEMMA ForgetContent ==
    ASSUME TypeOK, NEW l \in Labels, ContentAt(l), ResyncForget(l)
    PROVE  ContentAt(l)'
<1>1. /\ baseline'[l] = None
      /\ UNCHANGED <<store, open, subs, events, phase, answer, copy, owed, missed, broadcast>>
      /\ resync[l] = "dropped" /\ resync'[l] = "forgotten"
  BY DEF ResyncForget, Forget, Record, TypeOK, client, ghosts
<1>2. Stage(l)' = Stage(l) /\ Event' = Event
  BY <1>1, StageSame
<1>3. /\ (Follower(l)' => Follower(l)) /\ Content(l)' = Content(l) /\ AgeOf(l)' = AgeOf(l)
      /\ KeysOf(l)' = KeysOf(l) /\ EventsOf(l)' = EventsOf(l)
      /\ (Told(l)' <=> Told(l)) /\ ~Recorded(l)'
  BY <1>1, <1>2 DEF Follower, Content, AgeOf, KeysOf, EventsOf, Told, Recorded
<1>4. BaselineAt(l)'
  BY <1>1 DEF BaselineAt
<1>5. EventsAt(l)'
  BY <1>1, <1>3 DEF ContentAt, EventsAt
<1>6. FollowAt(l)'
  BY <1>1, <1>3 DEF ContentAt, FollowAt
<1> QED BY <1>4, <1>5, <1>6 DEF ContentAt

(* An event is received: those that remain are as corrected as before. *)
LEMMA ReceivedEvents ==
    ASSUME TypeOK, NEW l \in Labels, Kept(l), ContentAt(l), events[l] # <<>>,
           events'[l] = Tail(events[l])
    PROVE  /\ BaselineAt(l)' /\ EventsAt(l)'
           /\ EventsOf(l) \in Seq(Events) /\ EventsOf(l) # <<>>
           /\ Head(EventsOf(l)) = Head(events[l])
           /\ EventsOf(l)' = Tail(EventsOf(l))
<1>1. /\ (Told(l)' <=> Told(l)) /\ (Recorded(l)' <=> Recorded(l))
      /\ KeysOf(l)' = KeysOf(l)
  BY KeptFacts
<1>2. events[l] \in Seq(Events)
  BY DEF TypeOK
<1>3. /\ EventsOf(l) \in Seq(Events) /\ EventsOf(l) # <<>>
      /\ Head(EventsOf(l)) = Head(events[l])
      /\ EventsOf(l)' = Tail(EventsOf(l))
  <2>1. CASE Stage(l) = "emit"
    <3>1. PICK e \in Events : e = Event
      BY <2>1, StageValues, BroadcastType DEF HasTurn, Event, Turns
    <3>2. EventsOf(l) = Append(events[l], e) /\ EventsOf(l)' = Append(Tail(events[l]), e)
      BY <2>1, <3>1 DEF EventsOf, Kept
    <3> QED BY <1>2, <3>2, TailOfAppend, AppendFacts
  <2>2. CASE Stage(l) # "emit"
    BY <1>2, <2>2 DEF EventsOf, Kept
  <2> QED BY <2>1, <2>2
<1>4. EventsAt(l)'
  <2>1. SUFFICES ASSUME l \in open, NEW k \in KeysOf(l)
                 PROVE  /\ Told(l) => Corrected(Tail(EventsOf(l)), store, k)
                        /\ Recorded(l) => Corrected(Tail(events[l]), baseline[l], k)
    BY <1>1, <1>3 DEF EventsAt, Kept
  <2>2. /\ Told(l) => Corrected(EventsOf(l), store, k)
        /\ Recorded(l) => Corrected(events[l], baseline[l], k)
    BY <2>1 DEF ContentAt, EventsAt
  <2> QED BY <1>2, <1>3, <2>2, CorrectedTail
<1> QED BY <1>3, <1>4, KeptFacts DEF ContentAt

(* What is dropped was included in the answer that is awaited, or missed. *)
LEMMA DroppedContent ==
    ASSUME TypeOK, ClientInv, NEW l \in Labels, Kept(l), ContentAt(l), EventDropped(l)
    PROVE  ContentAt(l)'
<1>1. /\ events[l] # <<>> /\ events'[l] = Tail(events[l]) /\ resync[l] # "idle"
      /\ UNCHANGED <<phase, resync, answer, copy>>
      /\ missed' = IF answer[l] # None /\ Head(events[l]).age > answer[l].age
                   THEN missed \cup {l} ELSE missed
  BY DEF EventDropped, Drop, TypeOK, client
<1>2. /\ BaselineAt(l)' /\ EventsAt(l)'
      /\ EventsOf(l) \in Seq(Events) /\ EventsOf(l) # <<>>
      /\ Head(EventsOf(l)) = Head(events[l])
      /\ EventsOf(l)' = Tail(EventsOf(l))
  BY <1>1, ReceivedEvents
<1>3. /\ (Told(l)' <=> Told(l)) /\ (Recorded(l)' <=> Recorded(l)) /\ KeysOf(l)' = KeysOf(l)
      /\ (Follower(l)' <=> Follower(l)) /\ Content(l)' = Content(l) /\ AgeOf(l)' = AgeOf(l)
  BY <1>1, KeptFacts DEF Follower, Content, AgeOf
<1>4. FollowAt(l)'
  <2>1. SUFFICES ASSUME l \in open, l \notin missed', Follower(l), NEW k \in KeysOf(l)
                 PROVE  /\ Told(l) => Will(Tail(EventsOf(l)), AgeOf(l), Content(l), store, k)
                        /\ Recorded(l) =>
                              \/ Will(Tail(events[l]), AgeOf(l), Content(l), baseline[l], k)
                              \/ Stage(l) = "done" /\ l \notin owed
                              \/ Fresh(l) /\ Differ(baseline[l], store, k)
    BY <1>1, <1>2, <1>3 DEF FollowAt, Kept
  <2>2. answer[l] # None
    BY <1>1, <2>1 DEF Follower
  <2>3. l \notin missed /\ ~(Head(events[l]).age > answer[l].age)
    BY <1>1, <2>1, <2>2
  <2>4. AgeOf(l) = answer[l].age /\ AgeOf(l) \in Nat /\ Head(events[l]).age \in Nat
        /\ events[l] \in Seq(Events)
    <3>1. events[l] \in Seq(Events)
      BY DEF TypeOK
    <3>2. Head(events[l]) \in Events
      BY <1>1, <3>1, TailFacts
    <3> QED BY <2>2, <3>1, <3>2 DEF AgeOf, TypeOK, Answers, Events
  <2>5. ~(AgeOf(l) < Head(events[l]).age)
    BY <2>3, <2>4
  <2>6. /\ Told(l) => Will(EventsOf(l), AgeOf(l), Content(l), store, k)
        /\ Recorded(l) =>
              \/ Will(events[l], AgeOf(l), Content(l), baseline[l], k)
              \/ Stage(l) = "done" /\ l \notin owed
              \/ Fresh(l) /\ Differ(baseline[l], store, k)
    BY <2>1, <2>3 DEF ContentAt, FollowAt
  <2> QED BY <1>1, <1>2, <2>4, <2>5, <2>6, WillDrop
<1> QED BY <1>2, <1>4 DEF ContentAt

(* What is applied has the value it should have, or will be corrected. *)
LEMMA AppliedContent ==
    ASSUME TypeOK, ClientInv, TurnInv, NEW l \in Labels, Kept(l), ContentAt(l), EventApplied(l)
    PROVE  ContentAt(l)'
<1> DEFINE u == Head(events[l]).update
<1>1. /\ events[l] # <<>> /\ events'[l] = Tail(events[l])
      /\ phase[l] = "live" /\ resync[l] = "idle"
      /\ UNCHANGED <<phase, resync, answer>>
      /\ copy'[l] = Merged(copy[l], u)
      /\ missed' = IF u.kind = "full" THEN missed \ {l} ELSE missed
  BY DEF EventApplied, TypeOK
<1>2. /\ BaselineAt(l)' /\ EventsAt(l)'
      /\ EventsOf(l) \in Seq(Events) /\ EventsOf(l) # <<>>
      /\ Head(EventsOf(l)) = Head(events[l])
      /\ EventsOf(l)' = Tail(EventsOf(l))
  BY <1>1, ReceivedEvents
<1>3. answer[l] = None
  BY <1>1 DEF ClientInv, ClientAt
<1>4. /\ (Told(l)' <=> Told(l)) /\ (Recorded(l)' <=> Recorded(l)) /\ KeysOf(l)' = KeysOf(l)
      /\ Follower(l) /\ AgeOf(l) = 0 /\ AgeOf(l)' = 0
      /\ Content(l) = copy[l] /\ Content(l)' = copy'[l]
  BY <1>1, <1>3, KeptFacts DEF Follower, Content, AgeOf
<1>5. events[l] \in Seq(Events) /\ \A i \in DOMAIN events[l] : 0 < events[l][i].age
  BY AgeType DEF TypeOK, ClientInv, ClientAt
<1>6. \A i \in DOMAIN EventsOf(l) : 0 < EventsOf(l)[i].age
  <2>1. CASE Stage(l) = "emit"
    <3>1. PICK e \in Events : e = Event
      BY <2>1, StageValues, BroadcastType DEF HasTurn, Event, Turns
    <3>2. EventsOf(l) = Append(events[l], e) /\ 0 < e.age
      BY <2>1, <3>1, StageValues, AgeType DEF EventsOf, TurnInv, HasTurn
    <3>3. \A n \in Nat : \A i \in 1..(n + 1) : i \in 1..n \/ i = n + 1
      OBVIOUS
    <3> QED BY <1>5, <3>2, <3>3, AppendFacts
  <2>2. CASE Stage(l) # "emit"
    BY <1>5, <2>2 DEF EventsOf
  <2> QED BY <2>1, <2>2
<1>7. FollowAt(l)'
  <2> DEFINE c == Merged(copy[l], u)
  <2>1. SUFFICES ASSUME l \in open, l \notin missed', NEW k \in KeysOf(l)
                 PROVE  /\ Told(l) => Will(Tail(EventsOf(l)), 0, c, store, k)
                        /\ Recorded(l) =>
                              \/ Will(Tail(events[l]), 0, c, baseline[l], k)
                              \/ Stage(l) = "done" /\ l \notin owed
                              \/ Fresh(l) /\ Differ(baseline[l], store, k)
    BY <1>1, <1>2, <1>4 DEF FollowAt, Kept
  <2>2. /\ Told(l) => Corrected(EventsOf(l), store, k)
        /\ Recorded(l) => Corrected(events[l], baseline[l], k)
    BY <2>1 DEF ContentAt, EventsAt
  <2>3. \/ u.kind = "full"
        \/ /\ Told(l) => Will(EventsOf(l), 0, copy[l], store, k)
           /\ Recorded(l) =>
                 \/ Will(events[l], 0, copy[l], baseline[l], k)
                 \/ Stage(l) = "done" /\ l \notin owed
                 \/ Fresh(l) /\ Differ(baseline[l], store, k)
    BY <1>1, <1>4, <2>1 DEF ContentAt, FollowAt
  <2>4. ASSUME Told(l) PROVE Will(Tail(EventsOf(l)), 0, c, store, k)
    BY <1>2, <1>6, <2>2, <2>3, <2>4, WillApply
  <2>5. ASSUME Recorded(l)
        PROVE  \/ Will(Tail(events[l]), 0, c, baseline[l], k)
               \/ Stage(l) = "done" /\ l \notin owed
               \/ Fresh(l) /\ Differ(baseline[l], store, k)
    BY <1>1, <1>5, <2>2, <2>3, <2>5, WillApply
  <2> QED BY <2>4, <2>5
<1> QED BY <1>2, <1>7 DEF ContentAt

(* A window that opens has no client yet, and is owed what its baseline lacks. *)
LEMMA OpenContent ==
    ASSUME TypeOK, TurnInv, ClientInv, NEW l \in Labels, OpenWindow(l)
    PROVE  ContentAt(l)'
<1>1. /\ l \notin open /\ (Locked => l \notin broadcast.todo)
      /\ owed' = IF baseline[l] = None THEN owed ELSE owed \cup {l}
      /\ UNCHANGED <<baseline, broadcast, events, phase, resync, answer>>
  BY DEF OpenWindow, perLabel, client
<1>2. /\ phase[l] = "none" /\ resync[l] = "idle" /\ answer[l] = None /\ events[l] = <<>>
  BY <1>1 DEF ClientInv, ClientAt, Listening, TypeOK
<1>3. Stage(l)' = "done"
  BY <1>1 DEF Stage, HasTurn, Locked, TurnInv
<1>4. BaselineAt(l)'
  BY <1>1 DEF BaselineAt
<1>5. events'[l] = <<>> /\ EventsOf(l)' = <<>>
  BY <1>1, <1>2, <1>3 DEF EventsOf
<1>6. EventsAt(l)'
  BY <1>5, CorrectedNone DEF EventsAt
<1>7. FollowAt(l)'
  BY <1>1, <1>2 DEF FollowAt, Follower
<1> QED BY <1>4, <1>6, <1>7 DEF ContentAt

LEMMA ClientContent ==
    ASSUME TypeOK, TurnInv, ClientInv, NEW l \in Labels, ContentAt(l), ClientStep(l)
    PROVE  ContentAt(l)'
<1> USE DEF bounds, perLabel, client, ghosts
<1>0. /\ store' = store /\ Stage(l)' = Stage(l) /\ (Fresh(l) => Fresh(l)') /\ Event' = Event
  BY ClientStepKeeps
<1>c. ClientAt(l)
  BY DEF ClientInv
<1>k. ASSUME subs'[l] = subs[l], baseline'[l] = baseline[l], open' = open, owed' = owed
      PROVE  Kept(l)
  BY <1>0, <1>k DEF Kept
<1>1. CASE InitialRead(l)
  <2>1. /\ Kept(l) /\ events'[l] = events[l] /\ NoteSnapshot(l)
        /\ answer'[l] = Answer(store)
        /\ Behind(l) => l \in missed'
    BY <1>k, <1>1 DEF InitialRead, TypeOK
  <2>2. answer'[l] # None /\ \A k \in KeysOf(l) : ~Differ(answer'[l].state, store, k)
    <3>1. Answer(store) \in Answers /\ Answer(store).state = store
      BY AgeType DEF Answer, Answers, TypeOK
    <3> QED BY <2>1, <3>1, NoneAssumption DEF Differ
  <2>3. Stage(l) \in {"awaits", "emit"} => Fresh(l)'
    BY <2>1, StageNoted, StageValues DEF TurnInv, HasTurn
  <2> QED BY <2>1, <2>2, <2>3, ReadContent
<1>2. CASE ResyncRead(l)
  <2>1. /\ Kept(l) /\ events'[l] = events[l] /\ NoteSnapshot(l)
        /\ answer'[l] = Answer(View(l, store))
        /\ Behind(l) => l \in missed'
    BY <1>k, <1>2 DEF ResyncRead, TypeOK
  <2>2. answer'[l] # None /\ \A k \in KeysOf(l) : ~Differ(answer'[l].state, store, k)
    <3>1. Answer(View(l, store)) \in Answers /\ Answer(View(l, store)).state = View(l, store)
      BY AgeType, ViewType DEF Answer, Answers, TypeOK
    <3> QED BY <2>1, <3>1, NoneAssumption, PickAgrees DEF View
  <2>3. Stage(l) \in {"awaits", "emit"} => Fresh(l)'
    BY <2>1, StageNoted, StageValues DEF TurnInv, HasTurn
  <2> QED BY <2>1, <2>2, <2>3, ReadContent
<1>3. CASE ResyncForget(l)
  BY <1>3, ForgetContent
<1>4. CASE ResyncDropPending(l)
  <2>1. Kept(l) /\ events' = events /\ (Follower(l)' => Follower(l))
        /\ Content(l)' = Content(l) /\ AgeOf(l)' = AgeOf(l) /\ missed' = missed
    BY <1>k, <1>4 DEF ResyncDropPending, Follower, Content, AgeOf, TypeOK
  <2> QED BY <2>1, KeptContent
<1>5. ASSUME NEW id \in acks[l], Acknowledge(l, id) PROVE ContentAt(l)'
  <2>1. Kept(l) /\ events' = events /\ (Follower(l)' => Follower(l))
        /\ Content(l)' = Content(l) /\ AgeOf(l)' = AgeOf(l) /\ missed' = missed
    BY <1>k, <1>5 DEF Acknowledge, Follower, Content, AgeOf
  <2> QED BY <2>1, KeptContent
<1>6. CASE Initialize(l)
  <2>1. Kept(l) /\ events' = events /\ phase'[l] = "probing" /\ answer'[l] = answer[l]
    BY <1>k, <1>6 DEF Initialize, TypeOK
  <2>2. answer[l] = None
    BY <1>c, <1>6 DEF Initialize, ClientAt, Listening
  <2>3. ~Follower(l)'
    BY <2>1, <2>2 DEF Follower
  <2> QED BY <2>1, <2>3, KeptContent
<1>7. CASE PublishInitial(l)
  <2>1. Kept(l) /\ events' = events /\ answer' = answer /\ missed' = missed /\ answer[l] # None
    BY <1>c, <1>k, <1>7 DEF PublishInitial, ClientAt
  <2>2. Follower(l) /\ Content(l)' = Content(l) /\ AgeOf(l)' = AgeOf(l)
    BY <2>1 DEF Follower, Content, AgeOf
  <2> QED BY <2>1, <2>2, KeptContent
<1>8. CASE Attach(l)
  <2>1. /\ Kept(l) /\ events' = events /\ answer'[l] = None /\ missed' = missed
        /\ answer[l] # None /\ copy'[l] = answer[l].state
    BY <1>c, <1>k, <1>8 DEF Attach, ClientAt, TypeOK
  <2> QED BY <2>1, YoungerContent
<1>9. CASE ResyncEnds(l)
  <2>1. Kept(l) /\ missed' = missed
    BY <1>k, <1>9 DEF ResyncEnds
  <2>2. CASE phase[l] = "closing"
    BY <1>9, <2>1, <2>2, GoneContent DEF ResyncEnds
  <2>3. CASE phase[l] # "closing"
    <3>1. /\ events' = events /\ answer'[l] = None
          /\ answer[l] # None /\ copy'[l] = answer[l].state
      BY <1>c, <1>9, <2>3 DEF ResyncEnds, ClientAt, TypeOK
    <3> QED BY <2>1, <3>1, YoungerContent
  <2> QED BY <2>2, <2>3
<1>10. CASE Destroy(l)
  <2>1. Kept(l) /\ missed' = missed
    BY <1>k, <1>10 DEF Destroy
  <2>2. CASE resync[l] = "idle"
    BY <1>10, <2>1, <2>2, GoneContent DEF Destroy
  <2>3. CASE resync[l] # "idle"
    <3>1. events' = events /\ (Follower(l)' => Follower(l))
          /\ Content(l)' = Content(l) /\ AgeOf(l)' = AgeOf(l)
      BY <1>10, <2>3 DEF Destroy, Follower, Content, AgeOf, TypeOK
    <3> QED BY <2>1, <3>1, KeptContent
  <2> QED BY <2>2, <2>3
<1>11. CASE EventDropped(l)
  <2>1. Kept(l)
    BY <1>k, <1>11 DEF EventDropped
  <2> QED BY <1>11, <2>1, DroppedContent
<1>12. CASE EventReportsGap(l)
  <2>1. Kept(l) /\ events[l] # <<>> /\ events'[l] = Tail(events[l])
        /\ answer'[l] = answer[l] /\ resync'[l] = "asked"
    BY <1>k, <1>12 DEF EventReportsGap, TypeOK
  <2>2. answer[l] = None
    BY <1>c, <1>12 DEF EventReportsGap, ClientAt
  <2>3. FollowAt(l)'
    BY <2>1, <2>2 DEF FollowAt, Follower
  <2> QED BY <2>1, <2>3, ReceivedEvents DEF ContentAt
<1>13. CASE EventApplied(l)
  <2>1. Kept(l)
    BY <1>k, <1>13 DEF EventApplied
  <2> QED BY <1>13, <2>1, AppliedContent
<1>14. CASE OpenWindow(l)
  BY <1>14, OpenContent
<1>15. CASE ReloadPage(l)
  <2>1. Kept(l) /\ Gone(l)
    BY <1>k, <1>15 DEF ReloadPage, PageGone
  <2> QED BY <2>1, GoneContent
<1>16. CASE CloseWindow(l)
  <2>1. l \notin open'
    BY <1>16 DEF CloseWindow
  <2> QED BY <2>1 DEF ContentAt, BaselineAt, EventsAt, FollowAt
<1> QED BY <1>1, <1>2, <1>3, <1>4, <1>5, <1>6, <1>7, <1>8, <1>9, <1>10, <1>11, <1>12, <1>13,
           <1>14, <1>15, <1>16 DEF ClientStep

LEMMA ContentStep ==
    ASSUME TypeOK, TurnInv, ClientInv, AnswerInv, ContentInv, Next
    PROVE  ContentInv'
<1> USE DEF bounds, perLabel, client, ghosts
<1>0. SUFFICES ASSUME NEW l \in Labels PROVE ContentAt(l)'
  BY DEF ContentInv, ContentAt, BaselineInv, EventsInv, FollowInv
<1>c. ContentAt(l)
  BY DEF ContentInv, ContentAt, BaselineInv, EventsInv, FollowInv
<1>1. CASE Dispatch
  <2>1. /\ ~Locked /\ store' \in States /\ StartBroadcast(store')
        /\ UNCHANGED <<open, subs, baseline, events, phase, resync, answer, copy, missed>>
    BY <1>1, DispatchIs
  <2>2. l \in open => Stage(l)' = "awaits"
    <3>1. PICK s \in States : s = store'
      BY <2>1
    <3> QED BY <2>1, <3>1, StageStarted
  <2> QED BY <1>c, <2>1, <2>2, StartContent
<1>2. ASSUME NEW m \in Labels, Subscribe(m) \/ Unsubscribe(m) PROVE ContentAt(l)'
  <2>1. PICK keys \in SUBSET Keys :
          /\ ~Locked /\ StartBroadcast(store)
          /\ subs' = [subs EXCEPT ![m] = keys]
          /\ baseline' = [baseline EXCEPT ![m] = None]
          /\ UNCHANGED <<store, open, events, phase, resync, answer, copy, missed>>
    BY <1>2, ChangeKeysIs
  <2>2. l \in open => Stage(l)' = "awaits"
    <3>1. store \in States
      BY DEF TypeOK
    <3> QED BY <2>1, <3>1, StageStarted
  <2>3. \/ baseline'[l] = None
        \/ baseline'[l] = baseline[l] /\ subs'[l] = subs[l]
    BY <2>1 DEF TypeOK
  <2> QED BY <1>c, <2>1, <2>2, <2>3, StartContent
<1>3. ASSUME NEW m \in Labels, ComputeUpdate(m) PROVE ContentAt(l)'
  <2>1. CASE l = m
    BY <1>3, <1>c, <2>1, ComputeContent
  <2>2. CASE l # m
    <3>1. /\ Locked /\ broadcast.now = None /\ m \in broadcast.todo
          /\ missed' = IF m \in open THEN missed ELSE missed \cup {m}
          /\ UNCHANGED <<store, open, subs, baseline, pending, events, acks, phase, resync,
                         answer, copy, lastSeq>>
      BY <1>3, ComputeIs
    <3>2. CASE Unchanged(Outcome(m, Scoped(m)))
      <4>1. broadcast' = Done(m) /\ owed' = owed \ {m} /\ seqs' = seqs
        BY <1>3, <3>2, ComputeIs
      <4>2. Stage(l)' = Stage(l) /\ (Fresh(l)' <=> Fresh(l)) /\ Stage(l)' # "emit"
        BY <2>2, <3>1, <4>1, StageDone
      <4>3. Untouched(l)
        BY <2>2, <3>1, <4>1 DEF Untouched
      <4> QED BY <1>c, <3>1, <4>2, <4>3, ContentFrame
    <3>3. CASE ~Unchanged(Outcome(m, Scoped(m)))
      <4>1. seqs' = [seqs EXCEPT ![m] = seqs[m] + 1] /\ owed' = owed
        BY <1>3, <3>3, ComputeIs
      <4>2. Stage(l)' = Stage(l) /\ (Fresh(l)' <=> Fresh(l)) /\ Stage(l) # "emit"
        BY <1>3, <2>2, <3>3, StageComputed
      <4>3. Untouched(l)
        BY <2>2, <3>1, <4>1 DEF Untouched, TypeOK
      <4> QED BY <1>c, <3>1, <4>2, <4>3, ContentFrame
    <3> QED BY <3>2, <3>3
  <2> QED BY <2>1, <2>2
<1>4. CASE Emit \/ RecordBaseline \/ RecordPending
  <2>0. /\ Locked /\ broadcast.now # None
    BY <1>4 DEF Emit, RecordBaseline, RecordPending
  <2>1. PICK m \in Labels : m = broadcast.now.label
    BY <2>0, BroadcastType DEF Turns
  <2>2. CASE l = m
    BY <1>4, <1>c, <2>0, <2>1, <2>2, EmitContent, RecordContent, NoteContent DEF HasTurn
  <2>3. CASE l # m
    <3>1. ~HasTurn(l) /\ Stage(l) # "emit"
      BY <2>1, <2>3, StageValues DEF HasTurn
    <3>2. CASE Emit
      <4>1. Untouched(l) /\ store' = store
            /\ broadcast' = [broadcast EXCEPT !.now.stage = "record"]
        BY <2>1, <2>3, <3>2 DEF Emit, Drop, Untouched, TypeOK
      <4>2. Stage(l)' = Stage(l) /\ (Fresh(l)' <=> Fresh(l))
        BY <2>0, <3>1, <4>1, StageTurned
      <4> QED BY <1>c, <3>1, <4>1, <4>2, ContentFrame
    <3>3. CASE RecordBaseline
      <4>1. Untouched(l) /\ store' = store
            /\ broadcast' = [broadcast EXCEPT !.now.stage = "note"]
        BY <2>1, <2>3, <3>3 DEF RecordBaseline, Record, Untouched, TypeOK
      <4>2. Stage(l)' = Stage(l) /\ (Fresh(l)' <=> Fresh(l))
        BY <2>0, <3>1, <4>1, StageTurned
      <4> QED BY <1>c, <3>1, <4>1, <4>2, ContentFrame
    <3>4. CASE RecordPending
      <4>1. Untouched(l) /\ store' = store /\ broadcast' = Done(m)
        BY <2>1, <2>3, <3>4 DEF RecordPending, NotePending, Untouched, TypeOK
      <4>2. Stage(l)' = Stage(l) /\ (Fresh(l)' <=> Fresh(l))
        BY <2>0, <2>1, <2>3, <4>1, StageDone
      <4> QED BY <1>c, <3>1, <4>1, <4>2, ContentFrame
    <3> QED BY <1>4, <3>2, <3>3, <3>4
  <2> QED BY <2>2, <2>3
<1>5. CASE EmitFails
  BY <1>5, <1>c, EmitFailsContent
<1>6. ASSUME NEW m \in Labels, ClientStep(m) PROVE ContentAt(l)'
  <2>1. CASE l = m
    BY <1>6, <1>c, <2>1, ClientContent
  <2>2. CASE l # m
    BY <1>6, <1>c, <2>2, ClientStepKeeps, OthersUntouched, ContentFrame
  <2> QED BY <2>1, <2>2
<1> QED BY <1>1, <1>2, <1>3, <1>4, <1>5, <1>6 DEF Next, LabelStep, ClientStep
-----------------------------------------------------------------------------
(* Sequence numbers *)

LEMMA SequenceFrame ==
    ASSUME NEW l, SequenceAt(l), failures' = failures,
           seqs'[l] = seqs[l], events'[l] = events[l], lastSeq'[l] = lastSeq[l],
           resync'[l] = resync[l], l \in open' <=> l \in open,
           Stage(l)' = "emit" <=> Stage(l) = "emit",
           Stage(l) = "emit" => Event' = Event
    PROVE  SequenceAt(l)'
<1>1. Unsent(l)' = Unsent(l)
  BY DEF Unsent
<1> QED BY <1>1 DEF SequenceAt

(* Without a client every number is in sequence. *)
LEMMA SequenceOfNone ==
    ASSUME NEW l, failures' = 0 => resync'[l] = "idle",
           l \in open' => /\ events'[l] = <<>> /\ lastSeq'[l] = 0
                          /\ Stage(l)' = "emit" => Event'.seq = seqs'[l]
    PROVE  SequenceAt(l)'
BY DEF SequenceAt

(* The next number goes to the next event. *)
LEMMA ComputeSequence ==
    ASSUME TypeOK, NEW l \in Labels, SequenceAt(l), ComputeUpdate(l)
    PROVE  SequenceAt(l)'
<1>1. /\ Locked /\ broadcast.now = None /\ l \in broadcast.todo
      /\ UNCHANGED <<failures, open, events, resync, lastSeq>>
  BY ComputeIs
<1>2. Stage(l) = "awaits" /\ Unsent(l) = 0
  BY <1>1 DEF Stage, HasTurn, Unsent
<1>3. CASE Unchanged(Outcome(l, Scoped(l)))
  <2>1. broadcast' = Done(l) /\ seqs' = seqs
    BY <1>3, ComputeIs
  <2>2. Stage(l)' = "done"
    BY <1>1, <2>1, StageDone
  <2> QED BY <1>1, <1>2, <2>1, <2>2, SequenceFrame
<1>4. CASE ~Unchanged(Outcome(l, Scoped(l)))
  <2>1. /\ seqs'[l] = seqs[l] + 1 /\ Stage(l)' = "emit" /\ Event' = NewEvent(l)
    <3>1. seqs' = [seqs EXCEPT ![l] = seqs[l] + 1]
      BY <1>4, ComputeIs
    <3>2. Stage(l)' = "emit" /\ Event' = NewEvent(l)
      BY <1>4, StageComputed
    <3> QED BY <3>1, <3>2 DEF TypeOK
  <2>2. Unsent(l)' = 1 /\ Event'.seq = seqs'[l]
    BY <2>1 DEF Unsent, NewEvent
  <2>3. SUFFICES ASSUME failures = 0, l \in open
                 PROVE  /\ resync[l] = "idle"
                        /\ \A i \in DOMAIN events[l] :
                              events[l][i].seq + (Len(events[l]) - i) + 1 = seqs[l] + 1
                        /\ lastSeq[l] # 0 => lastSeq[l] + Len(events[l]) + 1 = seqs[l] + 1
    BY <1>1, <2>1, <2>2 DEF SequenceAt
  <2>4. /\ resync[l] = "idle"
        /\ \A i \in DOMAIN events[l] :
              events[l][i].seq + (Len(events[l]) - i) + 0 = seqs[l]
        /\ lastSeq[l] # 0 => lastSeq[l] + Len(events[l]) + 0 = seqs[l]
    BY <1>2, <2>3 DEF SequenceAt
  <2>5. events[l] \in Seq(Events) /\ lastSeq[l] \in Nat /\ seqs[l] \in Nat
    BY DEF TypeOK
  <2>6. Len(events[l]) \in Nat
        /\ \A i \in DOMAIN events[l] : i \in Nat /\ events[l][i].seq \in Nat
    <3>1. \A i \in DOMAIN events[l] : events[l][i] \in Events /\ i \in Nat
      BY <2>5
    <3> QED BY <2>5, <3>1 DEF Events
  <2>7. \A n, a, b, c \in Int : a + (n - b) + 0 = c => a + (n - b) + 1 = c + 1
    OBVIOUS
  <2>8. \A n, a, c \in Int : a + n + 0 = c => a + n + 1 = c + 1
    OBVIOUS
  <2> QED BY <2>4, <2>5, <2>6, <2>7, <2>8
<1> QED BY <1>3, <1>4

LEMMA EmitSequence ==
    ASSUME TypeOK, ClientInv, NEW l \in Labels, SequenceAt(l), Emit, HasTurn(l)
    PROVE  SequenceAt(l)'
<1>1. /\ Locked /\ broadcast.now # None /\ broadcast.now.label = l
      /\ broadcast.now.stage = "emit"
      /\ broadcast' = [broadcast EXCEPT !.now.stage = "record"]
      /\ UNCHANGED <<failures, open, seqs, resync, lastSeq>>
      /\ events' = IF Listening(l) THEN [events EXCEPT ![l] = Append(@, Event)] ELSE events
  BY DEF Emit, Drop, Event, HasTurn, perLabel, client, bounds
<1>2. Stage(l) = "emit" /\ Stage(l)' = "record"
  BY <1>1, StageTurned DEF Stage, HasTurn
<1>u. Unsent(l) = 1 /\ Unsent(l)' = 0
  BY <1>2 DEF Unsent
<1>3. CASE ~Listening(l)
  <2>1. events'[l] = <<>> /\ lastSeq'[l] = 0 /\ resync'[l] = "idle"
    BY <1>1, <1>3 DEF ClientInv, ClientAt
  <2> QED BY <1>2, <2>1, SequenceOfNone
<1>4. CASE Listening(l)
  <2>1. PICK e \in Events : e = Event
    BY <1>1, BroadcastType DEF Event, Turns
  <2>2. events[l] \in Seq(Events) /\ events'[l] = Append(events[l], e)
        /\ lastSeq[l] \in Nat /\ seqs[l] \in Nat
    BY <1>1, <1>4, <2>1 DEF TypeOK
  <2>3. PICK n \in Nat : n = Len(events[l])
    BY <2>2
  <2>4. /\ Len(events'[l]) = n + 1 /\ DOMAIN events'[l] = 1..(n + 1)
        /\ \A i \in 1..n : events'[l][i] = events[l][i]
        /\ events'[l][n + 1] = e /\ DOMAIN events[l] = 1..n
    BY <2>2, <2>3, AppendFacts, AppendProperties
  <2>5. SUFFICES ASSUME failures = 0, l \in open
                 PROVE  /\ resync[l] = "idle"
                        /\ \A i \in 1..(n + 1) :
                              events'[l][i].seq + (n + 1 - i) + 0 = seqs[l]
                        /\ lastSeq[l] # 0 => lastSeq[l] + (n + 1) + 0 = seqs[l]
    <3>1. resync'[l] = resync[l] /\ lastSeq'[l] = lastSeq[l] /\ seqs'[l] = seqs[l]
      BY <1>1
    <3> QED BY <1>1, <1>2, <1>u, <2>4, <3>1 DEF SequenceAt
  <2>6. /\ resync[l] = "idle"
        /\ \A i \in 1..n : events[l][i].seq + (n - i) + 1 = seqs[l]
        /\ lastSeq[l] # 0 => lastSeq[l] + n + 1 = seqs[l]
        /\ e.seq = seqs[l]
    BY <1>2, <1>u, <2>1, <2>3, <2>4, <2>5 DEF SequenceAt
  <2>7. \A i \in 1..n : events[l][i].seq \in Nat
    <3>1. \A i \in 1..n : events[l][i] \in Events
      BY <2>2, <2>3
    <3> QED BY <3>1 DEF Events
  <2>8. ASSUME NEW i \in 1..(n + 1)
        PROVE  events'[l][i].seq + (n + 1 - i) + 0 = seqs[l]
    <3>1. CASE i = n + 1
      BY <2>2, <2>4, <2>6, <3>1
    <3>2. CASE i # n + 1
      <4>1. i \in 1..n
        BY <3>2
      <4>2. events'[l][i].seq = events[l][i].seq /\ events[l][i].seq \in Nat
        BY <2>4, <2>7, <4>1
      <4>3. \A a, c \in Int : a + (n - i) + 1 = c => a + (n + 1 - i) + 0 = c
        OBVIOUS
      <4> QED BY <2>2, <2>6, <4>1, <4>2, <4>3
    <3> QED BY <3>1, <3>2
  <2>9. lastSeq[l] # 0 => lastSeq[l] + (n + 1) + 0 = seqs[l]
    <3>1. \A a, b, c \in Int : a + b + 1 = c => a + (b + 1) + 0 = c
      OBVIOUS
    <3>2. lastSeq[l] \in Int /\ seqs[l] \in Int /\ n \in Int
      BY <2>2
    <3>3. lastSeq[l] # 0 => lastSeq[l] + n + 1 = seqs[l]
      BY <2>6
    <3> QED BY ONLY <3>1, <3>2, <3>3
  <2> QED BY <2>6, <2>8, <2>9
<1> QED BY <1>3, <1>4

(* The next event is in sequence, and the number it brings goes on with those
   behind it. *)
LEMMA ReceiveSequence ==
    ASSUME TypeOK, NEW l \in Labels, SequenceAt(l), failures = 0, l \in open,
           events[l] # <<>>
    PROVE  /\ InSequence(l, Head(events[l]))
           /\ \A i \in DOMAIN Tail(events[l]) :
                 Tail(events[l])[i].seq + (Len(Tail(events[l])) - i) + Unsent(l) = seqs[l]
           /\ Head(events[l]).seq + Len(Tail(events[l])) + Unsent(l) = seqs[l]
<1>1. events[l] \in Seq(Events) /\ lastSeq[l] \in Nat /\ seqs[l] \in Nat /\ Unsent(l) \in Nat
  BY DEF TypeOK, Unsent
<1>2. PICK n \in Nat \ {0} : n = Len(events[l])
  BY <1>1, TailFacts
<1>3. /\ Head(events[l]) = events[l][1] /\ Len(Tail(events[l])) = n - 1
      /\ DOMAIN Tail(events[l]) = 1..(n - 1) /\ DOMAIN events[l] = 1..n
      /\ \A i \in 1..(n - 1) : Tail(events[l])[i] = events[l][i + 1]
  BY <1>1, <1>2, TailFacts
<1>4. \A i \in 1..n : events[l][i].seq \in Nat
  <2>1. \A i \in 1..n : events[l][i] \in Events
    BY <1>1, <1>3
  <2> QED BY <2>1 DEF Events
<1>5. /\ \A i \in 1..n : events[l][i].seq + (n - i) + Unsent(l) = seqs[l]
      /\ lastSeq[l] # 0 => lastSeq[l] + n + Unsent(l) = seqs[l]
  BY <1>2, <1>3 DEF SequenceAt
<1>6. 1 \in 1..n
  OBVIOUS
<1>7. Head(events[l]).seq + (n - 1) + Unsent(l) = seqs[l]
  BY <1>3, <1>5, <1>6
<1>8. InSequence(l, Head(events[l]))
  <2>1. \A a, b, c, u \in Int : a + (n - 1) + u = c /\ b + n + u = c => a = b + 1
    OBVIOUS
  <2>2. Head(events[l]).seq \in Nat
    BY <1>3, <1>4, <1>6
  <2> QED BY <1>1, <1>5, <1>7, <2>1, <2>2 DEF InSequence
<1>9. ASSUME NEW i \in 1..(n - 1)
      PROVE  Tail(events[l])[i].seq + (n - 1 - i) + Unsent(l) = seqs[l]
  <2>1. i + 1 \in 1..n
    OBVIOUS
  <2>2. Tail(events[l])[i].seq = events[l][i + 1].seq
    BY <1>3
  <2>3. events[l][i + 1].seq + (n - (i + 1)) + Unsent(l) = seqs[l]
        /\ events[l][i + 1].seq \in Nat
    BY <1>4, <1>5, <2>1
  <2>4. n - 1 - i = n - (i + 1)
    OBVIOUS
  <2> QED BY <2>2, <2>3, <2>4
<1> QED BY <1>3, <1>7, <1>8, <1>9

LEMMA SequenceStep ==
    ASSUME TypeOK, TurnInv, ClientInv, SequenceInv, Next
    PROVE  SequenceInv'
<1> USE DEF bounds, perLabel, client, ghosts
<1>0. SUFFICES ASSUME NEW l \in Labels PROVE SequenceAt(l)'
  BY DEF SequenceInv
<1>c. SequenceAt(l) /\ ClientAt(l)
  BY DEF SequenceInv, ClientInv
<1>1. CASE Dispatch
  <2>1. /\ ~Locked /\ store' \in States /\ StartBroadcast(store')
        /\ UNCHANGED <<failures, open, seqs, events, resync, lastSeq>>
    BY <1>1, DispatchIs
  <2>2. Stage(l)' # "emit" /\ Stage(l) # "emit"
    <3>1. PICK s \in States : s = store'
      BY <2>1
    <3> QED BY <2>1, <3>1, StageStarted, StageValues
  <2> QED BY <1>c, <2>1, <2>2, SequenceFrame
<1>2. ASSUME NEW m \in Labels, Subscribe(m) \/ Unsubscribe(m) PROVE SequenceAt(l)'
  <2>1. /\ ~Locked /\ StartBroadcast(store)
        /\ UNCHANGED <<failures, open, seqs, events, resync, lastSeq>>
    BY <1>2, ChangeKeysIs
  <2>2. Stage(l)' # "emit" /\ Stage(l) # "emit"
    <3>1. store \in States
      BY DEF TypeOK
    <3> QED BY <2>1, <3>1, StageStarted, StageValues
  <2> QED BY <1>c, <2>1, <2>2, SequenceFrame
<1>3. ASSUME NEW m \in Labels, ComputeUpdate(m) PROVE SequenceAt(l)'
  <2>1. CASE l = m
    BY <1>3, <1>c, <2>1, ComputeSequence
  <2>2. CASE l # m
    <3>1. /\ Locked /\ broadcast.now = None /\ m \in broadcast.todo
          /\ UNCHANGED <<failures, open, events, resync, lastSeq>>
      BY <1>3, ComputeIs
    <3>2. CASE Unchanged(Outcome(m, Scoped(m)))
      <4>1. broadcast' = Done(m) /\ seqs' = seqs
        BY <1>3, <3>2, ComputeIs
      <4>2. Stage(l)' = Stage(l) /\ Stage(l)' # "emit"
        BY <2>2, <3>1, <4>1, StageDone
      <4> QED BY <1>c, <3>1, <4>1, <4>2, SequenceFrame
    <3>3. CASE ~Unchanged(Outcome(m, Scoped(m)))
      <4>0. seqs' = [seqs EXCEPT ![m] = seqs[m] + 1]
        BY <1>3, <3>3, ComputeIs
      <4>1. seqs'[l] = seqs[l]
        BY <2>2, <4>0 DEF TypeOK
      <4>2. Stage(l)' = Stage(l) /\ Stage(l) # "emit"
        BY <1>3, <2>2, <3>3, StageComputed
      <4> QED BY <1>c, <3>1, <4>1, <4>2, SequenceFrame
    <3> QED BY <3>2, <3>3
  <2> QED BY <2>1, <2>2
<1>4. CASE EmitFails
  <2>1. failures' # 0
    BY <1>4 DEF EmitFails, TypeOK
  <2> QED BY <2>1 DEF SequenceAt
<1>5. CASE Emit \/ RecordBaseline \/ RecordPending
  <2>0. /\ Locked /\ broadcast.now # None
    BY <1>5 DEF Emit, RecordBaseline, RecordPending
  <2>1. PICK m \in Labels : m = broadcast.now.label
    BY <2>0, BroadcastType DEF Turns
  <2>2. l # m => ~HasTurn(l) /\ Stage(l) # "emit"
    BY <2>1, StageValues DEF HasTurn
  <2>3. CASE Emit /\ l = m
    BY <1>c, <2>0, <2>1, <2>3, EmitSequence DEF HasTurn
  <2>4. CASE Emit /\ l # m
    <3>1. /\ broadcast' = [broadcast EXCEPT !.now.stage = "record"]
          /\ UNCHANGED <<failures, open, seqs, resync, lastSeq>>
          /\ events'[l] = events[l]
      BY <2>1, <2>4 DEF Emit, TypeOK
    <3>2. Stage(l)' = Stage(l)
      BY <2>0, <2>2, <2>4, <3>1, StageTurned
    <3> QED BY <1>c, <2>2, <2>4, <3>1, <3>2, SequenceFrame
  <2>5. CASE RecordBaseline
    <3>1. /\ broadcast' = [broadcast EXCEPT !.now.stage = "note"]
          /\ UNCHANGED <<failures, open, seqs, resync, lastSeq, events>>
      BY <2>5 DEF RecordBaseline
    <3>2. Stage(l)' = IF HasTurn(l) THEN "note" ELSE Stage(l)
      BY <2>0, <3>1, StageTurned
    <3>3. HasTurn(l) => Stage(l) = "record"
      BY <2>5, StageValues DEF RecordBaseline
    <3>4. Stage(l)' # "emit" /\ Stage(l) # "emit"
      BY <2>1, <2>2, <3>2, <3>3, StageValues
    <3> QED BY <1>c, <3>1, <3>4, SequenceFrame
  <2>6. CASE RecordPending
    <3>1. /\ broadcast' = Done(m)
          /\ UNCHANGED <<failures, open, seqs, resync, lastSeq, events>>
      BY <2>1, <2>6 DEF RecordPending
    <3>2. Stage(l)' # "emit"
      BY <2>0, <2>1, <3>1, StageDone
    <3>3. HasTurn(l) => Stage(l) = "note"
      BY <2>6, StageValues DEF RecordPending
    <3>4. Stage(l) # "emit"
      BY <2>1, <2>2, <3>3, StageValues
    <3> QED BY <1>c, <3>1, <3>2, <3>4, SequenceFrame
  <2> QED BY <1>5, <2>3, <2>4, <2>5, <2>6
<1>6. ASSUME NEW m \in Labels, ClientStep(m) PROVE SequenceAt(l)'
  <2>0. failures' = failures /\ Stage(l)' = Stage(l) /\ Event' = Event
    BY <1>6, ClientStepKeeps
  <2>1. CASE l # m
    BY <1>6, <1>c, <2>0, <2>1, OthersUntouched, SequenceFrame DEF Untouched
  <2>2. CASE l = m
    <3>0. failures = 0 => resync[l] = "idle"
      BY <1>c DEF SequenceAt
    <3>g. ASSUME Gone(l), open' = open, seqs' = seqs PROVE SequenceAt(l)'
      <4>1. l \in open /\ Stage(l) = "emit" /\ failures = 0 => Event.seq = seqs[l]
        BY <1>c DEF SequenceAt
      <4>2. events'[l] = <<>> /\ lastSeq'[l] = 0 /\ resync'[l] = "idle"
        BY <3>g, GoneIs
      <4> QED BY <2>0, <3>g, <4>1, <4>2 DEF SequenceAt
    <3>1. CASE ResyncDropPending(l) \/ ResyncForget(l) \/ ResyncRead(l) \/ ResyncEnds(l)
               \/ EventDropped(l)
      <4>1. failures # 0
        BY <3>0, <3>1 DEF ResyncDropPending, ResyncForget, ResyncRead, ResyncEnds, EventDropped
      <4> QED BY <2>0, <4>1 DEF SequenceAt
    <3>2. CASE InitialRead(l) \/ Initialize(l) \/ PublishInitial(l) \/ Attach(l)
      <4>1. UNCHANGED <<open, seqs, events, resync, lastSeq>>
        BY <3>2 DEF InitialRead, Initialize, PublishInitial, Attach
      <4> QED BY <1>c, <2>0, <4>1, SequenceFrame
    <3>3. ASSUME NEW id \in acks[l], Acknowledge(l, id) PROVE SequenceAt(l)'
      <4>1. UNCHANGED <<open, seqs, events, resync, lastSeq>>
        BY <3>3 DEF Acknowledge
      <4> QED BY <1>c, <2>0, <4>1, SequenceFrame
    <3>4. CASE Destroy(l)
      <4>1. CASE resync[l] = "idle"
        BY <3>4, <3>g, <4>1 DEF Destroy
      <4>2. CASE resync[l] # "idle"
        BY <2>0, <3>0, <4>2 DEF SequenceAt
      <4> QED BY <4>1, <4>2
    <3>5. CASE EventReportsGap(l)
      <4>1. l \in open /\ events[l] # <<>> /\ ~InSequence(l, Head(events[l]))
        BY <1>c, <3>5 DEF EventReportsGap, ClientAt
      <4>2. failures # 0
        BY <1>c, <4>1, ReceiveSequence
      <4> QED BY <2>0, <4>2 DEF SequenceAt
    <3>6. CASE EventApplied(l)
      <4>1. /\ l \in open /\ events[l] # <<>> /\ events'[l] = Tail(events[l])
            /\ lastSeq'[l] = Head(events[l]).seq
            /\ UNCHANGED <<open, seqs, resync>>
        BY <1>c, <3>6 DEF EventApplied, ClientAt, TypeOK
      <4>2. Unsent(l)' = Unsent(l)
        BY <2>0 DEF Unsent
      <4>3. failures = 0 =>
               /\ \A i \in DOMAIN Tail(events[l]) :
                     Tail(events[l])[i].seq + (Len(Tail(events[l])) - i) + Unsent(l) = seqs[l]
               /\ Head(events[l]).seq + Len(Tail(events[l])) + Unsent(l) = seqs[l]
        BY <1>c, <4>1, ReceiveSequence
      <4>4. failures = 0 /\ Stage(l) = "emit" => Event.seq = seqs[l]
        BY <1>c, <4>1 DEF SequenceAt
      <4> QED BY <2>0, <3>0, <4>1, <4>2, <4>3, <4>4 DEF SequenceAt
    <3>7. CASE OpenWindow(l)
      <4>1. /\ l \notin open /\ (Locked => l \notin broadcast.todo)
            /\ UNCHANGED <<seqs, events, resync, lastSeq>>
        BY <3>7 DEF OpenWindow
      <4>2. events[l] = <<>> /\ lastSeq[l] = 0 /\ resync[l] = "idle"
        BY <1>c, <4>1 DEF ClientAt, Listening
      <4>3. Stage(l) # "emit"
        BY <4>1, StageValues DEF TurnInv, HasTurn
      <4> QED BY <2>0, <4>1, <4>2, <4>3, SequenceOfNone
    <3>8. CASE ReloadPage(l)
      BY <3>8, <3>g DEF ReloadPage, PageGone
    <3>9. CASE CloseWindow(l)
      <4>1. l \notin open' /\ resync'[l] = "idle"
        BY <3>9, GoneIs DEF CloseWindow, PageGone
      <4> QED BY <4>1 DEF SequenceAt
    <3> QED BY <1>6, <2>2, <3>1, <3>2, <3>3, <3>4, <3>5, <3>6, <3>7, <3>8, <3>9 DEF ClientStep
  <2> QED BY <2>1, <2>2
<1> QED BY <1>1, <1>2, <1>3, <1>4, <1>5, <1>6 DEF Next, LabelStep, ClientStep
-----------------------------------------------------------------------------
(* What is pending *)

LEMMA AccountedKept ==
    ASSUME NEW l, events'[l] = events[l], acks'[l] = acks[l], excused \subseteq excused'
    PROVE  Accounted(l) \subseteq Accounted(l)'
BY DEF Accounted, Ids

LEMMA PendingFrame ==
    ASSUME NEW l, PendingAt(l), Accounted(l) \subseteq Accounted(l)',
           pending'[l] = pending[l], resync'[l] = resync[l],
           Stage(l)' \in {"record", "note"} =>
              Stage(l) \in {"record", "note"} /\ Event' = Event,
           Locked' /\ broadcast'.now # None =>
              Locked /\ broadcast.now # None /\ Event' = Event
    PROVE  PendingAt(l)'
BY DEF PendingAt

(* A client's step loses no account of an update that is not pending, and none
   of one that is but when it asks for the state. *)
LEMMA ClientAccounts ==
    ASSUME TypeOK, NEW l \in Labels, ClientStep(l)
    PROVE  /\ Accounted(l) \subseteq Accounted(l)' \cup pending[l]
           /\ pending'[l] \subseteq pending[l]
           /\ resync'[l] # "asked" =>
                 \/ pending'[l] = {}
                 \/ /\ resync[l] # "asked"
                    /\ pending'[l] \cap Accounted(l) \subseteq Accounted(l)'
<1> DEFINE Goal == /\ Accounted(l) \subseteq Accounted(l)' \cup pending[l]
                   /\ pending'[l] \subseteq pending[l]
                   /\ resync'[l] # "asked" =>
                         \/ pending'[l] = {}
                         \/ /\ resync[l] # "asked"
                            /\ pending'[l] \cap Accounted(l) \subseteq Accounted(l)'
<1> USE DEF bounds, perLabel, client, ghosts
<1>s. ASSUME UNCHANGED <<events, acks, excused>>, pending' = pending,
             resync[l] = "asked" => resync'[l] = "asked"
      PROVE  Goal
  BY <1>s, AccountedKept
<1>g. ASSUME Gone(l), acks' = acks, pending' = pending, resync[l] # "asked"
      PROVE  Goal
  <2>1. Accounted(l)' = Accounted(l)
    BY <1>g, IdsOfGone DEF Accounted
  <2> QED BY <1>g, <2>1
<1>e. ASSUME events[l] # <<>>, events' = [events EXCEPT ![l] = Tail(@)]
      PROVE  /\ Ids(l) = Ids(l)' \cup {Head(events[l]).id}
  BY <1>e, IdsOfTail
<1>1. CASE InitialRead(l) \/ Initialize(l) \/ PublishInitial(l) \/ Attach(l) \/ OpenWindow(l)
  BY <1>1, <1>s DEF InitialRead, Initialize, PublishInitial, Attach, OpenWindow
<1>2. CASE ResyncDropPending(l)
  <2>1. pending'[l] = {} /\ Accounted(l) \subseteq Accounted(l)'
    BY <1>2, AccountedKept DEF ResyncDropPending, DropPending, TypeOK
  <2> QED BY <2>1
<1>3. CASE ResyncForget(l) \/ ResyncRead(l)
  BY <1>3, <1>s DEF ResyncForget, ResyncRead
<1>4. CASE ResyncEnds(l)
  <2>1. resync[l] # "asked" /\ acks' = acks /\ pending' = pending
    BY <1>4 DEF ResyncEnds
  <2>2. CASE phase[l] = "closing"
    BY <1>4, <1>g, <2>1, <2>2 DEF ResyncEnds
  <2>3. CASE phase[l] # "closing"
    BY <1>4, <1>s, <2>1, <2>3 DEF ResyncEnds
  <2> QED BY <2>2, <2>3
<1>5. ASSUME NEW id \in acks[l], Acknowledge(l, id) PROVE Goal
  <2>1. /\ acks'[l] = acks[l] \ {id} /\ pending'[l] = pending[l] \ {id}
        /\ excused' = IF id \in pending[l] THEN excused ELSE excused \cup {id}
        /\ resync' = resync /\ Ids(l)' = Ids(l)
    BY <1>5 DEF Acknowledge, Ack, TypeOK, Ids
  <2> QED BY <2>1 DEF Accounted
<1>6. CASE Destroy(l)
  <2>1. acks' = acks /\ pending' = pending
    BY <1>6 DEF Destroy
  <2>2. CASE resync[l] = "idle"
    BY <1>6, <1>g, <2>1, <2>2 DEF Destroy
  <2>3. CASE resync[l] # "idle"
    BY <1>6, <1>s, <2>1, <2>3 DEF Destroy
  <2> QED BY <2>2, <2>3
<1>7. CASE EventDropped(l)
  <2>1. /\ Ids(l) = Ids(l)' \cup {Head(events[l]).id}
        /\ excused' = excused \cup {Head(events[l]).id}
        /\ UNCHANGED <<acks, pending, resync>>
    BY <1>7, <1>e DEF EventDropped, Drop
  <2> QED BY <2>1 DEF Accounted
<1>8. CASE EventReportsGap(l)
  <2>1. /\ Ids(l) = Ids(l)' \cup {Head(events[l]).id}
        /\ excused' = IF Head(events[l]).id \in pending[l] THEN excused
                      ELSE excused \cup {Head(events[l]).id}
        /\ UNCHANGED <<acks, pending>> /\ resync'[l] = "asked"
    BY <1>8, <1>e DEF EventReportsGap, TypeOK
  <2> QED BY <2>1 DEF Accounted
<1>9. CASE EventApplied(l)
  <2>1. /\ Ids(l) = Ids(l)' \cup {Head(events[l]).id}
        /\ acks'[l] = acks[l] \cup {Head(events[l]).id}
        /\ UNCHANGED <<excused, pending, resync>>
    BY <1>9, <1>e DEF EventApplied, TypeOK
  <2> QED BY <2>1 DEF Accounted
<1>10. CASE ReloadPage(l)
  BY <1>10, <1>g DEF ReloadPage, PageGone
<1>11. CASE CloseWindow(l)
  <2>1. Gone(l) /\ acks' = acks /\ pending'[l] = {}
    BY <1>11 DEF CloseWindow, PageGone, DropPending, TypeOK
  <2>2. Accounted(l)' = Accounted(l)
    BY <2>1, IdsOfGone DEF Accounted
  <2> QED BY <2>1, <2>2
<1>12. CASE \E id \in acks[l] : Acknowledge(l, id)
  BY <1>5, <1>12
<1> QED BY <1>1, <1>2, <1>3, <1>4, <1>6, <1>7, <1>8, <1>9, <1>10, <1>11, <1>12 DEF ClientStep

LEMMA EmitAccounts ==
    ASSUME TypeOK, NEW m \in Labels, Emit, m = broadcast.now.label
    PROVE  /\ \A l \in Labels : Accounted(l) \subseteq Accounted(l)'
           /\ Event.id \in Accounted(m)'
<1>1. /\ UNCHANGED acks
      /\ IF Listening(m)
         THEN events' = [events EXCEPT ![m] = Append(@, Event)] /\ excused' = excused
         ELSE excused' = excused \cup {Event.id} /\ events' = events
  BY DEF Emit, Drop, Event
<1>2. Event \in Events
  BY BroadcastType DEF Emit, Event, Turns
<1>3. CASE Listening(m)
  <2>1. PICK e \in Events : e = Event
    BY <1>2
  <2>2. /\ Ids(m)' = Ids(m) \cup {e.id}
        /\ \A l \in Labels : l # m => Ids(l)' = Ids(l)
    BY <1>1, <1>3, <2>1, IdsOfAppend
  <2> QED BY <1>1, <1>3, <2>1, <2>2 DEF Accounted
<1>4. CASE ~Listening(m)
  <2>1. \A l \in Labels : Ids(l)' = Ids(l)
    BY <1>1, <1>4 DEF Ids
  <2> QED BY <1>1, <1>4, <2>1 DEF Accounted
<1> QED BY <1>3, <1>4

LEMMA PendingStep ==
    ASSUME TypeOK, IdsInv, TurnInv, PendingInv, Next
    PROVE  PendingInv'
<1> USE DEF bounds, perLabel, client, ghosts
<1>0. SUFFICES ASSUME NEW l \in Labels PROVE PendingAt(l)'
  BY DEF PendingInv
<1>c. PendingAt(l)
  BY DEF PendingInv
<1>1. CASE Dispatch
  <2>1. /\ ~Locked /\ store' \in States /\ StartBroadcast(store')
        /\ UNCHANGED <<open, pending, events, acks, resync, excused>>
    BY <1>1, DispatchIs
  <2>2. /\ Stage(l)' \notin {"record", "note"}
        /\ Locked' => broadcast'.now = None
    <3>1. PICK s \in States : s = store'
      BY <2>1
    <3> QED BY <2>1, <3>1, StageStarted
  <2> QED BY <1>c, <2>1, <2>2, AccountedKept, PendingFrame
<1>2. ASSUME NEW m \in Labels, Subscribe(m) \/ Unsubscribe(m) PROVE PendingAt(l)'
  <2>1. /\ ~Locked /\ StartBroadcast(store)
        /\ UNCHANGED <<open, pending, events, acks, resync, excused>>
    BY <1>2, ChangeKeysIs
  <2>2. /\ Stage(l)' \notin {"record", "note"}
        /\ Locked' => broadcast'.now = None
    <3>1. store \in States
      BY DEF TypeOK
    <3> QED BY <2>1, <3>1, StageStarted
  <2> QED BY <1>c, <2>1, <2>2, AccountedKept, PendingFrame
<1>3. ASSUME NEW m \in Labels, ComputeUpdate(m) PROVE PendingAt(l)'
  <2>1. /\ Locked /\ broadcast.now = None
        /\ UNCHANGED <<pending, events, acks, resync, excused>>
    BY <1>3, ComputeIs
  <2>2. Stage(l) \notin {"record", "note"} /\ Accounted(l) \subseteq Accounted(l)'
    BY <2>1, AccountedKept, StageValues DEF HasTurn
  <2>3. CASE Unchanged(Outcome(m, Scoped(m)))
    <3>1. broadcast' = Done(m)
      BY <1>3, <2>3, ComputeIs
    <3>2. Stage(l)' \notin {"record", "note"} /\ (Locked' => broadcast'.now = None)
      BY <2>1, <2>2, <3>1, StageDone
    <3> QED BY <1>c, <2>1, <2>2, <3>2, PendingFrame
  <2>4. CASE ~Unchanged(Outcome(m, Scoped(m)))
    <3>1. /\ Event' = NewEvent(m)
          /\ Stage(l)' = IF l = m THEN "emit" ELSE Stage(l)
      BY <1>3, <2>4, StageComputed
    <3>2. Event'.id \notin pending'[l]
      <4>1. pending[l] \subseteq 1..updates /\ updates \in Nat
        BY DEF TypeOK
      <4>2. Event'.id = updates + 1
        BY <3>1 DEF NewEvent
      <4> QED BY <2>1, <4>1, <4>2
    <3> QED BY <1>c, <2>1, <2>2, <3>1, <3>2 DEF PendingAt
  <2> QED BY <2>3, <2>4
<1>4. CASE EmitFails
  <2>1. broadcast' = None /\ UNCHANGED <<pending, events, acks, resync, excused>>
    BY <1>4 DEF EmitFails
  <2> QED BY <1>c, <2>1, StageEnded, AccountedKept, PendingFrame
<1>5. CASE Emit \/ RecordBaseline \/ RecordPending
  <2>0. /\ Locked /\ broadcast.now # None
    BY <1>5 DEF Emit, RecordBaseline, RecordPending
  <2>1. PICK m \in Labels : m = broadcast.now.label
    BY <2>0, BroadcastType DEF Turns
  <2>2. HasTurn(l) <=> l = m
    BY <2>0, <2>1 DEF HasTurn
  <2>3. CASE Emit
    <3>1. /\ broadcast' = [broadcast EXCEPT !.now.stage = "record"]
          /\ UNCHANGED <<pending, resync>>
      BY <2>3 DEF Emit
    <3>2. Event' = Event /\ Stage(l)' = IF l = m THEN "record" ELSE Stage(l)
      BY <2>0, <2>2, <3>1, StageTurned
    <3>3. Accounted(l) \subseteq Accounted(l)' /\ Event.id \in Accounted(m)'
      BY <2>1, <2>3, EmitAccounts
    <3> QED BY <1>c, <2>0, <3>1, <3>2, <3>3 DEF PendingAt
  <2>4. CASE RecordBaseline
    <3>1. /\ broadcast' = [broadcast EXCEPT !.now.stage = "note"]
          /\ UNCHANGED <<pending, resync, events, acks, excused>>
      BY <2>4 DEF RecordBaseline
    <3>2. Event' = Event /\ Stage(l)' = IF l = m THEN "note" ELSE Stage(l)
      BY <2>0, <2>2, <3>1, StageTurned
    <3>3. l = m => Stage(l) = "record"
      BY <2>2, <2>4, StageValues DEF RecordBaseline
    <3> QED BY <1>c, <2>0, <3>1, <3>2, <3>3, AccountedKept, PendingFrame
  <2>5. CASE RecordPending
    <3>1. /\ broadcast' = Done(m) /\ broadcast.now.stage = "note"
          /\ pending' = [pending EXCEPT ![m] = @ \cup {Event.id}]
          /\ excused \subseteq excused' /\ UNCHANGED <<resync, events, acks>>
      BY <2>1, <2>5 DEF RecordPending, NotePending, Event
    <3>2. /\ Stage(l)' = IF l = m THEN "done" ELSE Stage(l)
          /\ Locked' => broadcast'.now = None
      BY <2>0, <2>1, <3>1, StageDone
    <3>3. /\ Accounted(l) \subseteq Accounted(l)'
          /\ l = m => Stage(l) = "note"
          /\ l # m => Stage(l) \notin {"record", "note"}
      BY <2>2, <3>1, AccountedKept, StageValues
    <3>4. pending'[l] = IF l = m THEN pending[l] \cup {Event.id} ELSE pending[l]
      BY <3>1 DEF TypeOK
    <3> QED BY <1>c, <3>1, <3>2, <3>3, <3>4 DEF PendingAt
  <2> QED BY <1>5, <2>3, <2>4, <2>5
<1>6. ASSUME NEW m \in Labels, ClientStep(m) PROVE PendingAt(l)'
  <2>0. /\ Stage(l)' = Stage(l) /\ Event' = Event /\ excused \subseteq excused'
        /\ Locked' <=> Locked
        /\ Locked => broadcast'.now = broadcast.now
    BY <1>6, ClientStepKeeps
  <2>1. CASE l # m
    <3>1. pending'[l] = pending[l] /\ events'[l] = events[l] /\ acks'[l] = acks[l]
          /\ resync'[l] = resync[l]
      BY <1>6, <2>1, OthersUntouched DEF Untouched
    <3> QED BY <1>c, <2>0, <3>1, AccountedKept, PendingFrame
  <2>2. CASE l = m
    <3>1. /\ Accounted(l) \subseteq Accounted(l)' \cup pending[l]
          /\ pending'[l] \subseteq pending[l]
          /\ resync'[l] # "asked" =>
                \/ pending'[l] = {}
                \/ /\ resync[l] # "asked"
                   /\ pending'[l] \cap Accounted(l) \subseteq Accounted(l)'
      BY <1>6, <2>2, ClientAccounts
    <3>2. Stage(l) \in {"record", "note"} => Locked /\ broadcast.now # None
      BY StageValues DEF HasTurn
    <3> QED BY <1>c, <2>0, <3>1, <3>2 DEF PendingAt
  <2> QED BY <2>1, <2>2
<1> QED BY <1>1, <1>2, <1>3, <1>4, <1>5, <1>6 DEF Next, LabelStep, ClientStep
-----------------------------------------------------------------------------
(* What is forgotten *)

LEMMA ForgottenFrame ==
    ASSUME NEW l, ForgottenAt(l), l \in open => l \in open', l \in missed => l \in missed',
           UNCHANGED <<subs[l], baseline[l], pending[l], seqs[l]>>
    PROVE  ForgottenAt(l)'
BY DEF ForgottenAt

LEMMA ClientForgotten ==
    ASSUME TypeOK, NEW l \in Labels, ClientAt(l), ForgottenAt(l), ClientStep(l)
    PROVE  ForgottenAt(l)'
<1> USE DEF bounds, perLabel, client, ghosts
<1>1. resync[l] # "idle" \/ phase[l] # "none" => l \in open
  BY DEF ClientAt, Listening
<1>o. ASSUME l \in open, open' = open PROVE ForgottenAt(l)'
  BY <1>o DEF ForgottenAt
<1>2. CASE InitialRead(l) \/ Initialize(l) \/ PublishInitial(l) \/ Attach(l) \/ Destroy(l)
  BY <1>1, <1>2, <1>o DEF InitialRead, Initialize, PublishInitial, Attach, Destroy
<1>3. CASE ResyncDropPending(l) \/ ResyncForget(l) \/ ResyncRead(l) \/ ResyncEnds(l)
  BY <1>1, <1>3, <1>o DEF ResyncDropPending, ResyncForget, ResyncRead, ResyncEnds
<1>4. CASE EventDropped(l) \/ EventReportsGap(l) \/ EventApplied(l)
  BY <1>1, <1>4, <1>o DEF EventDropped, EventReportsGap, EventApplied
<1>5. ASSUME NEW id \in acks[l], Acknowledge(l, id) PROVE ForgottenAt(l)'
  <2>1. /\ UNCHANGED <<open, missed, subs, baseline, seqs>>
        /\ pending'[l] = pending[l] \ {id}
    BY <1>5 DEF Acknowledge, Ack, TypeOK
  <2> QED BY <2>1 DEF ForgottenAt
<1>6. CASE OpenWindow(l)
  BY <1>6 DEF OpenWindow, ForgottenAt
<1>7. CASE ReloadPage(l)
  BY <1>7, <1>o DEF ReloadPage
<1>8. CASE CloseWindow(l)
  <2>1. subs'[l] = {} /\ baseline'[l] = None /\ pending'[l] = {} /\ seqs'[l] = 0
    BY <1>8 DEF CloseWindow, ForgetKeys, SetKeys, Forget, Record, DropPending, ForgetSeq, TypeOK
  <2> QED BY <2>1 DEF ForgottenAt
<1>9. CASE \E id \in acks[l] : Acknowledge(l, id)
  BY <1>5, <1>9
<1> QED BY <1>2, <1>3, <1>4, <1>6, <1>7, <1>8, <1>9 DEF ClientStep

LEMMA ForgottenStep ==
    ASSUME TypeOK, ClientInv, ForgottenInv, Next
    PROVE  ForgottenInv'
<1> USE DEF bounds, perLabel, client, ghosts
<1>0. SUFFICES ASSUME NEW l \in Labels PROVE ForgottenAt(l)'
  BY DEF ForgottenInv
<1>c. ForgottenAt(l) /\ ClientAt(l)
  BY DEF ForgottenInv, ClientInv
<1>1. CASE Dispatch
  BY <1>1, <1>c, DispatchIs, ForgottenFrame
<1>2. ASSUME NEW m \in Labels, Subscribe(m) \/ Unsubscribe(m) PROVE ForgottenAt(l)'
  <2>1. PICK keys \in SUBSET Keys :
          /\ phase[m] = "live"
          /\ subs' = [subs EXCEPT ![m] = keys]
          /\ baseline' = [baseline EXCEPT ![m] = None]
          /\ UNCHANGED <<open, missed, seqs, pending>>
    BY <1>2, ChangeKeysIs
  <2>2. CASE l = m
    <3>1. l \in open
      BY <1>c, <2>1, <2>2 DEF ClientAt
    <3> QED BY <2>1, <3>1 DEF ForgottenAt
  <2>3. CASE l # m
    <3>1. subs'[l] = subs[l] /\ baseline'[l] = baseline[l]
      BY <2>1, <2>3 DEF TypeOK
    <3> QED BY <1>c, <2>1, <3>1, ForgottenFrame
  <2> QED BY <2>2, <2>3
<1>3. ASSUME NEW m \in Labels, ComputeUpdate(m) PROVE ForgottenAt(l)'
  <2>1. /\ missed' = IF m \in open THEN missed ELSE missed \cup {m}
        /\ UNCHANGED <<open, subs, baseline, pending>>
        /\ seqs' = seqs \/ seqs' = [seqs EXCEPT ![m] = seqs[m] + 1]
    BY <1>3, ComputeIs
  <2>2. l # m => seqs'[l] = seqs[l]
    BY <2>1 DEF TypeOK
  <2> QED BY <1>c, <2>1, <2>2 DEF ForgottenAt
<1>4. CASE Emit \/ EmitFails
  <2>1. UNCHANGED <<open, subs, baseline, pending, seqs>> /\ missed \subseteq missed'
    BY <1>4 DEF Emit, EmitFails, Drop
  <2> QED BY <1>c, <2>1, ForgottenFrame
<1>5. CASE RecordBaseline
  <2>1. PICK m \in Labels : m = broadcast.now.label
    BY <1>5, BroadcastType DEF RecordBaseline, Turns
  <2>2. /\ missed' = IF m \in open THEN missed ELSE missed \cup {m}
        /\ UNCHANGED <<open, subs, pending, seqs>>
        /\ l # m => baseline'[l] = baseline[l]
    BY <1>5, <2>1 DEF RecordBaseline, Record, TypeOK
  <2> QED BY <1>c, <2>2 DEF ForgottenAt
<1>6. CASE RecordPending
  <2>1. PICK m \in Labels : m = broadcast.now.label
    BY <1>6, BroadcastType DEF RecordPending, Turns
  <2>2. /\ missed' = IF m \in open THEN missed ELSE missed \cup {m}
        /\ UNCHANGED <<open, subs, baseline, seqs>>
        /\ l # m => pending'[l] = pending[l]
    BY <1>6, <2>1 DEF RecordPending, NotePending, TypeOK
  <2> QED BY <1>c, <2>2 DEF ForgottenAt
<1>7. ASSUME NEW m \in Labels, ClientStep(m) PROVE ForgottenAt(l)'
  <2>1. CASE l = m
    BY <1>7, <1>c, <2>1, ClientForgotten
  <2>2. CASE l # m
    BY <1>7, <1>c, <2>2, OthersUntouched, ForgottenFrame DEF Untouched
  <2> QED BY <2>1, <2>2
<1> QED BY <1>1, <1>2, <1>3, <1>4, <1>5, <1>6, <1>7 DEF Next, LabelStep, ClientStep
-----------------------------------------------------------------------------
(* The theorems *)

LEMMA InitInv == Init => IInv
<1> SUFFICES ASSUME Init PROVE IInv
  OBVIOUS
<1>1. TypeOK /\ IdsInv
  BY InitTypes
<1>2. /\ ~Locked /\ failures = 0 /\ open = Labels
      /\ \A l \in Labels :
            /\ phase[l] = "none" /\ resync[l] = "idle" /\ answer[l] = None
            /\ events[l] = <<>> /\ lastSeq[l] = 0
            /\ baseline[l] = None /\ pending[l] = {}
  BY DEF Init, Locked
<1>3. \A l \in Labels : Stage(l) = "done"
  BY <1>1, <1>2, StageValues
<1>4. DOMAIN <<>> = {}
  OBVIOUS
<1>5. TurnInv
  BY <1>2 DEF TurnInv
<1>6. ClientInv
  BY <1>2, <1>4 DEF ClientInv, ClientAt, Listening
<1>7. AnswerInv
  BY <1>2 DEF AnswerInv, AnswerAt
<1>8. BaselineInv
  BY <1>2 DEF BaselineInv, BaselineAt
<1>9. EventsInv
  <2>1. \A l \in Labels : EventsOf(l) = <<>>
    BY <1>2, <1>3 DEF EventsOf
  <2>2. \A t, k : Corrected(<<>>, t, k)
    BY CorrectedNone
  <2> QED BY <1>2, <2>1, <2>2 DEF EventsInv, EventsAt
<1>10. FollowInv
  BY <1>2 DEF FollowInv, FollowAt, Follower
<1>11. SequenceInv
  BY <1>2, <1>3, <1>4 DEF SequenceInv, SequenceAt
<1>12. PendingInv
  BY <1>2, <1>3 DEF PendingInv, PendingAt
<1>13. ForgottenInv
  BY <1>2 DEF ForgottenInv, ForgottenAt
<1> QED BY <1>1, <1>5, <1>6, <1>7, <1>8, <1>9, <1>10, <1>11, <1>12, <1>13 DEF IInv

LEMMA StutterInv ==
    ASSUME IInv, UNCHANGED vars
    PROVE  IInv'
<1>1. /\ UNCHANGED <<store, changes, subscribes, failures, clients, open, broadcast, updates,
                     events, acks, excused, owed, missed>>
      /\ UNCHANGED <<subs, baseline, seqs, pending, phase, resync, answer, copy, lastSeq>>
  BY DEF vars, bounds, perLabel, client, ghosts
<1>2. TypeOK' /\ IdsInv'
  BY TypeStep DEF IInv
<1>3. /\ Event' = Event /\ Age' = Age /\ (Locked' <=> Locked)
      /\ \A l : /\ Stage(l)' = Stage(l) /\ (Fresh(l)' <=> Fresh(l))
                /\ HasTurn(l)' <=> HasTurn(l)
                /\ Unsent(l)' = Unsent(l)
  BY <1>1, StageSame DEF Age, Unsent
<1>4. \A l : /\ KeysOf(l)' = KeysOf(l) /\ Content(l)' = Content(l) /\ AgeOf(l)' = AgeOf(l)
             /\ EventsOf(l)' = EventsOf(l) /\ Accounted(l)' = Accounted(l)
             /\ View(l, store)' = View(l, store)
  BY <1>1, <1>3 DEF KeysOf, Content, AgeOf, EventsOf, Accounted, Ids, View
<1>5. TurnInv'
  <2>1. Locked /\ broadcast.now # None =>
           View(broadcast.now.label, store)' = View(broadcast.now.label, store)
    BY <1>1 DEF View, KeysOf
  <2> QED BY <1>1, <1>3, <2>1 DEF IInv, TurnInv
<1>6. ClientInv'
  BY <1>1, <1>3 DEF IInv, ClientInv, ClientAt, Listening
<1>7. AnswerInv'
  BY <1>1, <1>3, <1>4 DEF IInv, AnswerInv, AnswerAt
<1>8. BaselineInv'
  BY <1>1, <1>3, <1>4 DEF IInv, BaselineInv, BaselineAt
<1>9. \A l : (Told(l)' <=> Told(l)) /\ (Recorded(l)' <=> Recorded(l))
             /\ (Follower(l)' <=> Follower(l))
  BY <1>1, <1>3 DEF Told, Recorded, Follower
<1>10. EventsInv'
  BY <1>1, <1>4, <1>9 DEF IInv, EventsInv, EventsAt
<1>11. FollowInv'
  BY <1>1, <1>3, <1>4, <1>9 DEF IInv, FollowInv, FollowAt
<1>12. SequenceInv'
  BY <1>1, <1>3 DEF IInv, SequenceInv, SequenceAt
<1>13. PendingInv'
  BY <1>1, <1>3, <1>4 DEF IInv, PendingInv, PendingAt
<1>14. ForgottenInv'
  BY <1>1 DEF IInv, ForgottenInv, ForgottenAt
<1> QED BY <1>2, <1>5, <1>6, <1>7, <1>8, <1>10, <1>11, <1>12, <1>13, <1>14 DEF IInv

(* The invariant that the other theorems follow from: how far the broadcast
   under way is with a webview decides whether the events on their way to it
   lead to its baseline or to the store. *)
THEOREM SyncInvariant == Spec => []IInv
<1>1. Init => IInv
  BY InitInv
<1>2. IInv /\ [Next]_vars => IInv'
  <2> SUFFICES ASSUME IInv, [Next]_vars PROVE IInv'
    OBVIOUS
  <2>1. CASE UNCHANGED vars
    BY <2>1, StutterInv
  <2>2. CASE Next
    <3>1. TypeOK' /\ IdsInv'
      BY TypeStep DEF IInv
    <3>2. ContentInv /\ (ContentInv' => BaselineInv' /\ EventsInv' /\ FollowInv')
      BY DEF IInv, ContentInv
    <3>3. TurnInv' /\ ClientInv' /\ AnswerInv' /\ ContentInv'
      BY <2>2, <3>2, TurnStep, ClientInvStep, AnswerInvStep, ContentStep DEF IInv
    <3>4. SequenceInv' /\ PendingInv' /\ ForgottenInv'
      BY <2>2, SequenceStep, PendingStep, ForgottenStep DEF IInv
    <3> QED BY <3>1, <3>2, <3>3, <3>4 DEF IInv
  <2> QED BY <2>1, <2>2
<1> QED BY <1>1, <1>2, PTL DEF Spec

(* The copy of a webview that has received what was sent to it agrees with the
   store on its keys, unless an emission to it failed or an update passed it
   by: broadcast_state_locked computes, emits and records in this order and
   under its lock, and subscribe and a resync forget the baseline. *)
THEOREM CopiesConverge == Spec => []Converged
<1>1. IInv => Converged
  <2> SUFFICES ASSUME IInv, NEW l \in Labels, AtRest(l), l \notin owed \cup missed
               PROVE  View(l, copy[l]) = View(l, store)
    BY DEF Converged
  <2>1. /\ ~Locked /\ events[l] = <<>> /\ phase[l] = "live" /\ resync[l] = "idle"
        /\ l \in open /\ answer[l] = None
    BY DEF AtRest, IInv, ClientInv, ClientAt
  <2>2. Stage(l) = "done" /\ EventsOf(l) = <<>>
    BY <2>1, StageValues DEF IInv, EventsOf
  <2>3. Told(l) /\ Follower(l) /\ Content(l) = copy[l]
    BY <2>1, <2>2 DEF Told, Follower, Content
  <2>4. \A k \in KeysOf(l) : Will(<<>>, AgeOf(l), copy[l], store, k)
    BY <2>1, <2>2, <2>3 DEF IInv, FollowInv, FollowAt
  <2>5. DOMAIN <<>> = {}
    OBVIOUS
  <2>6. \A k \in KeysOf(l) : ~Differ(copy[l], store, k)
    BY <2>4, <2>5 DEF Will
  <2> HIDE DEF KeysOf
  <2>7. KeysOf(l) \cap DOMAIN copy[l] = KeysOf(l) \cap DOMAIN store
    BY <2>6 DEF Differ
  <2>8. \A k \in KeysOf(l) \cap DOMAIN store : copy[l][k] = store[k]
    BY <2>6 DEF Differ
  <2> QED BY <2>7, <2>8 DEF View, Pick
<1> QED BY <1>1, SyncInvariant, PTL

(* A webview asks for the whole state only after an emission has failed: the
   numbers that SequenceTracker gives and handleStateUpdate compares are
   consecutive otherwise. *)
THEOREM ResyncsHaveCause == Spec => []NoSpuriousResync
<1>1. IInv => NoSpuriousResync
  BY DEF IInv, SequenceInv, SequenceAt, NoSpuriousResync, TypeOK
<1> QED BY <1>1, SyncInvariant, PTL

(* The tracker waits for no acknowledgment that can still come when none is on
   its way, forget_label leaves nothing of a window, and the state keeps its
   types. *)
THEOREM RegistriesHoldNothing == Spec => []NothingLeft
<1>1. IInv => NothingLeft
  <2> SUFFICES ASSUME IInv PROVE NothingLeft
    OBVIOUS
  <2>1. TypeOK
    BY DEF IInv
  <2>2. ASSUME NEW l \in Labels, AtRest(l), acks[l] = {}
        PROVE  pending[l] \subseteq excused
    <3>1. Ids(l) = {}
      BY <2>2 DEF AtRest, Ids
    <3>2. pending[l] \subseteq Accounted(l)
      BY <2>2 DEF AtRest, IInv, PendingInv, PendingAt
    <3> QED BY <2>2, <3>1, <3>2 DEF Accounted
  <2>3. ASSUME NEW l \in Labels \ (open \cup missed)
        PROVE  /\ subs[l] = {} /\ baseline[l] = None /\ pending[l] = {}
               /\ ~Locked => seqs[l] = 0
    BY <2>3 DEF IInv, ForgottenInv, ForgottenAt
  <2> QED BY <2>1, <2>2, <2>3 DEF NothingLeft
<1> QED BY <1>1, SyncInvariant, PTL
=============================================================================
