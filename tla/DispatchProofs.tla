--------------------------- MODULE DispatchProofs ---------------------------
(***************************************************************************)
(* What the two ends of dispatch promise: the preload script of a window,  *)
(* for any thunks, actions and size of the thunk processor                 *)
(* (PreloadDispatch), and the main process, for any dispatches, bridges    *)
(* and size of the queue (MainDispatch).                                   *)
(*                                                                         *)
(* In the preload script neither property follows from itself. That a      *)
(* dispatch is with somebody who will settle it rests on the batcher       *)
(* holding only what is dispatched and not yet settled (Batched). That no  *)
(* thunk executes without a program rests on the order of messages: where  *)
(* a program is determines which of its messages are on their way and that *)
(* its completion is the last of them (MessagesInStep).                    *)
(*                                                                         *)
(* In the main process both rest on Pointed: the queue and the processor   *)
(* point at the youngest bridge, unless the processor has been released.   *)
(* An answer has the effect of its action because nothing moved since it   *)
(* was dispatched (Unmoved).                                               *)
(***************************************************************************)
EXTENDS MainDispatch, PreloadDispatch, FiniteSetTheorems, SequenceTheorems, TLAPS

-----------------------------------------------------------------------------
(* The preload script *)

Batch == {S \in SUBSET Actions : IsFiniteSet(S)}

Message ==
    [kind : {"register", "complete"}, of : Thunks]
        \cup [kind : {"dispatch"}, of : Actions]
        \cup [kind : {"batch"}, of : Batch]

Registration == [thunk : Thunks, for : Actions \cup {"program", "batch"}]

(* The state has its types, also those of messages and registrations; a
   registration waits only while a thunk executes. *)
Typed ==
    /\ PreloadTypeOK
    /\ IsFiniteSet(dispatches)
    /\ awaited \subseteq Actions
    /\ toMain \in Seq(Message) /\ answers \in Seq(Message)
    /\ registering \in Seq(Registration)
    /\ batches \subseteq Batch
    /\ registering # <<>> => executing # {}

(* What is in the batcher has been dispatched, and a thunk's action in it
   opted in, and still has to be settled; a body that ends leaves no action
   in the queue that it awaits. *)
Batched ==
    /\ queued \subseteq Actions /\ inFlight \subseteq Actions
    /\ IsFiniteSet(queued) /\ queued \cap inFlight = {}
    /\ \A a \in queued \cup inFlight :
          /\ call[a] # "new"
          /\ a \notin Plain => /\ a \in OptedIn /\ call[a] = "sending"
                               /\ a \in callbacks \cup fulfilled \cup forgotten
    /\ \A a \in Actions \ Plain :
          /\ body[ThunkOf[a]] \in {"new", "registering"} => call[a] = "new"
          /\ (a \in queued /\ body[ThunkOf[a]] = "ended") => a \notin awaited

(* The thunks NoOrphan speaks of. *)
Regular(t) == t \notin unregistered /\ ~LateBatch(t) /\ body[t] # "gone"

About(m, t) ==
    \/ m.kind \in {"register", "complete"} /\ m.of = t
    \/ m.kind = "dispatch" /\ ThunkOf[m.of] = t
    \/ m.kind = "batch" /\ \E a \in m.of : ThunkOf[a] = t

(* What a sequence of messages, of registrations, of answers has of a thunk. *)
NothingAbout(s, t) == \A i \in 1..Len(s) : ~About(s[i], t)

OnlyRegister(s, t) ==
    \E i \in 1..Len(s) :
        /\ s[i] = [kind |-> "register", of |-> t]
        /\ \A j \in 1..Len(s) : About(s[j], t) => j = i

OnlyActions(s, t) ==
    \A i \in 1..Len(s) : About(s[i], t) => s[i].kind \in {"dispatch", "batch"}

CompleteIsLast(s, t) ==
    \E i \in 1..Len(s) :
        /\ s[i] = [kind |-> "complete", of |-> t]
        /\ \A j \in 1..Len(s) :
              About(s[j], t) => j = i \/ (j < i /\ s[j].kind \in {"dispatch", "batch"})

NotIn(s, t) == \A i \in 1..Len(s) : s[i].thunk # t

OnceIn(s, t) ==
    \E i \in 1..Len(s) :
        /\ s[i] = Entry(t, "program")
        /\ \A j \in 1..Len(s) : s[j].thunk = t => j = i

Begun(s, t) == \E i \in 1..Len(s) : s[i] = [kind |-> "register", of |-> t]

(* Where the registration of a thunk is. *)
Asking(t) == OnlyRegister(toMain, t) /\ NotIn(registering, t) /\ ~Begun(answers, t)
InTurn(t) == NothingAbout(toMain, t) /\ OnceIn(registering, t) /\ ~Begun(answers, t)
Granted(t) == NothingAbout(toMain, t) /\ NotIn(registering, t) /\ t \in executing

Unknown(t) == NothingAbout(toMain, t) /\ NotIn(registering, t) /\ ~Begun(answers, t)
Active(t) == OnlyActions(toMain, t) /\ NotIn(registering, t) /\ t \in executing
Over(t) ==
    /\ NotIn(registering, t)
    /\ IF t \in executing THEN CompleteIsLast(toMain, t) ELSE NothingAbout(toMain, t)

(* The main process is where the program of a thunk is, or a message of the
   program is still to tell it. *)
MessagesInStep(t) ==
    /\ body[t] # "new" => configured
    /\ body[t] = "new" => Unknown(t)
    /\ body[t] = "registering" => Asking(t) \/ InTurn(t) \/ Granted(t)
    /\ body[t] \in {"running", "flushing"} => Active(t)
    /\ body[t] = "ended" => Over(t)

AllInStep == \A t \in Thunks : Regular(t) => MessagesInStep(t)

PreloadInv == Typed /\ Batched /\ SomebodySettles /\ AllInStep

-----------------------------------------------------------------------------
(* Sequences of messages and of registrations. *)

(* A finite set is made into a sequence of its elements. *)
LEMMA SetToSeqType ==
    ASSUME NEW S, IsFiniteSet(S)
    PROVE  SetToSeq(S) \in Seq(S)
<1>1. Cardinality(S) \in Nat /\ ExistsBijection(1..Cardinality(S), S)
  BY FS_CardinalityType
<1>2. \E f \in [1..Cardinality(S) -> S] : IsInjective(f)
  BY <1>1 DEF ExistsBijection, Bijection, Injection
<1>3. SetToSeq(S) \in [1..Cardinality(S) -> S]
  BY <1>2 DEF SetToSeq
<1> QED BY <1>1, <1>3

(* What an appended message does to what a sequence says of a thunk. *)
LEMMA Sent ==
    ASSUME NEW s \in Seq(Message), NEW m \in Message, NEW t \in Thunks
    PROVE  /\ Append(s, m) \in Seq(Message)
           /\ ~About(m, t) =>
                /\ NothingAbout(s, t) => NothingAbout(Append(s, m), t)
                /\ OnlyRegister(s, t) => OnlyRegister(Append(s, m), t)
                /\ CompleteIsLast(s, t) => CompleteIsLast(Append(s, m), t)
           /\ (~About(m, t) \/ m.kind \in {"dispatch", "batch"}) =>
                (OnlyActions(s, t) => OnlyActions(Append(s, m), t))
           /\ m = [kind |-> "register", of |-> t] =>
                (NothingAbout(s, t) => OnlyRegister(Append(s, m), t))
           /\ m = [kind |-> "complete", of |-> t] =>
                (OnlyActions(s, t) => CompleteIsLast(Append(s, m), t))
<1> DEFINE u == Append(s, m)
<1>1. /\ u \in Seq(Message) /\ Len(u) = Len(s) + 1 /\ Len(s) \in Nat
      /\ \A i \in 1..Len(s) : u[i] = s[i]
      /\ u[Len(s) + 1] = m
  OBVIOUS
<1> HIDE DEF u
<1>2. \A i \in 1..Len(u) : (i \in 1..Len(s) /\ u[i] = s[i]) \/ (i = Len(u) /\ u[i] = m)
  <2>1. \A i \in 1..Len(u) : i \in 1..Len(s) \/ i = Len(u)
    BY <1>1
  <2> QED BY <1>1, <2>1
<1>3. Len(u) \in 1..Len(u) /\ \A i \in 1..Len(s) : i \in 1..Len(u) /\ i < Len(u)
  BY <1>1
<1>4. NothingAbout(s, t) /\ ~About(m, t) => NothingAbout(u, t)
  BY <1>2 DEF NothingAbout
<1>5. OnlyRegister(s, t) /\ ~About(m, t) => OnlyRegister(u, t)
  <2> SUFFICES ASSUME OnlyRegister(s, t), ~About(m, t) PROVE OnlyRegister(u, t)
    OBVIOUS
  <2>1. PICK i \in 1..Len(s) :
          /\ s[i] = [kind |-> "register", of |-> t]
          /\ \A j \in 1..Len(s) : About(s[j], t) => j = i
    BY DEF OnlyRegister
  <2>2. /\ i \in 1..Len(u) /\ u[i] = [kind |-> "register", of |-> t]
        /\ \A j \in 1..Len(u) : About(u[j], t) => j = i
    BY <1>1, <1>2, <1>3, <2>1
  <2> QED BY <2>2 DEF OnlyRegister
<1>6. CompleteIsLast(s, t) /\ ~About(m, t) => CompleteIsLast(u, t)
  <2> SUFFICES ASSUME CompleteIsLast(s, t), ~About(m, t) PROVE CompleteIsLast(u, t)
    OBVIOUS
  <2>1. PICK i \in 1..Len(s) :
          /\ s[i] = [kind |-> "complete", of |-> t]
          /\ \A j \in 1..Len(s) : About(s[j], t) =>
                j = i \/ (j < i /\ s[j].kind \in {"dispatch", "batch"})
    BY DEF CompleteIsLast
  <2>2. /\ i \in 1..Len(u) /\ u[i] = [kind |-> "complete", of |-> t]
        /\ \A j \in 1..Len(u) : About(u[j], t) =>
              j = i \/ (j < i /\ u[j].kind \in {"dispatch", "batch"})
    BY <1>1, <1>2, <1>3, <2>1
  <2> QED BY <2>2 DEF CompleteIsLast
<1>7. OnlyActions(s, t) /\ (~About(m, t) \/ m.kind \in {"dispatch", "batch"})
        => OnlyActions(u, t)
  BY <1>2 DEF OnlyActions
<1>8. NothingAbout(s, t) /\ m = [kind |-> "register", of |-> t] => OnlyRegister(u, t)
  BY <1>1, <1>2, <1>3 DEF NothingAbout, OnlyRegister
<1>9. OnlyActions(s, t) /\ m = [kind |-> "complete", of |-> t] => CompleteIsLast(u, t)
  BY <1>1, <1>2, <1>3 DEF OnlyActions, CompleteIsLast
<1> QED BY <1>1, <1>4, <1>5, <1>6, <1>7, <1>8, <1>9 DEF u

(* What is left of it when the first message is taken. *)
LEMMA Taken ==
    ASSUME NEW s \in Seq(Message), s # <<>>, NEW t \in Thunks
    PROVE  /\ Head(s) \in Message /\ Tail(s) \in Seq(Message)
           /\ NothingAbout(s, t) => ~About(Head(s), t) /\ NothingAbout(Tail(s), t)
           /\ OnlyActions(s, t) =>
                /\ About(Head(s), t) => Head(s).kind \in {"dispatch", "batch"}
                /\ OnlyActions(Tail(s), t)
           /\ OnlyRegister(s, t) =>
                \/ ~About(Head(s), t) /\ OnlyRegister(Tail(s), t)
                \/ Head(s) = [kind |-> "register", of |-> t] /\ NothingAbout(Tail(s), t)
           /\ CompleteIsLast(s, t) =>
                \/ /\ About(Head(s), t) => Head(s).kind \in {"dispatch", "batch"}
                   /\ CompleteIsLast(Tail(s), t)
                \/ Head(s) = [kind |-> "complete", of |-> t] /\ NothingAbout(Tail(s), t)
           /\ Begun(Tail(s), t) => Begun(s, t)
<1> DEFINE u == Tail(s)
           m == Head(s)
<1>1. /\ m \in Message /\ u \in Seq(Message) /\ Len(u) \in Nat
      /\ m = s[1] /\ Len(s) = Len(u) + 1
      /\ \A i \in 1..Len(u) : u[i] = s[i + 1]
  OBVIOUS
<1> HIDE DEF u, m
<1>2. /\ 1 \in 1..Len(s)
      /\ \A i \in 1..Len(u) : i + 1 \in 1..Len(s) /\ i + 1 # 1
      /\ \A i \in 1..Len(s) : i = 1 \/ (i - 1 \in 1..Len(u) /\ u[i - 1] = s[i])
      /\ \A i, j \in 1..Len(u) : i + 1 < j + 1 => i < j
      /\ \A i, j \in 1..Len(u) : i + 1 = j + 1 => i = j
  <2>1. \A i \in 1..Len(s) : i = 1 \/ (i - 1 \in 1..Len(u) /\ (i - 1) + 1 = i)
    BY <1>1
  <2>2. \A i \in 1..Len(s) : i - 1 \in 1..Len(u) => u[i - 1] = s[(i - 1) + 1]
    BY <1>1
  <2>3. /\ 1 \in 1..Len(s)
        /\ \A i \in 1..Len(u) : i + 1 \in 1..Len(s) /\ i + 1 # 1
        /\ \A i, j \in 1..Len(u) : i + 1 < j + 1 => i < j
        /\ \A i, j \in 1..Len(u) : i + 1 = j + 1 => i = j
    BY <1>1
  <2> QED BY <2>1, <2>2, <2>3
<1>3. NothingAbout(s, t) => ~About(m, t) /\ NothingAbout(u, t)
  BY <1>1, <1>2 DEF NothingAbout
<1>4. OnlyActions(s, t) => (About(m, t) => m.kind \in {"dispatch", "batch"})
                           /\ OnlyActions(u, t)
  BY <1>1, <1>2 DEF OnlyActions
<1>5. OnlyRegister(s, t) =>
        \/ ~About(m, t) /\ OnlyRegister(u, t)
        \/ m = [kind |-> "register", of |-> t] /\ NothingAbout(u, t)
  <2> SUFFICES ASSUME OnlyRegister(s, t)
               PROVE  \/ ~About(m, t) /\ OnlyRegister(u, t)
                      \/ m = [kind |-> "register", of |-> t] /\ NothingAbout(u, t)
    OBVIOUS
  <2>1. PICK i \in 1..Len(s) :
          /\ s[i] = [kind |-> "register", of |-> t]
          /\ \A j \in 1..Len(s) : About(s[j], t) => j = i
    BY DEF OnlyRegister
  <2>2. CASE i = 1
    BY <1>1, <1>2, <2>1, <2>2 DEF NothingAbout
  <2>3. CASE i # 1
    <3>1. /\ i - 1 \in 1..Len(u) /\ u[i - 1] = [kind |-> "register", of |-> t]
          /\ \A j \in 1..Len(u) : About(u[j], t) => j = i - 1
      BY <1>1, <1>2, <2>1, <2>3
    <3>2. ~About(m, t)
      BY <1>1, <1>2, <2>1, <2>3
    <3> QED BY <3>1, <3>2 DEF OnlyRegister
  <2> QED BY <2>2, <2>3
<1>6. CompleteIsLast(s, t) =>
        \/ (About(m, t) => m.kind \in {"dispatch", "batch"}) /\ CompleteIsLast(u, t)
        \/ m = [kind |-> "complete", of |-> t] /\ NothingAbout(u, t)
  <2> SUFFICES ASSUME CompleteIsLast(s, t)
               PROVE  \/ /\ About(m, t) => m.kind \in {"dispatch", "batch"}
                         /\ CompleteIsLast(u, t)
                      \/ m = [kind |-> "complete", of |-> t] /\ NothingAbout(u, t)
    OBVIOUS
  <2>1. PICK i \in 1..Len(s) :
          /\ s[i] = [kind |-> "complete", of |-> t]
          /\ \A j \in 1..Len(s) : About(s[j], t) =>
                j = i \/ (j < i /\ s[j].kind \in {"dispatch", "batch"})
    BY DEF CompleteIsLast
  <2>2. CASE i = 1
    <3>1. \A j \in 1..Len(u) : ~About(u[j], t)
      BY <1>1, <1>2, <2>1, <2>2
    <3> QED BY <1>1, <2>1, <2>2, <3>1 DEF NothingAbout
  <2>3. CASE i # 1
    <3>1. /\ i - 1 \in 1..Len(u) /\ u[i - 1] = [kind |-> "complete", of |-> t]
          /\ \A j \in 1..Len(u) : About(u[j], t) =>
                j = i - 1 \/ (j < i - 1 /\ u[j].kind \in {"dispatch", "batch"})
      BY <1>1, <1>2, <2>1, <2>3
    <3>2. About(m, t) => m.kind \in {"dispatch", "batch"}
      BY <1>1, <1>2, <2>1, <2>3
    <3> QED BY <3>1, <3>2 DEF CompleteIsLast
  <2> QED BY <2>2, <2>3
<1>7. Begun(u, t) => Begun(s, t)
  BY <1>1, <1>2 DEF Begun
<1> QED BY <1>1, <1>3, <1>4, <1>5, <1>6, <1>7 DEF u, m

(* registerThunk and completeThunk: what the first registration to begin does
   to the state, and to where a thunk is. *)
LEMMA Admitted ==
    ASSUME NEW entries \in Seq(Registration), NEW running \in SUBSET known,
           NEW heldBack \in SUBSET Actions, Typed, Admit(entries, running, heldBack)
    PROVE  /\ registering' \in Seq(Registration) /\ answers' \in Seq(Message)
           /\ registering' # <<>> => executing' # {}
           /\ known' \subseteq Thunks /\ executing' \subseteq known'
           /\ held' \subseteq Actions
           /\ \A t \in Thunks :
                /\ NotIn(entries, t) => /\ NotIn(registering', t)
                                        /\ t \in executing' <=> t \in running
                                        /\ Begun(answers', t) => Begun(answers, t)
                /\ OnceIn(entries, t) =>
                     \/ OnceIn(registering', t) /\ (Begun(answers', t) => Begun(answers, t))
                     \/ NotIn(registering', t) /\ t \in executing'
<1> USE DEF Typed, PreloadTypeOK
<1>1. CASE ~(running = {} /\ entries # <<>>)
  BY <1>1 DEF Admit
<1>2. CASE running = {} /\ entries # <<>>
  <2> DEFINE e == Head(entries)
           u == Tail(entries)
  <2>1. /\ e \in Registration /\ e = entries[1] /\ 1 \in 1..Len(entries)
        /\ u \in Seq(Registration)
        /\ \A i \in 1..Len(u) : i + 1 \in 1..Len(entries) /\ i + 1 # 1 /\ u[i] = entries[i + 1]
        /\ \A i \in 1..Len(entries) : i = 1 \/ (i - 1 \in 1..Len(u) /\ u[i - 1] = entries[i])
        /\ \A i, j \in 1..Len(u) : i + 1 = j + 1 => i = j
    <3>1. /\ e \in Registration /\ e = entries[1] /\ 1 \in 1..Len(entries)
          /\ u \in Seq(Registration) /\ Len(u) \in Nat /\ Len(entries) = Len(u) + 1
          /\ \A i \in 1..Len(u) : u[i] = entries[i + 1]
      BY <1>2
    <3> HIDE DEF u, e
    <3>2. \A i \in 1..Len(entries) : i = 1 \/ (i - 1 \in 1..Len(u) /\ (i - 1) + 1 = i)
      BY <3>1
    <3>3. \A i \in 1..Len(entries) : i - 1 \in 1..Len(u) => u[i - 1] = entries[(i - 1) + 1]
      BY <3>1
    <3>4. /\ \A i \in 1..Len(u) : i + 1 \in 1..Len(entries) /\ i + 1 # 1
          /\ \A i, j \in 1..Len(u) : i + 1 = j + 1 => i = j
      BY <3>1
    <3> QED BY <3>1, <3>2, <3>3, <3>4
  <2> HIDE DEF e, u
  <2>2. /\ registering' = u /\ executing' = {e.thunk}
        /\ known' = known \cup {e.thunk}
        /\ held' = heldBack \cup ({e.for} \cap Actions)
        /\ answers' = IF e.for = "program"
                      THEN Append(answers, [kind |-> "register", of |-> e.thunk])
                      ELSE answers
    BY <1>2 DEF Admit, e, u
  <2>3. e.thunk \in Thunks
    BY <2>1 DEF Registration
  <2>4. [kind |-> "register", of |-> e.thunk] \in Message
    BY <2>3 DEF Message
  <2>5. answers' \in Seq(Message)
    BY <2>2, <2>4
  <2>6. ASSUME NEW t \in Thunks, e.thunk # t
        PROVE  Begun(answers', t) => Begun(answers, t)
    <3>1. Begun(Append(answers, [kind |-> "register", of |-> e.thunk]), t)
            => Begun(answers, t)
      BY <2>6 DEF Begun
    <3> QED BY <2>2, <3>1
  <2>7. ASSUME NEW t \in Thunks, NotIn(entries, t)
        PROVE  /\ NotIn(u, t) /\ e.thunk # t
    <3>1. \A i \in 1..Len(entries) : entries[i].thunk # t
      BY <2>7 DEF NotIn
    <3>2. e.thunk # t
      BY <2>1, <3>1
    <3>3. ASSUME NEW i \in 1..Len(u)
          PROVE  u[i].thunk # t
      <4>1. i + 1 \in 1..Len(entries) /\ u[i] = entries[i + 1]
        BY <2>1
      <4> QED BY <3>1, <4>1
    <3> QED BY <3>2, <3>3 DEF NotIn
  <2>8. ASSUME NEW t \in Thunks, OnceIn(entries, t)
        PROVE  \/ OnceIn(u, t) /\ e.thunk # t
               \/ NotIn(u, t) /\ e.thunk = t
    <3>1. PICK i \in 1..Len(entries) :
            /\ entries[i] = Entry(t, "program")
            /\ \A j \in 1..Len(entries) : entries[j].thunk = t => j = i
      BY <2>8 DEF OnceIn
    <3>2. CASE i = 1
      <4>1. e.thunk = t
        BY <2>1, <3>1, <3>2 DEF Entry
      <4>2. ASSUME NEW j \in 1..Len(u)
            PROVE  u[j].thunk # t
        <5>1. j + 1 \in 1..Len(entries) /\ j + 1 # i /\ u[j] = entries[j + 1]
          BY <2>1, <3>2
        <5> QED BY <3>1, <5>1
      <4> QED BY <4>1, <4>2 DEF NotIn
    <3>3. CASE i # 1
      <4>1. i - 1 \in 1..Len(u) /\ u[i - 1] = Entry(t, "program")
        BY <2>1, <3>1, <3>3
      <4>2. ASSUME NEW j \in 1..Len(u), u[j].thunk = t
            PROVE  j + 1 = i
        <5>1. j + 1 \in 1..Len(entries) /\ entries[j + 1].thunk = t
          BY <2>1, <4>2
        <5> QED BY <3>1, <5>1
      <4>3. \A j \in 1..Len(u) : j + 1 = i => j = i - 1
        OBVIOUS
      <4>4. \A j \in 1..Len(u) : u[j].thunk = t => j = i - 1
        BY <4>2, <4>3
      <4>5. e.thunk # t
        <5>1. 1 \in 1..Len(entries) /\ e = entries[1]
          BY <2>1
        <5> QED BY <3>1, <3>3, <5>1
      <4> QED BY <4>1, <4>4, <4>5 DEF OnceIn
    <3> QED BY <3>2, <3>3
  <2>9. /\ registering' # <<>> => executing' # {}
        /\ known' \subseteq Thunks /\ executing' \subseteq known'
        /\ held' \subseteq Actions /\ registering' \in Seq(Registration)
    BY <2>1, <2>2, <2>3
  <2> QED BY <1>2, <2>2, <2>5, <2>6, <2>7, <2>8, <2>9
<1> QED BY <1>1, <1>2

LEMMA Kinds ==
    ASSUME NEW s \in Seq(Message)
    PROVE  \A m \in ToSet(s) : m.kind \in {"register", "dispatch", "batch", "complete"}
<1>1. \A m \in ToSet(s) : m \in Message
  BY DEF ToSet
<1> QED BY <1>1 DEF Message

-----------------------------------------------------------------------------
(* What keeps a program and the main process in step. *)

LEMMA RegularBefore ==
    ASSUME Typed, awaited' = awaited, unregistered \subseteq unregistered',
           \A t \in Thunks : body[t] = "gone" => body'[t] = "gone",
           \A a \in Actions : call[a] # "new" => call'[a] # "new"
    PROVE  \A t \in Thunks : Regular(t)' => Regular(t)
BY PreloadDispatchAssumption DEF Regular, LateBatch, Plain

(* The body stays where it is, or goes on from a flush. *)
SameBody(t) ==
    body'[t] = body[t] \/ {body[t], body'[t]} \subseteq {"running", "flushing"}

(* Nothing is sent or received, and the main process does nothing with
   thunks. *)
LEMMA StillInStep ==
    ASSUME AllInStep, UNCHANGED <<toMain, registering, executing>>,
           configured => configured',
           \A t \in Thunks : Begun(answers', t) => Begun(answers, t),
           \A t \in Thunks : Regular(t)' => Regular(t) /\ SameBody(t)
    PROVE  AllInStep'
<1> SUFFICES ASSUME NEW t \in Thunks, Regular(t)' PROVE MessagesInStep(t)'
  BY DEF AllInStep
<1>1. MessagesInStep(t) /\ SameBody(t) /\ (Begun(answers', t) => Begun(answers, t))
  BY DEF AllInStep
<1>2. Begun(answers, t)' => Begun(answers, t)
  BY <1>1
<1>3. /\ Unknown(t) => Unknown(t)'
      /\ Asking(t) \/ InTurn(t) \/ Granted(t) => (Asking(t) \/ InTurn(t) \/ Granted(t))'
      /\ Active(t) => Active(t)'
      /\ Over(t) => Over(t)'
  BY <1>2 DEF Unknown, Asking, InTurn, Granted, Active, Over
<1> QED BY <1>1, <1>3 DEF MessagesInStep, SameBody

(* A message is sent that is about no thunk, or is an action of one that
   runs. *)
LEMMA SentInStep ==
    ASSUME Typed, AllInStep, UNCHANGED <<registering, executing, answers, configured>>,
           NEW m \in Message, toMain' = Append(toMain, m),
           \A t \in Thunks : Regular(t)' =>
              /\ Regular(t) /\ SameBody(t)
              /\ About(m, t) => /\ m.kind \in {"dispatch", "batch"}
                                /\ body[t] \in {"running", "flushing"}
    PROVE  AllInStep'
<1> SUFFICES ASSUME NEW t \in Thunks, Regular(t)' PROVE MessagesInStep(t)'
  BY DEF AllInStep
<1>1. MessagesInStep(t) /\ SameBody(t)
  BY DEF AllInStep
<1>2. toMain \in Seq(Message)
  BY DEF Typed
<1>3. /\ ~About(m, t) => /\ NothingAbout(toMain, t) => NothingAbout(toMain', t)
                         /\ OnlyRegister(toMain, t) => OnlyRegister(toMain', t)
                         /\ CompleteIsLast(toMain, t) => CompleteIsLast(toMain', t)
      /\ (~About(m, t) \/ m.kind \in {"dispatch", "batch"}) =>
            (OnlyActions(toMain, t) => OnlyActions(toMain', t))
  BY <1>2, Sent
<1>4. CASE body[t] \in {"running", "flushing"}
  <2>1. Active(t)' /\ body'[t] \in {"running", "flushing"} /\ configured'
    BY <1>1, <1>3, <1>4 DEF MessagesInStep, Active, SameBody
  <2> QED BY <2>1 DEF MessagesInStep
<1>5. CASE body[t] \notin {"running", "flushing"}
  <2>1. ~About(m, t) /\ body'[t] = body[t]
    BY <1>1, <1>5 DEF SameBody
  <2>2. /\ Unknown(t) => Unknown(t)'
        /\ Asking(t) \/ InTurn(t) \/ Granted(t) => (Asking(t) \/ InTurn(t) \/ Granted(t))'
        /\ Over(t) => Over(t)'
    BY <1>3, <2>1 DEF Unknown, Asking, InTurn, Granted, Over
  <2> QED BY <1>1, <1>5, <2>1, <2>2 DEF MessagesInStep
<1> QED BY <1>4, <1>5

-----------------------------------------------------------------------------
LEMMA InitPreload == PreloadInit => PreloadInv
<1> SUFFICES ASSUME PreloadInit PROVE PreloadInv
  OBVIOUS
<1> USE PreloadDispatchAssumption DEF PreloadInit
<1>1. Typed
  <2>1. IsFiniteSet({}) /\ Cardinality({}) = 0
    BY FS_EmptySet
  <2>2. \A m \in ToSet(toMain) : m.kind \in {"register", "dispatch", "batch", "complete"}
    BY DEF ToSet
  <2>3. /\ toMain \in Seq(Message) /\ answers \in Seq(Message)
        /\ registering \in Seq(Registration)
    OBVIOUS
  <2>4. /\ body \in [Thunks -> BodyStates] /\ call \in [Actions -> CallStates]
        /\ awaited \subseteq Actions
    BY DEF BodyStates, CallStates
  <2>5. Cardinality(dispatches) <= MaxQueueSize
    BY <2>1
  <2> QED BY <2>1, <2>2, <2>3, <2>4, <2>5 DEF Typed, PreloadTypeOK
<1>2. Batched
  BY FS_EmptySet DEF Batched
<1>3. SomebodySettles
  BY DEF SomebodySettles
<1>4. AllInStep
  <2> SUFFICES ASSUME NEW t \in Thunks PROVE MessagesInStep(t)
    BY DEF AllInStep
  <2>1. Unknown(t)
    BY DEF Unknown, NothingAbout, NotIn, Begun
  <2> QED BY <2>1 DEF MessagesInStep
<1> QED BY <1>1, <1>2, <1>3, <1>4 DEF PreloadInv

-----------------------------------------------------------------------------
(* The table of callbacks. *)

(* completeAction. *)
LEMMA CompleteActionInv ==
    ASSUME PreloadInv, NEW a \in Actions \ Plain, CompleteAction(a),
           UNCHANGED <<awaited, body, queued, inFlight, forgotten, unregistered>>
    PROVE  /\ Batched' /\ SomebodySettles'
           /\ call' \in [Actions -> CallStates]
           /\ callbacks' \subseteq Actions \ Plain
           /\ IsFiniteSet(dispatches') /\ Cardinality(dispatches') <= MaxQueueSize
           /\ \A b \in Actions : call[b] # "new" => call'[b] # "new"
           /\ \A b \in Actions : call'[b] = call[b] \/ call[b] = "waiting"
<1> USE DEF PreloadInv
<1>1. IsFiniteSet(dispatches') /\ Cardinality(dispatches') <= MaxQueueSize
  <2>1. /\ IsFiniteSet(dispatches) /\ dispatches' \in SUBSET dispatches
        /\ Cardinality(dispatches) <= MaxQueueSize /\ MaxQueueSize \in Nat
    BY PreloadDispatchAssumption DEF CompleteAction, Typed, PreloadTypeOK
  <2>2. Cardinality(dispatches) \in Nat /\ Cardinality(dispatches') \in Nat
    BY <2>1, FS_Subset, FS_CardinalityType
  <2> QED BY <2>1, <2>2, FS_Subset
<1>2. /\ call' \in [Actions -> CallStates]
      /\ \A b \in Actions :
            \/ call'[b] = call[b]
            \/ b = a /\ call[b] = "waiting" /\ call'[b] = "settled"
      /\ callbacks' = callbacks \ {a} /\ dispatches' = dispatches \ {a}
      /\ a \in callbacks /\ call[a] = "waiting" => call'[a] = "settled"
      /\ fulfilled \subseteq fulfilled'
      /\ a \in callbacks /\ call[a] = "sending" => a \in fulfilled'
  <2>1. call \in [Actions -> CallStates]
    BY DEF Typed, PreloadTypeOK
  <2>2. call' = IF a \in callbacks /\ call[a] = "waiting"
                THEN [call EXCEPT ![a] = "settled"] ELSE call
    BY DEF CompleteAction, AfterPromise
  <2>3. /\ call' \in [Actions -> CallStates]
        /\ \A b \in Actions :
              \/ call'[b] = call[b]
              \/ b = a /\ call[b] = "waiting" /\ call'[b] = "settled"
        /\ a \in callbacks /\ call[a] = "waiting" => call'[a] = "settled"
    BY <2>1, <2>2 DEF CallStates
  <2>4. /\ callbacks' = callbacks \ {a} /\ dispatches' = dispatches \ {a}
        /\ fulfilled \subseteq fulfilled'
        /\ a \in callbacks /\ call[a] = "sending" => a \in fulfilled'
    BY DEF CompleteAction, AfterPromise
  <2> QED BY <2>3, <2>4
<1>3. Batched'
  BY <1>2, PreloadDispatchAssumption DEF Batched, Plain
<1>4. SomebodySettles'
  BY <1>2 DEF SomebodySettles, Plain
<1> QED BY <1>1, <1>2, <1>3, <1>4 DEF Typed, PreloadTypeOK

LEMMA SafetyTimeoutInv ==
    ASSUME PreloadInv, NEW a \in Actions, SafetyTimeout(a)
    PROVE  PreloadInv'
<1>1. a \in Actions \ Plain
  BY DEF PreloadInv, Typed, PreloadTypeOK, SafetyTimeout
<1>2. /\ CompleteAction(a)
      /\ UNCHANGED <<awaited, body, queued, inFlight, forgotten, unregistered>>
      /\ UNCHANGED <<toMain, registering, executing, configured, answers>>
  BY DEF SafetyTimeout, options, batcher, ghosts, main
<1>3. /\ Batched' /\ SomebodySettles'
      /\ call' \in [Actions -> CallStates]
      /\ callbacks' \subseteq Actions \ Plain
      /\ IsFiniteSet(dispatches') /\ Cardinality(dispatches') <= MaxQueueSize
      /\ \A b \in Actions : call[b] # "new" => call'[b] # "new"
  BY <1>1, <1>2, CompleteActionInv
<1>4. Typed'
  BY <1>3 DEF PreloadInv, Typed, PreloadTypeOK, SafetyTimeout, options, batcher, ghosts, main
<1>5. AllInStep'
  <2>1. \A t \in Thunks : Regular(t)' => Regular(t)
    BY <1>2, <1>3, RegularBefore DEF PreloadInv
  <2> QED BY <1>2, <2>1, StillInStep DEF PreloadInv, SameBody
<1> QED BY <1>3, <1>4, <1>5 DEF PreloadInv

(* What only leaves what the main process sees. *)
LEMMA HideInv ==
    ASSUME PreloadInv, Hide
    PROVE  PreloadInv'
<1>1. /\ callbacks' = {} /\ dispatches' = {}
      /\ forgotten' = forgotten \cup {a \in callbacks : call[a] # "settled"}
      /\ page' = "hidden"
      /\ UNCHANGED <<options, configured, body, call, fulfilled, batcher, toMain, answers,
                     main, unregistered>>
  BY DEF Hide, ForceCleanup, ForgetCallbacks
<1>2. Typed'
  <2>1. IsFiniteSet(dispatches') /\ Cardinality(dispatches') <= MaxQueueSize
    BY <1>1, FS_EmptySet, PreloadDispatchAssumption
  <2> QED BY <1>1, <2>1 DEF PreloadInv, Typed, PreloadTypeOK, options, main
<1>3. Batched'
  BY <1>1 DEF PreloadInv, Batched, options, batcher
<1>4. SomebodySettles'
  BY <1>1 DEF PreloadInv, SomebodySettles, batcher
<1>5. AllInStep'
  BY <1>1, RegularBefore, StillInStep DEF PreloadInv, SameBody, options, main
<1> QED BY <1>2, <1>3, <1>4, <1>5 DEF PreloadInv

LEMMA UnloadInv ==
    ASSUME PreloadInv, Unload
    PROVE  PreloadInv'
<1>1. /\ callbacks' = {} /\ dispatches' = {}
      /\ queued' = {} /\ inFlight' = {}
      /\ body' = [t \in Thunks |-> "gone"]
      /\ call' = [a \in Actions |-> "gone"]
      /\ page' = "gone"
      /\ UNCHANGED <<options, configured, toMain, answers, main>>
  BY DEF Unload, DestroyRendererProcessor, ForceCleanup, ForgetCallbacks
<1>2. Typed'
  <2>1. IsFiniteSet(dispatches') /\ Cardinality(dispatches') <= MaxQueueSize
    BY <1>1, FS_EmptySet, PreloadDispatchAssumption
  <2> QED BY <1>1, <2>1 DEF PreloadInv, Typed, PreloadTypeOK, options, main, BodyStates, CallStates
<1>3. Batched'
  BY <1>1, FS_EmptySet, PreloadDispatchAssumption DEF Batched, Plain
<1>4. SomebodySettles'
  BY <1>1 DEF SomebodySettles
<1>5. AllInStep'
  BY <1>1 DEF AllInStep, Regular
<1> QED BY <1>2, <1>3, <1>4, <1>5 DEF PreloadInv

-----------------------------------------------------------------------------
(* executeThunk. *)

LEMMA ConfigureInv ==
    ASSUME PreloadInv, Configure
    PROVE  PreloadInv'
<1>1. configured' = TRUE
  BY DEF Configure, InitializeProcessor
<1>2. Typed' /\ Batched' /\ SomebodySettles'
  BY <1>1 DEF PreloadInv, Typed, PreloadTypeOK, Batched, SomebodySettles, Configure, options,
         processor, batcher, main, ghosts
<1>3. AllInStep'
  BY <1>1, RegularBefore, StillInStep
     DEF PreloadInv, SameBody, Configure, options, processor, batcher, main, ghosts
<1> QED BY <1>2, <1>3 DEF PreloadInv

LEMMA DispatchThunkInv ==
    ASSUME PreloadInv, NEW t \in Thunks, DispatchThunk(t)
    PROVE  PreloadInv'
<1> USE DEF PreloadInv
<1> DEFINE m == [kind |-> "register", of |-> t]
<1>1. /\ body[t] = "new"
      /\ \/ /\ configured /\ toMain' = Append(toMain, m)
            /\ body' = [body EXCEPT ![t] = "registering"]
            /\ unregistered' = unregistered
         \/ /\ toMain' = toMain
            /\ body' = [body EXCEPT ![t] = "running"]
            /\ unregistered' = unregistered \cup {t}
      /\ UNCHANGED <<options, configured, processor, batcher, answers, main, page, forgotten>>
  BY DEF DispatchThunk, ExecuteThunk, Send
<1>2. m \in Message /\ toMain \in Seq(Message)
  BY DEF Message, Typed
<1>3. toMain' \in Seq(Message)
  BY <1>1, <1>2
<1>4. /\ body' \in [Thunks -> BodyStates] /\ body'[t] \in {"registering", "running"}
      /\ \A u \in Thunks \ {t} : body'[u] = body[u]
  BY <1>1 DEF Typed, PreloadTypeOK, BodyStates, Live
<1>5. Typed'
  BY <1>1, <1>3, <1>4, Kinds DEF Typed, PreloadTypeOK, options, processor, main
<1>6. Batched'
  <2>1. \A a \in Actions \ Plain : ThunkOf[a] \in Thunks
    BY PreloadDispatchAssumption DEF Plain
  <2> QED BY <1>1, <1>4, <2>1 DEF Batched, options, processor, batcher
<1>7. SomebodySettles'
  BY <1>1 DEF SomebodySettles, processor, batcher
<1>8. \A u \in Thunks : Regular(u)' => Regular(u)
  BY <1>1, <1>4, RegularBefore DEF options, processor
<1>9. ASSUME NEW u \in Thunks, Regular(u)'
      PROVE  MessagesInStep(u)'
  <2>1. MessagesInStep(u)
    BY <1>8, <1>9 DEF AllInStep
  <2>2. CASE u = t
    <3>1. configured /\ toMain' = Append(toMain, m) /\ body'[u] = "registering"
      BY <1>1, <1>4, <1>9, <2>2 DEF Regular, Typed, PreloadTypeOK
    <3>2. Asking(u)'
      <4>1. Unknown(u)
        BY <1>1, <2>1, <2>2 DEF MessagesInStep
      <4>2. OnlyRegister(toMain', u)
        BY <1>2, <2>2, <3>1, <4>1, Sent DEF Unknown
      <4> QED BY <1>1, <4>1, <4>2 DEF Unknown, Asking, main
    <3> QED BY <1>1, <3>1, <3>2 DEF MessagesInStep
  <2>3. CASE u # t
    <3>1. ~About(m, u)
      BY <2>3 DEF About
    <3>2. /\ NothingAbout(toMain, u) => NothingAbout(toMain', u)
          /\ OnlyRegister(toMain, u) => OnlyRegister(toMain', u)
          /\ CompleteIsLast(toMain, u) => CompleteIsLast(toMain', u)
          /\ OnlyActions(toMain, u) => OnlyActions(toMain', u)
      BY <1>1, <1>2, <3>1, Sent
    <3>3. /\ Unknown(u) => Unknown(u)'
          /\ Asking(u) \/ InTurn(u) \/ Granted(u) => (Asking(u) \/ InTurn(u) \/ Granted(u))'
          /\ Active(u) => Active(u)'
          /\ Over(u) => Over(u)'
      BY <1>1, <3>2 DEF Unknown, Asking, InTurn, Granted, Active, Over, main
    <3> QED BY <1>1, <1>4, <2>1, <2>3, <3>3 DEF MessagesInStep
  <2> QED BY <2>2, <2>3
<1> QED BY <1>5, <1>6, <1>7, <1>9 DEF AllInStep

(* An answer that is read. *)
LEMMA Read ==
    ASSUME Typed, NEW kind, NEW of, Receives(kind, of)
    PROVE  /\ answers' \in Seq(Message)
           /\ [kind |-> kind, of |-> of] \in Message
           /\ \A t \in Thunks : Begun(answers', t) => Begun(answers, t)
           /\ kind = "register" => Begun(answers, of)
<1>1. /\ answers \in Seq(Message) /\ answers # <<>> /\ answers' = Tail(answers)
      /\ Head(answers) = [kind |-> kind, of |-> of]
  BY DEF Typed, Receives
<1>2. /\ Head(answers) \in Message /\ answers' \in Seq(Message)
      /\ \A t \in Thunks : Begun(answers', t) => Begun(answers, t)
  BY <1>1, Taken
<1>3. answers[1] = Head(answers) /\ 1 \in 1..Len(answers)
  BY <1>1
<1> QED BY <1>1, <1>2, <1>3 DEF Begun

LEMMA ThunkRegisteredInv ==
    ASSUME PreloadInv, NEW t \in Thunks, ThunkRegistered(t)
    PROVE  PreloadInv'
<1> USE DEF PreloadInv
<1>1. /\ answers' \in Seq(Message) /\ Begun(answers, t)
      /\ \A u \in Thunks : Begun(answers', u) => Begun(answers, u)
  BY Read DEF ThunkRegistered
<1>2. /\ body' \in [Thunks -> BodyStates]
      /\ \A u \in Thunks : \/ body'[u] = body[u]
                           \/ u = t /\ body[u] = "registering" /\ body'[u] = "running"
      /\ body[t] = "registering" => body'[t] = "running"
      /\ UNCHANGED <<options, configured, processor, batcher, toMain, main, ghosts>>
  BY DEF ThunkRegistered, Typed, PreloadTypeOK, BodyStates, Live
<1>3. Typed'
  BY <1>1, <1>2 DEF Typed, PreloadTypeOK, options, processor, main, ghosts
<1>4. Batched'
  <2>1. \A a \in Actions \ Plain : ThunkOf[a] \in Thunks
    BY PreloadDispatchAssumption DEF Plain
  <2>2. \A a \in Actions \ Plain :
          /\ body'[ThunkOf[a]] \in {"new", "registering"} => body[ThunkOf[a]] = body'[ThunkOf[a]]
          /\ body'[ThunkOf[a]] = "ended" => body[ThunkOf[a]] = "ended"
    BY <1>2, <2>1
  <2> QED BY <1>2, <2>2 DEF Batched, options, processor, batcher, ghosts
<1>5. SomebodySettles'
  BY <1>2 DEF SomebodySettles, processor, batcher, ghosts
<1>6. \A u \in Thunks : Regular(u)' => Regular(u)
  BY <1>2, RegularBefore DEF options, processor, ghosts
<1>7. ASSUME NEW u \in Thunks, Regular(u)'
      PROVE  MessagesInStep(u)'
  <2>1. MessagesInStep(u)
    BY <1>6, <1>7 DEF AllInStep
  <2>2. /\ Unknown(u) => Unknown(u)'
        /\ Asking(u) \/ InTurn(u) \/ Granted(u) => (Asking(u) \/ InTurn(u) \/ Granted(u))'
        /\ Active(u) => Active(u)'
        /\ Over(u) => Over(u)'
    BY <1>1, <1>2 DEF Unknown, Asking, InTurn, Granted, Active, Over, main
  <2>3. CASE body'[u] = body[u]
    BY <1>2, <2>1, <2>2, <2>3 DEF MessagesInStep
  <2>4. CASE u = t /\ body[u] = "registering" /\ body'[u] = "running"
    <3>1. Granted(u)
      BY <1>1, <2>1, <2>4 DEF MessagesInStep, Asking, InTurn
    <3>2. Active(u)
      BY <3>1 DEF Granted, Active, NothingAbout, OnlyActions
    <3> QED BY <1>2, <2>1, <2>2, <2>4, <3>2 DEF MessagesInStep
  <2> QED BY <1>2, <2>3, <2>4
<1> QED BY <1>3, <1>4, <1>5, <1>7 DEF AllInStep

LEMMA UnregisteredInv ==
    ASSUME PreloadInv, NEW S \in SUBSET Thunks, Unregistered(S)
    PROVE  PreloadInv'
<1> USE DEF PreloadInv
<1>1. /\ body' \in [Thunks -> BodyStates]
      /\ \A t \in Thunks : \/ t \notin S /\ body'[t] = body[t]
                           \/ t \in S /\ body[t] = "registering" /\ body'[t] = "running"
      /\ unregistered' = unregistered \cup S
      /\ UNCHANGED <<options, configured, processor, batcher, toMain, answers, main, page,
                     forgotten>>
  BY DEF Unregistered, Typed, PreloadTypeOK, BodyStates, Live
<1>2. Typed'
  BY <1>1 DEF Typed, PreloadTypeOK, options, processor, main
<1>3. Batched'
  <2>1. \A a \in Actions \ Plain : ThunkOf[a] \in Thunks
    BY PreloadDispatchAssumption DEF Plain
  <2>2. \A a \in Actions \ Plain :
          /\ body'[ThunkOf[a]] \in {"new", "registering"} => body[ThunkOf[a]] = body'[ThunkOf[a]]
          /\ body'[ThunkOf[a]] = "ended" => body[ThunkOf[a]] = "ended"
    BY <1>1, <2>1
  <2> QED BY <1>1, <2>2 DEF Batched, options, processor, batcher
<1>4. SomebodySettles'
  BY <1>1 DEF SomebodySettles, processor, batcher
<1>5. \A t \in Thunks : Regular(t)' => Regular(t) /\ SameBody(t)
  <2>1. \A t \in Thunks : Regular(t)' => Regular(t)
    BY <1>1, RegularBefore DEF options, processor
  <2> QED BY <1>1, <2>1 DEF Regular, SameBody
<1>6. AllInStep'
  BY <1>1, <1>5, StillInStep DEF main
<1> QED BY <1>2, <1>3, <1>4, <1>6

LEMMA BodyEndsInv ==
    ASSUME PreloadInv, NEW t \in Thunks, BodyEnds(t)
    PROVE  PreloadInv'
<1> USE DEF PreloadInv
<1> DEFINE m == [kind |-> "complete", of |-> t]
<1>1. /\ body[t] = "running" /\ ~Blocked(t)
      /\ body' = [body EXCEPT ![t] = "ended"]
      /\ \/ toMain' = Append(toMain, m)
         \/ ~configured /\ toMain' = toMain
      /\ UNCHANGED <<options, configured, processor, batcher, answers, main, ghosts>>
  BY DEF BodyEnds, Send
<1>2. m \in Message /\ toMain \in Seq(Message)
  BY DEF Message, Typed
<1>3. toMain' \in Seq(Message)
  BY <1>1, <1>2
<1>4. /\ body' \in [Thunks -> BodyStates] /\ body'[t] = "ended"
      /\ \A u \in Thunks \ {t} : body'[u] = body[u]
  BY <1>1 DEF Typed, PreloadTypeOK, BodyStates, Live
<1>5. Typed'
  BY <1>1, <1>3, <1>4, Kinds DEF Typed, PreloadTypeOK, options, processor, main, ghosts
<1>6. Batched'
  <2>1. \A a \in Actions \ Plain : ThunkOf[a] \in Thunks
    BY PreloadDispatchAssumption DEF Plain
  <2>2. \A a \in Actions \ Plain : a \in queued /\ ThunkOf[a] = t => a \notin awaited
    BY <1>1 DEF Batched, Blocked
  <2> QED BY <1>1, <1>4, <2>1, <2>2 DEF Batched, options, processor, batcher, ghosts
<1>7. SomebodySettles'
  BY <1>1 DEF SomebodySettles, processor, batcher, ghosts
<1>8. \A u \in Thunks : Regular(u)' => Regular(u)
  BY <1>1, <1>4, RegularBefore DEF options, processor, ghosts
<1>9. ASSUME NEW u \in Thunks, Regular(u)'
      PROVE  MessagesInStep(u)'
  <2>1. MessagesInStep(u)
    BY <1>8, <1>9 DEF AllInStep
  <2>2. CASE u = t
    <3>1. configured /\ Active(u)
      BY <1>1, <2>1, <2>2 DEF MessagesInStep
    <3>2. CompleteIsLast(toMain', u)
      BY <1>1, <1>2, <2>2, <3>1, Sent DEF Active
    <3>3. Over(u)'
      BY <1>1, <3>1, <3>2 DEF Active, Over, main
    <3> QED BY <1>1, <1>4, <2>2, <3>1, <3>3 DEF MessagesInStep
  <2>3. CASE u # t
    <3>1. ~About(m, u)
      BY <2>3 DEF About
    <3>2. /\ NothingAbout(toMain, u) => NothingAbout(toMain', u)
          /\ OnlyRegister(toMain, u) => OnlyRegister(toMain', u)
          /\ CompleteIsLast(toMain, u) => CompleteIsLast(toMain', u)
          /\ OnlyActions(toMain, u) => OnlyActions(toMain', u)
      BY <1>1, <1>2, <3>1, Sent
    <3>3. /\ Unknown(u) => Unknown(u)'
          /\ Asking(u) \/ InTurn(u) \/ Granted(u) => (Asking(u) \/ InTurn(u) \/ Granted(u))'
          /\ Active(u) => Active(u)'
          /\ Over(u) => Over(u)'
      BY <1>1, <3>2 DEF Unknown, Asking, InTurn, Granted, Active, Over, main
    <3> QED BY <1>1, <1>4, <2>1, <2>3, <3>3 DEF MessagesInStep
  <2> QED BY <2>2, <2>3
<1> QED BY <1>5, <1>6, <1>7, <1>9 DEF AllInStep

-----------------------------------------------------------------------------
(* The dispatch of an action. *)

(* The caller is answered, and nothing else happens. *)
LEMMA SettledInv ==
    ASSUME PreloadInv, NEW a \in Actions,
           a \in Plain \/ (call[a] = "new" /\ body[ThunkOf[a]] = "running"),
           call' = [call EXCEPT ![a] = "settled"],
           UNCHANGED <<options, configured, body, fulfilled, callbacks, dispatches, batcher,
                       toMain, answers, main, ghosts>>
    PROVE  PreloadInv'
<1> USE DEF PreloadInv
<1>1. /\ call' \in [Actions -> CallStates] /\ call'[a] = "settled"
      /\ \A b \in Actions \ {a} : call'[b] = call[b]
  BY DEF Typed, PreloadTypeOK, CallStates
<1>2. Typed'
  BY <1>1 DEF Typed, PreloadTypeOK, options, main, ghosts
<1>3. Batched'
  BY <1>1, PreloadDispatchAssumption DEF Batched, Plain, options, batcher, ghosts
<1>4. SomebodySettles'
  BY <1>1 DEF SomebodySettles, batcher, ghosts
<1>5. AllInStep'
  <2>1. \A t \in Thunks : Regular(t)' => Regular(t)
    BY <1>1, RegularBefore DEF options, ghosts
  <2> QED BY <2>1, StillInStep DEF SameBody, main
<1> QED BY <1>2, <1>3, <1>4, <1>5

LEMMA RefusedInv ==
    ASSUME PreloadInv, NEW a \in Actions,
           BodyDispatchRefused(a) \/ ValidationThrows(a) \/ DispatchTimesOut(a)
    PROVE  PreloadInv'
<1>1. a \in Plain \/ (call[a] = "new" /\ body[ThunkOf[a]] = "running")
  BY DEF BodyDispatchRefused, ValidationThrows, DispatchTimesOut, Dispatching
<1>2. /\ call' = [call EXCEPT ![a] = "settled"]
      /\ UNCHANGED <<options, configured, body, fulfilled, callbacks, dispatches, batcher,
                     toMain, answers, main, ghosts>>
  BY DEF BodyDispatchRefused, ValidationThrows, DispatchTimesOut
<1> QED BY <1>1, <1>2, SettledInv

(* The slot that a dispatch takes. *)
LEMMA SlotTaken ==
    ASSUME Typed, NEW a \in Actions, ~Full, dispatches' = dispatches \cup {a}
    PROVE  IsFiniteSet(dispatches') /\ Cardinality(dispatches') <= MaxQueueSize
<1>1. IsFiniteSet(dispatches) /\ MaxQueueSize \in Nat
  BY PreloadDispatchAssumption DEF Typed
<1>2. Cardinality(dispatches) \in Nat /\ Cardinality(dispatches) < MaxQueueSize
  BY <1>1, FS_CardinalityType DEF Full
<1>3. /\ IsFiniteSet(dispatches')
      /\ Cardinality(dispatches') = Cardinality(dispatches)
           \/ Cardinality(dispatches') = Cardinality(dispatches) + 1
  BY <1>1, FS_AddElement
<1> QED BY <1>1, <1>2, <1>3

LEMMA BodyDispatchInv ==
    ASSUME PreloadInv, NEW a \in Actions, BodyDispatch(a)
    PROVE  PreloadInv'
<1> USE DEF PreloadInv
<1> DEFINE t == ThunkOf[a]
           m == [kind |-> "dispatch", of |-> a]
<1>1. /\ call[a] = "new" /\ t # NoThunk /\ body[t] = "running" /\ ~Full
      /\ callbacks' = callbacks \cup {a} /\ dispatches' = dispatches \cup {a}
      /\ \/ /\ a \in OptedIn
            /\ queued' = queued \cup {a}
            /\ call' = [call EXCEPT ![a] = "sending"]
            /\ UNCHANGED <<inFlight, toMain>>
         \/ /\ toMain' = Append(toMain, m)
            /\ call' = [call EXCEPT ![a] = "waiting"]
            /\ UNCHANGED batcher
         \/ /\ call' = [call EXCEPT ![a] = "settled"]
            /\ UNCHANGED <<batcher, toMain>>
      /\ UNCHANGED <<options, configured, body, fulfilled, answers, main, ghosts>>
  BY DEF BodyDispatch, Dispatching, Track, SendAction, Send, UsesBatch, Plain
<1>2. a \notin Plain /\ t \in Thunks
  BY <1>1, PreloadDispatchAssumption DEF Plain
<1>3. m \in Message /\ toMain \in Seq(Message)
  BY DEF Message, Typed
<1>4. toMain' \in Seq(Message)
  BY <1>1, <1>3 DEF batcher
<1>5. /\ call' \in [Actions -> CallStates] /\ call'[a] # "new"
      /\ \A b \in Actions \ {a} : call'[b] = call[b]
  BY <1>1 DEF Typed, PreloadTypeOK, CallStates
<1>6. Typed'
  <2>1. IsFiniteSet(dispatches') /\ Cardinality(dispatches') <= MaxQueueSize
    BY <1>1, SlotTaken
  <2> QED BY <1>1, <1>2, <1>4, <1>5, <2>1, Kinds DEF Typed, PreloadTypeOK, options, main, ghosts
<1>7. Batched'
  <2>1. IsFiniteSet(queued')
    BY <1>1, FS_AddElement DEF Batched, batcher
  <2>2. a \notin queued \cup inFlight
    BY <1>1 DEF Batched
  <2> QED BY <1>1, <1>2, <1>5, <2>1, <2>2
          DEF Batched, Typed, PreloadTypeOK, options, batcher, ghosts
<1>8. SomebodySettles'
  BY <1>1, <1>5 DEF SomebodySettles, Typed, PreloadTypeOK, batcher, ghosts
<1>9. AllInStep'
  <2>1. \A u \in Thunks : Regular(u)' => Regular(u)
    BY <1>1, <1>5, RegularBefore DEF options, ghosts
  <2>2. CASE toMain' = toMain
    BY <1>1, <2>1, <2>2, StillInStep DEF SameBody, main
  <2>3. CASE toMain' = Append(toMain, m)
    <3>1. \A u \in Thunks : About(m, u) => u = t
      BY DEF About
    <3> HIDE DEF m
    <3>2. m.kind = "dispatch"
      BY DEF m
    <3> QED BY <1>1, <1>3, <2>1, <2>3, <3>1, <3>2, SentInStep DEF SameBody, main
  <2> QED BY <1>1, <2>2, <2>3
<1> QED BY <1>6, <1>7, <1>8, <1>9

LEMMA AppDispatchInv ==
    ASSUME PreloadInv, NEW a \in Actions, AppDispatch(a)
    PROVE  PreloadInv'
<1> USE DEF PreloadInv
<1> DEFINE m == [kind |-> "dispatch", of |-> a]
<1>1. /\ a \in Plain /\ call[a] = "new"
      /\ \/ /\ queued' = queued \cup {a}
            /\ call' = [call EXCEPT ![a] = "sending"]
            /\ UNCHANGED <<inFlight, toMain>>
         \/ /\ toMain' = Append(toMain, m)
            /\ call' = [call EXCEPT ![a] = "waiting"]
            /\ UNCHANGED batcher
      /\ UNCHANGED <<options, configured, body, fulfilled, callbacks, dispatches, answers,
                     main, ghosts>>
  BY DEF AppDispatch, SendAction, Send
<1>2. m \in Message /\ toMain \in Seq(Message)
  BY DEF Message, Typed
<1>3. toMain' \in Seq(Message)
  BY <1>1, <1>2
<1>4. /\ call' \in [Actions -> CallStates] /\ call'[a] # "new"
      /\ \A b \in Actions \ {a} : call'[b] = call[b]
  BY <1>1 DEF Typed, PreloadTypeOK, CallStates
<1>5. Typed'
  BY <1>1, <1>3, <1>4, Kinds DEF Typed, PreloadTypeOK, options, main, ghosts
<1>6. Batched'
  <2>1. IsFiniteSet(queued')
    BY <1>1, FS_AddElement DEF Batched, batcher
  <2>2. a \notin queued \cup inFlight
    BY <1>1 DEF Batched
  <2> QED BY <1>1, <1>4, <2>1, <2>2 DEF Batched, options, batcher, ghosts
<1>7. SomebodySettles'
  BY <1>1, <1>4 DEF SomebodySettles, Typed, PreloadTypeOK, batcher, ghosts
<1>8. AllInStep'
  <2>1. \A u \in Thunks : Regular(u)' => Regular(u)
    BY <1>1, <1>4, RegularBefore DEF options, ghosts
  <2>2. CASE toMain' = toMain
    BY <1>1, <2>1, <2>2, StillInStep DEF SameBody, main
  <2>3. CASE toMain' = Append(toMain, m)
    <3>1. \A u \in Thunks : ~About(m, u)
      BY <1>1, PreloadDispatchAssumption DEF About, Plain
    <3> QED BY <1>1, <1>2, <2>1, <2>3, <3>1, SentInStep DEF SameBody, main
  <2> QED BY <1>1, <2>2, <2>3
<1> QED BY <1>5, <1>6, <1>7, <1>8

LEMMA DispatchAnsweredInv ==
    ASSUME PreloadInv, NEW a \in Actions, DispatchAnswered(a)
    PROVE  PreloadInv'
<1> USE DEF PreloadInv
<1>1. /\ answers' \in Seq(Message)
      /\ \A t \in Thunks : Begun(answers', t) => Begun(answers, t)
  BY Read DEF DispatchAnswered
<1>2. UNCHANGED <<options, configured, body, batcher, toMain, main, ghosts>>
  BY DEF DispatchAnswered
<1>3. /\ Batched' /\ SomebodySettles'
      /\ call' \in [Actions -> CallStates]
      /\ callbacks' \subseteq Actions \ Plain
      /\ IsFiniteSet(dispatches') /\ Cardinality(dispatches') <= MaxQueueSize
      /\ \A b \in Actions : call[b] # "new" => call'[b] # "new"
  <2>1. CASE a \in Plain
    <3>1. /\ call' = [call EXCEPT ![a] = "settled"]
          /\ UNCHANGED <<fulfilled, callbacks, dispatches>>
      BY <2>1 DEF DispatchAnswered
    <3>2. /\ call' \in [Actions -> CallStates] /\ call'[a] = "settled"
          /\ \A b \in Actions \ {a} : call'[b] = call[b]
      BY <3>1 DEF Typed, PreloadTypeOK, CallStates
    <3>3. Batched'
      BY <1>2, <2>1, <3>1, <3>2 DEF Batched, options, batcher, ghosts
    <3>4. SomebodySettles'
      BY <1>2, <3>1, <3>2 DEF SomebodySettles, batcher, ghosts
    <3> QED BY <3>1, <3>2, <3>3, <3>4 DEF Typed, PreloadTypeOK
  <2>2. CASE a \notin Plain
    <3>1. CompleteAction(a) /\ a \in Actions \ Plain
      BY <2>2 DEF DispatchAnswered
    <3> QED BY <1>2, <3>1, CompleteActionInv DEF options, batcher, ghosts
  <2> QED BY <2>1, <2>2
<1>4. Typed'
  BY <1>1, <1>2, <1>3 DEF Typed, PreloadTypeOK, options, main, ghosts
<1>5. AllInStep'
  <2>1. \A t \in Thunks : Regular(t)' => Regular(t)
    BY <1>2, <1>3, RegularBefore DEF options, ghosts
  <2> QED BY <1>1, <1>2, <2>1, StillInStep DEF SameBody, main
<1> QED BY <1>3, <1>4, <1>5

-----------------------------------------------------------------------------
(* Batches. *)

(* A batch leaves the queue: it is about no thunk but those that run, or
   that NoOrphan does not speak of. *)
LEMMA StartFlushInv ==
    ASSUME PreloadInv, StartFlush,
           UNCHANGED <<options, configured, processor, answers, main, ghosts>>,
           body' \in [Thunks -> BodyStates],
           \A t \in Thunks : SameBody(t)
    PROVE  PreloadInv'
<1> USE DEF PreloadInv
<1> DEFINE m == [kind |-> "batch", of |-> queued]
<1>1. /\ inFlight = {} /\ inFlight' = queued /\ queued' = {}
      /\ toMain' = Append(toMain, m)
  BY DEF StartFlush, Send
<1>2. m \in Message /\ toMain \in Seq(Message)
  BY DEF Message, Typed, Batched, Batch
<1>3. toMain' \in Seq(Message)
  BY <1>1, <1>2
<1>4. Typed'
  BY <1>3, Kinds DEF Typed, PreloadTypeOK, options, processor, main, ghosts
<1>5. \A a \in Actions \ Plain : ThunkOf[a] \in Thunks
  BY PreloadDispatchAssumption DEF Plain
<1>6. Batched'
  <2>1. \A a \in Actions \ Plain : body'[ThunkOf[a]] \in {"new", "registering"}
          => body[ThunkOf[a]] \in {"new", "registering"}
    BY <1>5 DEF SameBody
  <2> QED BY <1>1, <2>1, FS_EmptySet DEF Batched, options, processor, ghosts
<1>7. SomebodySettles'
  BY <1>1 DEF SomebodySettles, processor, ghosts
<1>8. \A t \in Thunks : Regular(t)' => Regular(t)
  BY RegularBefore DEF SameBody, options, processor, ghosts
<1>9. ASSUME NEW t \in Thunks, Regular(t), About(m, t)
      PROVE  m.kind \in {"dispatch", "batch"} /\ body[t] \in {"running", "flushing"}
  <2>1. PICK a \in queued : ThunkOf[a] = t
    BY <1>9 DEF About
  <2>2. /\ a \in Actions \ Plain /\ a \in OptedIn
        /\ call[a] # "new" /\ body[t] \notin {"new", "registering"}
        /\ body[t] = "ended" => a \notin awaited
    BY <2>1, PreloadDispatchAssumption DEF Batched, Plain
  <2>3. body[t] \notin {"ended", "gone"}
    BY <1>9, <2>1, <2>2 DEF Regular, LateBatch
  <2> QED BY <2>2, <2>3 DEF Typed, PreloadTypeOK, BodyStates, Live
<1>10. AllInStep'
  <2> HIDE DEF m
  <2> QED BY <1>1, <1>2, <1>8, <1>9, SentInStep DEF main
<1> QED BY <1>4, <1>6, <1>7, <1>10

LEMMA FlushInv ==
    ASSUME PreloadInv, Flush
    PROVE  PreloadInv'
BY StartFlushInv DEF Flush, SameBody, PreloadInv, Typed, PreloadTypeOK

LEMMA BodyFlushInv ==
    ASSUME PreloadInv, NEW t \in Thunks, BodyFlush(t)
    PROVE  PreloadInv'
<1> USE DEF PreloadInv
<1>1. /\ body' \in [Thunks -> BodyStates]
      /\ \A u \in Thunks : SameBody(u)
      /\ UNCHANGED <<options, configured, processor, answers, main, ghosts>>
  BY DEF BodyFlush, Typed, PreloadTypeOK, BodyStates, Live, SameBody
<1>2. CASE StartFlush
  BY <1>1, <1>2, StartFlushInv
<1>3. CASE UNCHANGED <<batcher, toMain>>
  <2>1. Typed'
    BY <1>1, <1>3 DEF Typed, PreloadTypeOK, options, processor, main, ghosts
  <2>2. Batched'
    <3>1. \A a \in Actions \ Plain : ThunkOf[a] \in Thunks
      BY PreloadDispatchAssumption DEF Plain
    <3>2. \A a \in Actions \ Plain :
            /\ body'[ThunkOf[a]] \in {"new", "registering"}
                  => body[ThunkOf[a]] \in {"new", "registering"}
            /\ body'[ThunkOf[a]] = "ended" => body[ThunkOf[a]] = "ended"
      BY <1>1, <3>1 DEF SameBody
    <3> QED BY <1>1, <1>3, <3>2 DEF Batched, options, processor, batcher, ghosts
  <2>3. SomebodySettles'
    BY <1>1, <1>3 DEF SomebodySettles, processor, batcher, ghosts
  <2>4. AllInStep'
    <3>1. \A u \in Thunks : Regular(u)' => Regular(u)
      BY <1>1, RegularBefore DEF SameBody, options, processor, ghosts
    <3> QED BY <1>1, <1>3, <3>1, StillInStep DEF main
  <2> QED BY <2>1, <2>2, <2>3, <2>4
<1> QED BY <1>2, <1>3 DEF BodyFlush

(* A batch is answered, or given up. *)
LEMMA SettleBatchInv ==
    ASSUME PreloadInv, NEW bad, SettleBatch(bad), AnswerWaiters,
           answers' \in Seq(Message),
           \A t \in Thunks : Begun(answers', t) => Begun(answers, t),
           UNCHANGED <<options, configured, queued, toMain, main, ghosts>>
    PROVE  PreloadInv'
<1> USE DEF PreloadInv
<1>1. /\ body' \in [Thunks -> BodyStates]
      /\ \A t \in Thunks : SameBody(t)
  BY DEF AnswerWaiters, Typed, PreloadTypeOK, BodyStates, Live, SameBody
<1>2. /\ call' \in [Actions -> CallStates]
      /\ \A a \in Actions \ inFlight : call'[a] = call[a]
      /\ \A a \in Actions \cap inFlight : call'[a] \in {"settled", "waiting"}
      /\ \A a \in Actions \cap inFlight : call'[a] = "waiting"
            => a \notin Plain \cup callbacks \cup fulfilled
      /\ inFlight' = {} /\ fulfilled' = fulfilled
      /\ callbacks' = callbacks \ inFlight /\ dispatches' = dispatches \ inFlight
  BY DEF SettleBatch, Typed, PreloadTypeOK, CallStates
<1>3. IsFiniteSet(dispatches') /\ Cardinality(dispatches') <= MaxQueueSize
  <2>1. /\ IsFiniteSet(dispatches) /\ dispatches' \in SUBSET dispatches
        /\ Cardinality(dispatches) <= MaxQueueSize /\ MaxQueueSize \in Nat
    BY <1>2, PreloadDispatchAssumption DEF Typed, PreloadTypeOK
  <2>2. Cardinality(dispatches) \in Nat /\ Cardinality(dispatches') \in Nat
    BY <2>1, FS_Subset, FS_CardinalityType
  <2> QED BY <2>1, <2>2, FS_Subset
<1>4. Typed'
  BY <1>1, <1>2, <1>3 DEF Typed, PreloadTypeOK, options, main, ghosts
<1>5. Batched'
  <2>1. \A a \in Actions \ Plain : ThunkOf[a] \in Thunks
    BY PreloadDispatchAssumption DEF Plain
  <2>2. \A a \in Actions \ Plain :
          /\ body'[ThunkOf[a]] \in {"new", "registering"}
                => body[ThunkOf[a]] \in {"new", "registering"}
          /\ body'[ThunkOf[a]] = "ended" => body[ThunkOf[a]] = "ended"
    BY <1>1, <2>1 DEF SameBody
  <2> QED BY <1>2, <2>2 DEF Batched, options, ghosts
<1>6. SomebodySettles'
  BY <1>2 DEF SomebodySettles, Batched, ghosts
<1>7. AllInStep'
  <2>1. \A a \in Actions : call[a] # "new" => call'[a] # "new"
    BY <1>2
  <2>2. \A t \in Thunks : Regular(t)' => Regular(t)
    BY <1>1, <2>1, RegularBefore DEF SameBody, options, ghosts
  <2> QED BY <1>1, <2>2, StillInStep DEF main
<1> QED BY <1>4, <1>5, <1>6, <1>7

LEMMA BatchAnsweredInv ==
    ASSUME PreloadInv, NEW S \in SUBSET Actions, BatchAnswered(S)
    PROVE  PreloadInv'
<1> USE DEF PreloadInv
<1>1. /\ answers' \in Seq(Message)
      /\ \A t \in Thunks : Begun(answers', t) => Begun(answers, t)
      /\ UNCHANGED <<options, configured, queued, toMain, main, ghosts>>
  BY Read DEF BatchAnswered
<1>2. CASE S = inFlight
  BY <1>1, <1>2, SettleBatchInv DEF BatchAnswered
<1>3. CASE S # inFlight
  <2>1. UNCHANGED <<body, processor, inFlight>>
    BY <1>3 DEF BatchAnswered
  <2>2. Typed' /\ Batched' /\ SomebodySettles'
    BY <1>1, <2>1 DEF Typed, PreloadTypeOK, Batched, SomebodySettles, options, processor,
           main, ghosts
  <2>3. AllInStep'
    BY <1>1, <2>1, RegularBefore, StillInStep DEF SameBody, options, processor, main, ghosts
  <2> QED BY <2>2, <2>3
<1> QED BY <1>2, <1>3

LEMMA BatchTimesOutInv ==
    ASSUME PreloadInv, BatchTimesOut
    PROVE  PreloadInv'
BY SettleBatchInv DEF BatchTimesOut, PreloadInv, Typed

-----------------------------------------------------------------------------
(* The main process. *)

(* A message is received: what is asked of the new state, for each thunk, is
   what its program and the message make necessary. *)
LEMMA ReceivedInStep ==
    ASSUME Typed, AllInStep, toMain # <<>>, toMain' = Tail(toMain),
           UNCHANGED <<options, configured, body, processor, ghosts>>,
           NEW m, m = Head(toMain),
           \A t \in Thunks :
              LET register == [kind |-> "register", of |-> t]
                  complete == [kind |-> "complete", of |-> t]
              IN  /\ /\ m \notin {register, complete} /\ NotIn(registering, t)
                     /\ About(m, t) => t \in executing
                     => /\ NotIn(registering', t) /\ (t \in executing' <=> t \in executing)
                        /\ Begun(answers', t) => Begun(answers, t)
                  /\ \/ m = register /\ NotIn(registering, t)
                     \/ ~About(m, t) /\ OnceIn(registering, t)
                     => \/ /\ OnceIn(registering', t)
                           /\ Begun(answers', t) => Begun(answers, t)
                        \/ NotIn(registering', t) /\ t \in executing'
                  /\ m = complete /\ NotIn(registering, t)
                     => NotIn(registering', t) /\ t \notin executing'
    PROVE  AllInStep'
<1> SUFFICES ASSUME NEW t \in Thunks, Regular(t)' PROVE MessagesInStep(t)'
  BY DEF AllInStep
<1> DEFINE register == [kind |-> "register", of |-> t]
           complete == [kind |-> "complete", of |-> t]
<1>1. MessagesInStep(t) /\ body'[t] = body[t] /\ configured' = configured
  BY RegularBefore DEF AllInStep, options, processor, ghosts
<1>2. toMain \in Seq(Message)
  BY DEF Typed
<1>3. /\ NothingAbout(toMain, t) => ~About(m, t) /\ NothingAbout(toMain', t)
      /\ OnlyActions(toMain, t) =>
            /\ About(m, t) => m.kind \in {"dispatch", "batch"}
            /\ OnlyActions(toMain', t)
      /\ OnlyRegister(toMain, t) =>
            \/ ~About(m, t) /\ OnlyRegister(toMain', t)
            \/ m = register /\ NothingAbout(toMain', t)
      /\ CompleteIsLast(toMain, t) =>
            \/ /\ About(m, t) => m.kind \in {"dispatch", "batch"}
               /\ CompleteIsLast(toMain', t)
            \/ m = complete /\ NothingAbout(toMain', t)
  BY <1>2, Taken
<1>4. /\ /\ m \notin {register, complete} /\ NotIn(registering, t)
         /\ About(m, t) => t \in executing
         => /\ NotIn(registering', t) /\ (t \in executing' <=> t \in executing)
            /\ Begun(answers', t) => Begun(answers, t)
      /\ \/ m = register /\ NotIn(registering, t)
         \/ ~About(m, t) /\ OnceIn(registering, t)
         => \/ OnceIn(registering', t) /\ (Begun(answers', t) => Begun(answers, t))
            \/ NotIn(registering', t) /\ t \in executing'
      /\ m = complete /\ NotIn(registering, t)
         => NotIn(registering', t) /\ t \notin executing'
  OBVIOUS
<1>5. /\ ~About(m, t) => m \notin {register, complete}
      /\ (About(m, t) => m.kind \in {"dispatch", "batch"}) => m \notin {register, complete}
      /\ register # complete
  BY DEF About
<1> HIDE DEF register, complete
<1>6. Unknown(t) => Unknown(t)'
  BY <1>3, <1>4, <1>5 DEF Unknown
<1>7. Asking(t) => (Asking(t) \/ InTurn(t) \/ Granted(t))'
  BY <1>3, <1>4, <1>5 DEF Asking, InTurn, Granted
<1>8. InTurn(t) => (InTurn(t) \/ Granted(t))'
  BY <1>3, <1>4, <1>5 DEF InTurn, Granted
<1>9. Granted(t) => Granted(t)'
  BY <1>3, <1>4, <1>5 DEF Granted
<1>10. Active(t) => Active(t)'
  BY <1>3, <1>4, <1>5 DEF Active
<1>11. Over(t) => Over(t)'
  BY <1>3, <1>4, <1>5 DEF Over
<1> QED BY <1>1, <1>6, <1>7, <1>8, <1>9, <1>10, <1>11 DEF MessagesInStep

(* A registration is added. *)
LEMMA Asked ==
    ASSUME NEW s \in Seq(Registration), NEW e \in Registration, NEW t \in Thunks
    PROVE  /\ Append(s, e) \in Seq(Registration)
           /\ NotIn(s, t) /\ e.thunk # t => NotIn(Append(s, e), t)
           /\ OnceIn(s, t) /\ e.thunk # t => OnceIn(Append(s, e), t)
           /\ NotIn(s, t) /\ e = Entry(t, "program") => OnceIn(Append(s, e), t)
<1> DEFINE u == Append(s, e)
<1>1. /\ u \in Seq(Registration) /\ Len(u) = Len(s) + 1 /\ Len(s) \in Nat
      /\ \A i \in 1..Len(s) : u[i] = s[i]
      /\ u[Len(s) + 1] = e
  OBVIOUS
<1> HIDE DEF u
<1>2. \A i \in 1..Len(u) : i \in 1..Len(s) \/ i = Len(u)
  BY <1>1
<1>3. \A i \in 1..Len(u) : (i \in 1..Len(s) /\ u[i] = s[i]) \/ (i = Len(u) /\ u[i] = e)
  BY <1>1, <1>2
<1>4. Len(u) \in 1..Len(u) /\ \A i \in 1..Len(s) : i \in 1..Len(u)
  BY <1>1
<1>5. NotIn(s, t) /\ e.thunk # t => NotIn(u, t)
  BY <1>3 DEF NotIn
<1>6. OnceIn(s, t) /\ e.thunk # t => OnceIn(u, t)
  <2> SUFFICES ASSUME OnceIn(s, t), e.thunk # t PROVE OnceIn(u, t)
    OBVIOUS
  <2>1. PICK i \in 1..Len(s) : /\ s[i] = Entry(t, "program")
                               /\ \A j \in 1..Len(s) : s[j].thunk = t => j = i
    BY DEF OnceIn
  <2>2. /\ i \in 1..Len(u) /\ u[i] = Entry(t, "program")
        /\ \A j \in 1..Len(u) : u[j].thunk = t => j = i
    BY <1>1, <1>3, <1>4, <2>1
  <2> QED BY <2>2 DEF OnceIn
<1>7. NotIn(s, t) /\ e = Entry(t, "program") => OnceIn(u, t)
  <2>1. Len(u) \in 1..Len(u) /\ u[Len(u)] = e
    BY <1>1, <1>4
  <2> QED BY <1>3, <2>1 DEF NotIn, OnceIn
<1> QED BY <1>1, <1>5, <1>6, <1>7 DEF u

(* Those of a batch are about thunks of its actions. *)
LEMMA RegistrationsType ==
    ASSUME NEW A \in SUBSET (Actions \ Plain), IsFiniteSet(A)
    PROVE  /\ Registrations(A) \in Seq(Registration)
           /\ \A i \in 1..Len(Registrations(A)) :
                 \E a \in A : Registrations(A)[i].thunk = ThunkOf[a]
<1> DEFINE order == SetToSeq(A)
           r == [i \in 1..Len(order) |-> Entry(ThunkOf[order[i]], "batch")]
<1>1. order \in Seq(A)
  BY SetToSeqType
<1> HIDE DEF order
<1>2. /\ DOMAIN order = 1..Len(order) /\ Len(order) \in Nat
      /\ \A i \in 1..Len(order) : order[i] \in A
  BY <1>1
<1>3. \A a \in A : ThunkOf[a] \in Thunks
  BY PreloadDispatchAssumption DEF Plain
<1>4. Registrations(A) = r
  BY <1>2 DEF Registrations, order
<1>5. \A i \in 1..Len(order) : r[i] \in Registration /\ r[i].thunk = ThunkOf[order[i]]
  BY <1>2, <1>3 DEF Entry, Registration
<1>6. r \in [1..Len(order) -> Registration]
  BY <1>5
<1>7. r \in Seq(Registration) /\ Len(r) = Len(order)
  BY <1>2, <1>6
<1> HIDE DEF r
<1> QED BY <1>2, <1>4, <1>5, <1>7

LEMMA Joined ==
    ASSUME NEW s \in Seq(Registration), NEW r \in Seq(Registration), NEW t \in Thunks,
           NotIn(r, t)
    PROVE  /\ s \o r \in Seq(Registration)
           /\ NotIn(s, t) => NotIn(s \o r, t)
           /\ OnceIn(s, t) => OnceIn(s \o r, t)
<1> DEFINE u == s \o r
<1>1. /\ u \in Seq(Registration) /\ Len(u) = Len(s) + Len(r)
      /\ Len(s) \in Nat /\ Len(r) \in Nat
      /\ \A i \in 1..Len(s) : u[i] = s[i]
      /\ \A i \in Len(s)+1..Len(u) : u[i] = r[i - Len(s)]
  BY ConcatProperties
<1> HIDE DEF u
<1>2. /\ \A i \in 1..Len(u) : \/ i \in 1..Len(s)
                              \/ i \in Len(s)+1..Len(u) /\ i - Len(s) \in 1..Len(r)
      /\ \A i \in 1..Len(s) : i \in 1..Len(u)
  BY <1>1
<1>3. \A i \in 1..Len(u) : (i \in 1..Len(s) /\ u[i] = s[i]) \/ u[i].thunk # t
  BY <1>1, <1>2 DEF NotIn
<1>4. NotIn(s, t) => NotIn(u, t)
  BY <1>3 DEF NotIn
<1>5. OnceIn(s, t) => OnceIn(u, t)
  <2> SUFFICES ASSUME OnceIn(s, t) PROVE OnceIn(u, t)
    OBVIOUS
  <2>1. PICK i \in 1..Len(s) : /\ s[i] = Entry(t, "program")
                               /\ \A j \in 1..Len(s) : s[j].thunk = t => j = i
    BY DEF OnceIn
  <2>2. /\ i \in 1..Len(u) /\ u[i] = Entry(t, "program")
        /\ \A j \in 1..Len(u) : u[j].thunk = t => j = i
    BY <1>1, <1>2, <1>3, <2>1
  <2> QED BY <2>2 DEF OnceIn
<1> QED BY <1>1, <1>4, <1>5 DEF u

(* A message that makes the main process admit a thunk. *)
LEMMA AdmittedInv ==
    ASSUME PreloadInv, toMain # <<>>, toMain' = Tail(toMain),
           UNCHANGED <<options, configured, body, processor, batcher, ghosts>>,
           NEW m, m = Head(toMain),
           NEW entries \in Seq(Registration), NEW running \in SUBSET known,
           NEW heldBack \in SUBSET Actions, Admit(entries, running, heldBack),
           batches' \subseteq Batch,
           \A t \in Thunks :
              LET register == [kind |-> "register", of |-> t]
                  complete == [kind |-> "complete", of |-> t]
              IN  /\ /\ m \notin {register, complete} /\ NotIn(registering, t)
                     /\ About(m, t) => t \in executing
                     => NotIn(entries, t) /\ (t \in running <=> t \in executing)
                  /\ \/ m = register /\ NotIn(registering, t)
                     \/ ~About(m, t) /\ OnceIn(registering, t)
                     => OnceIn(entries, t)
                  /\ m = complete /\ NotIn(registering, t)
                     => NotIn(entries, t) /\ t \notin running
    PROVE  PreloadInv'
<1> USE DEF PreloadInv
<1>1. /\ registering' \in Seq(Registration) /\ answers' \in Seq(Message)
      /\ registering' # <<>> => executing' # {}
      /\ known' \subseteq Thunks /\ executing' \subseteq known'
      /\ held' \subseteq Actions
      /\ \A t \in Thunks :
           /\ NotIn(entries, t) => /\ NotIn(registering', t)
                                   /\ t \in executing' <=> t \in running
                                   /\ Begun(answers', t) => Begun(answers, t)
           /\ OnceIn(entries, t) =>
                \/ OnceIn(registering', t) /\ (Begun(answers', t) => Begun(answers, t))
                \/ NotIn(registering', t) /\ t \in executing'
  BY Admitted
<1>2. toMain' \in Seq(Message)
  BY DEF Typed
<1>3. Typed'
  BY <1>1, <1>2, Kinds DEF Typed, PreloadTypeOK, Batch, options, processor, ghosts
<1>4. Batched' /\ SomebodySettles'
  BY DEF Batched, SomebodySettles, options, processor, batcher, ghosts
<1>5. AllInStep'
  BY <1>1, ReceivedInStep
<1> QED BY <1>3, <1>4, <1>5

(* The message is answered at once. *)
LEMMA RefusesInv ==
    ASSUME PreloadInv, toMain # <<>>, toMain' = Tail(toMain),
           UNCHANGED <<options, configured, body, processor, batcher, ghosts, main>>,
           NEW a \in Message, a.kind \in {"dispatch", "batch"}, answers' = Append(answers, a),
           Head(toMain).kind \in {"dispatch", "batch"}
    PROVE  PreloadInv'
<1> USE DEF PreloadInv
<1>1. /\ toMain' \in Seq(Message) /\ answers' \in Seq(Message)
      /\ answers \in Seq(Message)
  BY DEF Typed
<1>2. \A t \in Thunks : Begun(answers', t) => Begun(answers, t)
  BY <1>1 DEF Begun
<1>3. Typed'
  BY <1>1, Kinds DEF Typed, PreloadTypeOK, options, processor, ghosts, main
<1>4. Batched' /\ SomebodySettles'
  BY DEF Batched, SomebodySettles, options, processor, batcher, ghosts
<1>5. AllInStep'
  <2>1. registering' = registering /\ executing' = executing
    BY DEF main
  <2> DEFINE m == Head(toMain)
  <2> HIDE DEF m
  <2>2. \A t \in Thunks : m # [kind |-> "register", of |-> t] /\ m # [kind |-> "complete", of |-> t]
    BY DEF m
  <2> QED BY <1>2, <2>1, <2>2, ReceivedInStep DEF m
<1> QED BY <1>3, <1>4, <1>5

LEMMA MainReceivesInv ==
    ASSUME PreloadInv, MainReceives
    PROVE  PreloadInv'
<1> USE DEF PreloadInv
<1> DEFINE m == Head(toMain)
<1>1. /\ toMain # <<>> /\ toMain' = Tail(toMain)
      /\ UNCHANGED <<options, configured, body, processor, batcher, ghosts>>
  BY DEF MainReceives
<1>2. m \in Message
  BY <1>1 DEF Typed
<1>3. /\ registering \in Seq(Registration) /\ executing \in SUBSET known
      /\ known \subseteq Thunks /\ held \in SUBSET Actions /\ batches \subseteq Batch
      /\ registering # <<>> => executing # {}
  BY DEF Typed, PreloadTypeOK
<1> HIDE DEF m
<1>4. CASE m.kind = "register"
  <2> DEFINE e == Entry(m.of, "program")
             entries == Append(registering, e)
  <2>1. m.of \in Thunks /\ m = [kind |-> "register", of |-> m.of]
    BY <1>2, <1>4 DEF Message
  <2>2. e \in Registration /\ e.thunk = m.of
    BY <2>1 DEF Registration, Entry
  <2>3. Admit(entries, executing, held) /\ UNCHANGED batches
    BY <1>4 DEF MainReceives, m
  <2>4. ASSUME NEW t \in Thunks
        PROVE  /\ entries \in Seq(Registration)
               /\ NotIn(registering, t) /\ m.of # t => NotIn(entries, t)
               /\ OnceIn(registering, t) /\ m.of # t => OnceIn(entries, t)
               /\ NotIn(registering, t) /\ m.of = t => OnceIn(entries, t)
    BY <1>3, <2>2, Asked
  <2>5. ASSUME NEW t \in Thunks
        PROVE  /\ m = [kind |-> "register", of |-> t] <=> m.of = t
               /\ m # [kind |-> "complete", of |-> t]
               /\ About(m, t) <=> m.of = t
    BY <1>4, <2>1 DEF About
  <2>6. entries \in Seq(Registration)
    BY <1>3, <2>2
  <2> HIDE DEF entries
  <2>7. \A t \in Thunks :
          LET register == [kind |-> "register", of |-> t]
              complete == [kind |-> "complete", of |-> t]
          IN  /\ /\ m \notin {register, complete} /\ NotIn(registering, t)
                 /\ About(m, t) => t \in executing
                 => NotIn(entries, t) /\ (t \in executing <=> t \in executing)
              /\ \/ m = register /\ NotIn(registering, t)
                 \/ ~About(m, t) /\ OnceIn(registering, t)
                 => OnceIn(entries, t)
              /\ m = complete /\ NotIn(registering, t)
                 => NotIn(entries, t) /\ t \notin executing
    BY <2>4, <2>5
  <2>8. batches' \subseteq Batch
    BY <1>3, <2>3
  <2> QED BY <1>1, <1>3, <2>3, <2>6, <2>7, <2>8, AdmittedInv DEF m
<1>5. CASE m.kind = "complete"
  <2>1. m.of \in Thunks /\ m = [kind |-> "complete", of |-> m.of]
    BY <1>2, <1>5 DEF Message
  <2>2. Admit(registering, executing \ {m.of}, held) /\ UNCHANGED batches
    BY <1>5 DEF MainReceives, ReceiveComplete, m
  <2>3. ASSUME NEW t \in Thunks
        PROVE  /\ m = [kind |-> "complete", of |-> t] <=> m.of = t
               /\ m # [kind |-> "register", of |-> t]
               /\ About(m, t) <=> m.of = t
    BY <1>5, <2>1 DEF About
  <2> DEFINE running == executing \ {m.of}
  <2>4. \A t \in Thunks :
          LET register == [kind |-> "register", of |-> t]
              complete == [kind |-> "complete", of |-> t]
          IN  /\ /\ m \notin {register, complete} /\ NotIn(registering, t)
                 /\ About(m, t) => t \in executing
                 => NotIn(registering, t) /\ (t \in running <=> t \in executing)
              /\ \/ m = register /\ NotIn(registering, t)
                 \/ ~About(m, t) /\ OnceIn(registering, t)
                 => OnceIn(registering, t)
              /\ m = complete /\ NotIn(registering, t)
                 => NotIn(registering, t) /\ t \notin running
    BY <2>3
  <2>5. running \in SUBSET known /\ batches' \subseteq Batch
    BY <1>3, <2>2
  <2> QED BY <1>1, <1>3, <2>2, <2>4, <2>5, AdmittedInv DEF m
<1>6. ASSUME m.kind \in {"dispatch", "batch"},
             NEW entries \in Seq(Registration), NEW heldBack \in SUBSET Actions,
             Admit(entries, executing, heldBack), batches' \subseteq Batch,
             \A t \in Thunks :
                /\ NotIn(registering, t) /\ (About(m, t) => t \in executing) => NotIn(entries, t)
                /\ ~About(m, t) /\ OnceIn(registering, t) => OnceIn(entries, t)
      PROVE  PreloadInv'
  <2>1. ASSUME NEW t \in Thunks
        PROVE  m # [kind |-> "register", of |-> t] /\ m # [kind |-> "complete", of |-> t]
    BY <1>6
  <2>2. \A t \in Thunks :
          LET register == [kind |-> "register", of |-> t]
              complete == [kind |-> "complete", of |-> t]
          IN  /\ /\ m \notin {register, complete} /\ NotIn(registering, t)
                 /\ About(m, t) => t \in executing
                 => NotIn(entries, t) /\ (t \in executing <=> t \in executing)
              /\ \/ m = register /\ NotIn(registering, t)
                 \/ ~About(m, t) /\ OnceIn(registering, t)
                 => OnceIn(entries, t)
              /\ m = complete /\ NotIn(registering, t)
                 => NotIn(entries, t) /\ t \notin executing
    BY <1>6, <2>1
  <2> QED BY <1>1, <1>3, <1>6, <2>2, AdmittedInv DEF m
<1>7. CASE m.kind = "dispatch"
  <2> DEFINE a == m.of
             e == Entry(ThunkOf[a], a)
  <2>1. a \in Actions /\ m = [kind |-> "dispatch", of |-> a]
    BY <1>2, <1>7 DEF Message
  <2>2. ReceiveDispatch(a) \/ RefuseDispatch(a)
    BY <1>7 DEF MainReceives, m
  <2>3. CASE RefuseDispatch(a)
    BY <1>1, <1>2, <1>7, <2>1, <2>3, RefusesInv DEF RefuseDispatch, m
  <2>4. CASE ReceiveDispatch(a) /\ (a \in Plain \/ ThunkOf[a] \in known)
    <3>1. Admit(registering, executing, held \cup {a}) /\ UNCHANGED batches
      BY <2>4 DEF ReceiveDispatch
    <3>2. held \cup {a} \in SUBSET Actions /\ batches' \subseteq Batch
      BY <1>3, <2>1, <3>1
    <3> HIDE DEF a
    <3> QED BY <1>3, <1>6, <1>7, <3>1, <3>2
  <2>5. CASE ReceiveDispatch(a) /\ ~(a \in Plain \/ ThunkOf[a] \in known)
    <3> DEFINE entries == Append(registering, e)
    <3>1. Admit(entries, executing, held) /\ UNCHANGED batches
      BY <2>5 DEF ReceiveDispatch
    <3>2. ThunkOf[a] \in Thunks /\ e \in Registration /\ e.thunk = ThunkOf[a]
      BY <2>1, <2>5, PreloadDispatchAssumption DEF Plain, Entry, Registration
    <3>3. entries \in Seq(Registration) /\ batches' \subseteq Batch
      BY <1>3, <3>1, <3>2
    <3>4. ASSUME NEW t \in Thunks
          PROVE  /\ NotIn(registering, t) /\ ThunkOf[a] # t => NotIn(entries, t)
                 /\ OnceIn(registering, t) /\ ThunkOf[a] # t => OnceIn(entries, t)
                 /\ About(m, t) <=> ThunkOf[a] = t
                 /\ t \in executing => ThunkOf[a] # t
      <4>1. About(m, t) <=> ThunkOf[a] = t
        BY <1>7 DEF About
      <4>2. t \in executing => ThunkOf[a] # t
        BY <1>3, <2>5
      <4> QED BY <1>3, <3>2, <4>1, <4>2, Asked
    <3> HIDE DEF entries, a
    <3> QED BY <1>3, <1>6, <1>7, <3>1, <3>3, <3>4
  <2> QED BY <2>2, <2>3, <2>4, <2>5
<1>8. CASE m.kind = "batch"
  <2> DEFINE S == m.of
             strangers == {a \in S \ Plain : ThunkOf[a] \notin known}
  <2>1. /\ S \in SUBSET Actions /\ IsFiniteSet(S) /\ S \in Batch
        /\ m = [kind |-> "batch", of |-> S]
    BY <1>2, <1>8 DEF Message, Batch
  <2>2. ReceiveBatch(S) \/ RefuseBatch(S)
    BY <1>8 DEF MainReceives, m
  <2>3. \A t \in Thunks : About(m, t) <=> \E a \in S : ThunkOf[a] = t
    BY <1>8 DEF About
  <2>4. CASE RefuseBatch(S)
    BY <1>1, <1>2, <1>8, <2>1, <2>4, RefusesInv DEF RefuseBatch, m
  <2> HIDE DEF S
  <2>5. ASSUME NEW A \in SUBSET strangers
        PROVE  /\ Registrations(A) \in Seq(Registration)
               /\ \A t \in Thunks : ~About(m, t) \/ t \in executing => NotIn(Registrations(A), t)
    <3>1. A \in SUBSET (Actions \ Plain) /\ IsFiniteSet(A)
      BY <2>1, FS_Subset
    <3>2. /\ Registrations(A) \in Seq(Registration)
          /\ \A i \in 1..Len(Registrations(A)) :
                \E a \in A : Registrations(A)[i].thunk = ThunkOf[a]
      BY <3>1, RegistrationsType
    <3>3. \A t \in Thunks, a \in A : ThunkOf[a] = t => About(m, t) /\ t \notin executing
      BY <1>3, <2>3
    <3> QED BY <3>2, <3>3 DEF NotIn
  <2>6. held \cup S \in SUBSET Actions
    BY <1>3, <2>1
  <2>7. CASE ReceiveBatch(S) /\ ~(executing = {} /\ strangers # {})
    <3> DEFINE entries == registering \o Registrations(strangers)
    <3>1. Admit(entries, executing, held \cup S) /\ batches' = batches \cup {S}
      BY <2>7 DEF ReceiveBatch
    <3>2. batches' \subseteq Batch
      BY <1>3, <2>1, <3>1
    <3>3. entries \in Seq(Registration)
      BY <1>3, <2>5
    <3>4. \A t \in Thunks :
            /\ NotIn(registering, t) /\ (About(m, t) => t \in executing) => NotIn(entries, t)
            /\ ~About(m, t) /\ OnceIn(registering, t) => OnceIn(entries, t)
      BY <1>3, <2>5, Joined
    <3> HIDE DEF entries, strangers
    <3> QED BY <1>6, <1>8, <2>6, <3>1, <3>2, <3>3, <3>4
  <2>8. CASE ReceiveBatch(S) /\ executing = {} /\ strangers # {}
    <3> DEFINE Others(a) == {b \in strangers : ThunkOf[b] # ThunkOf[a]}
    <3>1. PICK a \in strangers :
            Admit(<<Entry(ThunkOf[a], "batch")>> \o Registrations(Others(a)), {}, held \cup S)
      BY <2>8 DEF ReceiveBatch
    <3> DEFINE e == Entry(ThunkOf[a], "batch")
               rest == Registrations(Others(a))
               entries == <<e>> \o rest
    <3>2. batches' \subseteq Batch
      BY <1>3, <2>1, <2>8 DEF ReceiveBatch
    <3>3. /\ ThunkOf[a] \in Thunks /\ About(m, ThunkOf[a])
          /\ e \in Registration /\ e.thunk = ThunkOf[a]
      BY <2>1, <2>3, PreloadDispatchAssumption DEF Plain, Entry, Registration
    <3>4. /\ rest \in Seq(Registration)
          /\ \A t \in Thunks : ~About(m, t) => NotIn(rest, t)
      BY <2>5
    <3> HIDE DEF rest, e
    <3>5. /\ <<e>> \in Seq(Registration) /\ entries \in Seq(Registration)
          /\ \A t \in Thunks : ~About(m, t) => NotIn(<<e>>, t)
      BY <3>3, <3>4 DEF NotIn
    <3>6. registering = <<>>
      BY <1>3, <2>8
    <3>7. ASSUME NEW t \in Thunks
          PROVE  /\ NotIn(registering, t) /\ (About(m, t) => t \in executing) => NotIn(entries, t)
                 /\ ~About(m, t) /\ OnceIn(registering, t) => OnceIn(entries, t)
      <4>1. ~OnceIn(registering, t) /\ t \notin executing
        BY <2>8, <3>6 DEF OnceIn
      <4>2. ~About(m, t) => NotIn(entries, t)
        BY <3>4, <3>5, Joined
      <4> QED BY <4>1, <4>2
    <3>8. Admit(entries, executing, held \cup S)
      BY <2>8, <3>1 DEF rest, e
    <3> HIDE DEF entries, strangers
    <3> QED BY <1>6, <1>8, <2>6, <3>2, <3>5, <3>7, <3>8
  <2> QED BY <2>2, <2>4, <2>7, <2>8
<1> QED BY <1>2, <1>4, <1>5, <1>7, <1>8 DEF Message

LEMMA MainRunsInv ==
    ASSUME PreloadInv, NEW a \in Actions, MainRuns(a)
    PROVE  PreloadInv'
<1> USE DEF PreloadInv
<1>1. /\ held' \subseteq Actions
      /\ UNCHANGED <<options, configured, body, processor, batcher, toMain, registering,
                     known, executing, ghosts>>
  BY DEF MainRuns, Typed, PreloadTypeOK
<1>2. /\ batches' \subseteq Batch
      /\ \/ answers' = answers
         \/ \E b \in Message : b.kind # "register" /\ answers' = Append(answers, b)
  <2>1. CASE \E S \in batches : a \in S
    <3> DEFINE S == CHOOSE S \in batches : a \in S
    <3>1. S \in Batch
      BY <2>1 DEF Typed
    <3>2. [kind |-> "batch", of |-> S] \in Message
      BY <3>1 DEF Message
    <3>3. /\ batches' \subseteq batches
          /\ answers' = answers \/ answers' = Append(answers, [kind |-> "batch", of |-> S])
      BY <2>1 DEF MainRuns, Answer
    <3> HIDE DEF S
    <3> QED BY <3>2, <3>3 DEF Typed
  <2>2. CASE ~\E S \in batches : a \in S
    <3>1. [kind |-> "dispatch", of |-> a] \in Message
      BY DEF Message
    <3> QED BY <2>2, <3>1 DEF MainRuns, Answer, Typed
  <2> QED BY <2>1, <2>2
<1>3. /\ answers' \in Seq(Message)
      /\ \A t \in Thunks : Begun(answers', t) => Begun(answers, t)
  <2>1. answers \in Seq(Message)
    BY DEF Typed
  <2> QED BY <1>2, <2>1 DEF Begun
<1>4. Typed' /\ Batched' /\ SomebodySettles'
  <2>1. batches' \subseteq SUBSET Actions
    BY <1>2 DEF Batch
  <2> QED BY <1>1, <1>2, <1>3, <2>1
          DEF Typed, PreloadTypeOK, Batched, SomebodySettles, options, processor, batcher, ghosts
<1>5. AllInStep'
  BY <1>1, <1>3, RegularBefore, StillInStep DEF SameBody, options, processor, ghosts
<1> QED BY <1>4, <1>5

LEMMA MainForgetsInv ==
    ASSUME PreloadInv, NEW t \in Thunks, MainForgets(t)
    PROVE  PreloadInv'
<1> USE DEF PreloadInv
<1>1. /\ known' = known \ {t} /\ t \notin executing
      /\ UNCHANGED <<options, configured, body, processor, batcher, toMain, answers,
                     registering, executing, held, batches, ghosts>>
  BY DEF MainForgets
<1>2. Typed' /\ Batched' /\ SomebodySettles'
  BY <1>1 DEF Typed, PreloadTypeOK, Batched, SomebodySettles, options, processor, batcher, ghosts
<1>3. AllInStep'
  BY <1>1, RegularBefore, StillInStep DEF SameBody, options, processor, ghosts
<1> QED BY <1>2, <1>3

-----------------------------------------------------------------------------
LEMMA NextPreload == PreloadInv /\ [PreloadNext]_preloadVars => PreloadInv'
<1> SUFFICES ASSUME PreloadInv, [PreloadNext]_preloadVars PROVE PreloadInv'
  OBVIOUS
<1>1. CASE Progress
  <2>1. ASSUME NEW t \in Thunks, ThunkRegistered(t) \/ BodyEnds(t)
        PROVE  PreloadInv'
    BY <2>1, ThunkRegisteredInv, BodyEndsInv
  <2>2. ASSUME NEW a \in Actions, DispatchAnswered(a) \/ MainRuns(a)
        PROVE  PreloadInv'
    BY <2>2, DispatchAnsweredInv, MainRunsInv
  <2> QED BY <1>1, <2>1, <2>2, ConfigureInv, FlushInv, BatchAnsweredInv, MainReceivesInv
          DEF Progress
<1>2. ASSUME NEW t \in Thunks,
             DispatchThunk(t) \/ BodyFlush(t) \/ RegistrationTimesOut(t) \/ MainForgets(t)
      PROVE  PreloadInv'
  BY <1>2, DispatchThunkInv, BodyFlushInv, UnregisteredInv, MainForgetsInv
     DEF RegistrationTimesOut
<1>3. ASSUME NEW a \in Actions,
             \/ BodyDispatch(a) \/ BodyDispatchRefused(a) \/ AppDispatch(a)
             \/ ValidationThrows(a) \/ SafetyTimeout(a) \/ DispatchTimesOut(a)
      PROVE  PreloadInv'
  BY <1>3, BodyDispatchInv, RefusedInv, AppDispatchInv, SafetyTimeoutInv
<1>4. CASE BeforeUnload
  BY <1>4, UnregisteredInv DEF BeforeUnload
<1>5. CASE UNCHANGED preloadVars
  <2>1. /\ UNCHANGED <<options, configured, body, processor, batcher, toMain, answers, ghosts>>
        /\ UNCHANGED main
    BY <1>5 DEF preloadVars
  <2>2. Typed' /\ Batched' /\ SomebodySettles'
    BY <2>1 DEF PreloadInv, Typed, PreloadTypeOK, Batched, SomebodySettles, options, processor,
           batcher, main, ghosts
  <2>3. AllInStep'
    BY <2>1, RegularBefore, StillInStep
       DEF PreloadInv, SameBody, options, processor, main, ghosts
  <2> QED BY <2>2, <2>3 DEF PreloadInv
<1> QED BY <1>1, <1>2, <1>3, <1>4, <1>5, BatchTimesOutInv, HideInv, UnloadInv DEF PreloadNext

(* The inductive invariant holds in every behaviour. *)
THEOREM PreloadInvariant == PreloadSpec => []PreloadInv
BY InitPreload, NextPreload, PTL DEF PreloadSpec

(* A slot is held only while a timer will free it, and a dispatch that is not
   settled is with somebody who will settle it, whatever callbacks a hidden
   page drops. *)
THEOREM PreloadSettles == PreloadSpec => []SomebodySettles
BY PreloadInvariant, PTL DEF PreloadInv

(* A thunk that executes in the main process has a program, or a message that
   ends it is on its way: nothing that arrives late starts it again. *)
THEOREM PreloadOrphans == PreloadSpec => []NoOrphan
<1>1. PreloadInv => NoOrphan
  <2> SUFFICES ASSUME PreloadInv, NEW t \in executing, Orphan(t),
                      t \notin unregistered, ~LateBatch(t)
               PROVE  FALSE
    BY DEF NoOrphan, PreloadInv, Typed
  <2>1. t \in Thunks /\ toMain \in Seq(Message)
    BY DEF PreloadInv, Typed, PreloadTypeOK
  <2>2. CompleteIsLast(toMain, t)
    BY <2>1 DEF PreloadInv, AllInStep, Regular, MessagesInStep, Over, Orphan
  <2> QED BY <2>1, <2>2 DEF CompleteIsLast, Orphan, Completing
<1> QED BY <1>1, PreloadInvariant, PTL

-----------------------------------------------------------------------------
(* The main process *)

(* What runs is of the youngest bridge. *)
Pointed ==
    /\ manager # None => manager = executor
    /\ executor # None => born[executor] = created
    /\ executor = None => created = 0
    /\ \A b \in Bridges : bridge[b] # "none" <=> born[b] > 0
    /\ \A b \in Bridges : born[b] <= created
    /\ \A b, c \in Bridges : born[b] = born[c] /\ born[b] > 0 => b = c

(* A processor without a store has refused no live bridge but those that were
   alive when another one was released. *)
Released == manager = None => \A b \in Bridges : bridge[b] = "live" => b \in closings

(* The steps of a dispatch go with its promise. *)
InStep ==
    \A d \in Dispatches :
        /\ promise[d] = "idle" <=> home[d] = None
        /\ promise[d] = "idle" => place[d] = "none"
        /\ promise[d] = "refused" => place[d] = "none"
        /\ place[d] \in {"none", "queued"} => store[d] = None
        /\ home[d] # None => born[home[d]] > 0
        /\ outcome[d] = "none" => place[d] # "ran"
        /\ promise[d] = "completed" => outcome[d] # "none" /\ place[d] = "done"
        /\ outcome[d] = "dropped" => place[d] \in {"ran", "dropped", "done"} /\ store[d] = None

(* While no bridge comes or goes, a dispatch that waits has its action with
   the store that will answer. *)
Unmoved ==
    \A d \in Waiting \ moved :
        manager # None /\ store[d] \in {None, manager}

(* An applied action has the store it was applied to, which was created. *)
AppliedHasStore ==
    \A d \in Dispatches :
        /\ outcome[d] = "applied" => store[d] # None
        /\ place[d] \in {"awaiting", "detached"} => store[d] # None
        /\ store[d] # None => born[store[d]] > 0

DispatchInv ==
    /\ TypeOK /\ Pointed /\ Released /\ InStep /\ Unmoved /\ AppliedHasStore
    /\ AnswerHasEffect /\ ActionsStayAtHome

USE DispatchAssumption DEF Stores, Places, Waiting

-----------------------------------------------------------------------------
(* Once a bridge was created the queue has an executor, the youngest. *)
LEMMA YoungestExecutes ==
    ASSUME TypeOK, Pointed, NEW b \in Bridges, born[b] > 0
    PROVE  /\ executor \in Bridges /\ born[executor] > 0
           /\ executor # b => born[executor] > born[b]
BY DEF TypeOK, Pointed

LEMMA InitDispatch == Init => DispatchInv
BY DEF Init, DispatchInv, TypeOK, Pointed, Released, InStep, Unmoved, AppliedHasStore,
       AnswerHasEffect, ActionsStayAtHome

LEMMA CreateBridgeInv ==
    ASSUME DispatchInv, NEW b \in Bridges, CreateBridge(b)
    PROVE  DispatchInv'
<1>1. TypeOK'
  BY DEF DispatchInv, TypeOK, CreateBridge, InitActionQueue, CreateDispatch, Initialize,
         bridges, actions, promises
<1>2. Pointed' /\ Released'
  BY DEF DispatchInv, TypeOK, Pointed, Released, CreateBridge, InitActionQueue,
         CreateDispatch, Initialize, bridges, actions, promises
<1>3. InStep' /\ AppliedHasStore'
  BY DEF DispatchInv, TypeOK, Pointed, InStep, AppliedHasStore, CreateBridge,
         InitActionQueue, CreateDispatch, Initialize, bridges, actions, promises
<1>4. Unmoved'
  BY DEF DispatchInv, TypeOK, Pointed, InStep, Unmoved, CreateBridge, InitActionQueue,
         CreateDispatch, Initialize, bridges, actions, promises
<1>5. AnswerHasEffect'
  BY DEF DispatchInv, TypeOK, InStep, Unmoved, AppliedHasStore, AnswerHasEffect,
         CreateBridge, InitActionQueue, CreateDispatch, Initialize, bridges,
         actions, promises
<1>6. ActionsStayAtHome'
  BY DEF DispatchInv, TypeOK, Pointed, Released, InStep, AppliedHasStore, ActionsStayAtHome,
         CreateBridge, InitActionQueue, CreateDispatch, Initialize, bridges, actions,
         promises
<1> QED BY <1>1, <1>2, <1>3, <1>4, <1>5, <1>6 DEF DispatchInv

LEMMA BeginDestroyInv ==
    ASSUME DispatchInv, NEW b \in Bridges, BeginDestroy(b)
    PROVE  DispatchInv'
<1>1. TypeOK'
  BY DEF DispatchInv, TypeOK, BeginDestroy, bridges, actions, promises
<1>2. Pointed' /\ Released'
  BY DEF DispatchInv, TypeOK, Pointed, Released, BeginDestroy, bridges, actions, promises
<1>3. InStep' /\ AppliedHasStore'
  BY DEF DispatchInv, TypeOK, Pointed, InStep, AppliedHasStore, BeginDestroy, bridges, actions,
         promises
<1>4. Unmoved'
  BY DEF DispatchInv, TypeOK, Pointed, InStep, Unmoved, BeginDestroy, bridges, actions,
         promises
<1>5. AnswerHasEffect'
  BY DEF DispatchInv, TypeOK, InStep, Unmoved, AppliedHasStore, AnswerHasEffect, BeginDestroy,
         bridges, actions, promises
<1>6. ActionsStayAtHome'
  BY DEF DispatchInv, TypeOK, Pointed, Released, InStep, AppliedHasStore, ActionsStayAtHome,
         BeginDestroy, bridges, actions, promises
<1> QED BY <1>1, <1>2, <1>3, <1>4, <1>5, <1>6 DEF DispatchInv

LEMMA FinishDestroyInv ==
    ASSUME DispatchInv, NEW b \in Bridges, FinishDestroy(b)
    PROVE  DispatchInv'
<1>1. TypeOK'
  <2>1. TypeOK
    BY DEF DispatchInv
  <2>2. /\ promise' \in [Dispatches -> {"idle", "refused", "overflow", "waiting", "returned",
                                       "forced", "completed", "timeout"}]
        /\ pending' \subseteq Waiting' /\ manager' \in Stores
    BY <2>1 DEF TypeOK, FinishDestroy, ResetMainThunkProcessor, DestroyProcessor
  <2>3. /\ bridge' \in [Bridges -> {"none", "live", "closing", "closed"}]
        /\ closings' \subseteq Bridges /\ moved' \subseteq Dispatches
        /\ reachable' \in BOOLEAN
    BY <2>1 DEF TypeOK, FinishDestroy, ResetMainThunkProcessor
  <2>4. UNCHANGED <<executor, created, born, timers, answer, place, store, outcome, home>>
    BY DEF FinishDestroy, actions
  <2> QED BY <2>1, <2>2, <2>3, <2>4 DEF TypeOK
<1>2. Pointed' /\ Released'
  BY DEF DispatchInv, TypeOK, Pointed, Released, FinishDestroy, ResetMainThunkProcessor,
         DestroyProcessor, bridges, actions, promises
<1>3. InStep' /\ AppliedHasStore'
  BY DEF DispatchInv, TypeOK, Pointed, InStep, AppliedHasStore, FinishDestroy,
         ResetMainThunkProcessor, DestroyProcessor, bridges, actions, promises
<1>4. Unmoved'
  BY DEF DispatchInv, TypeOK, Pointed, InStep, Unmoved, FinishDestroy, ResetMainThunkProcessor,
         DestroyProcessor, bridges, actions, promises
<1>5. AnswerHasEffect'
  BY DEF DispatchInv, TypeOK, InStep, Unmoved, AppliedHasStore, AnswerHasEffect, FinishDestroy,
         ResetMainThunkProcessor, DestroyProcessor, bridges, actions, promises
<1>6. ActionsStayAtHome'
  BY DEF DispatchInv, TypeOK, Pointed, Released, InStep, AppliedHasStore, ActionsStayAtHome,
         FinishDestroy, ResetMainThunkProcessor, DestroyProcessor, bridges, actions,
         promises
<1> QED BY <1>1, <1>2, <1>3, <1>4, <1>5, <1>6 DEF DispatchInv

LEMMA RefuseInv ==
    ASSUME DispatchInv, NEW d \in Dispatches, NEW b \in Bridges, Refuse(d, b)
    PROVE  DispatchInv'
<1>1. TypeOK'
  BY DEF DispatchInv, TypeOK, Refuse, Call, bridges, actions, promises
<1>2. Pointed' /\ Released'
  BY DEF DispatchInv, TypeOK, Pointed, Released, Refuse, Call, bridges, actions, promises
<1>3. InStep' /\ AppliedHasStore'
  BY DEF DispatchInv, TypeOK, Pointed, InStep, AppliedHasStore, Refuse, Call, bridges, actions,
         promises
<1>4. Unmoved'
  BY DEF DispatchInv, TypeOK, Pointed, InStep, Unmoved, Refuse, Call, bridges, actions,
         promises
<1>5. AnswerHasEffect'
  BY DEF DispatchInv, TypeOK, InStep, Unmoved, AppliedHasStore, AnswerHasEffect, Refuse, Call,
         bridges, actions, promises
<1>6. ActionsStayAtHome'
  BY DEF DispatchInv, TypeOK, Pointed, Released, InStep, AppliedHasStore, ActionsStayAtHome,
         Refuse, Call, bridges, actions, promises
<1> QED BY <1>1, <1>2, <1>3, <1>4, <1>5, <1>6 DEF DispatchInv

LEMMA OverflowInv ==
    ASSUME DispatchInv, NEW d \in Dispatches, NEW b \in Bridges, Overflow(d, b)
    PROVE  DispatchInv'
<1>1. TypeOK'
  BY DEF DispatchInv, TypeOK, Overflow, Call, bridges, actions, promises
<1>2. Pointed' /\ Released'
  BY DEF DispatchInv, TypeOK, Pointed, Released, Overflow, Call, bridges, actions, promises
<1>3. InStep' /\ AppliedHasStore'
  BY DEF DispatchInv, TypeOK, Pointed, InStep, AppliedHasStore, Overflow, Call, bridges,
         actions, promises
<1>4. Unmoved'
  BY DEF DispatchInv, TypeOK, Pointed, InStep, Unmoved, Overflow, Call, bridges, actions,
         promises
<1>5. AnswerHasEffect'
  BY DEF DispatchInv, TypeOK, InStep, Unmoved, AppliedHasStore, AnswerHasEffect, Overflow,
         Call, bridges, actions, promises
<1>6. ActionsStayAtHome'
  BY DEF DispatchInv, TypeOK, Pointed, Released, InStep, AppliedHasStore, ActionsStayAtHome,
         Overflow, Call, bridges, actions, promises
<1> QED BY <1>1, <1>2, <1>3, <1>4, <1>5, <1>6 DEF DispatchInv

LEMMA EnqueueInv ==
    ASSUME DispatchInv, NEW d \in Dispatches, NEW b \in Bridges, Enqueue(d, b)
    PROVE  DispatchInv'
<1>1. TypeOK'
  BY DEF DispatchInv, TypeOK, Enqueue, Call, bridges, actions, promises
<1>2. Pointed' /\ Released'
  BY DEF DispatchInv, TypeOK, Pointed, Released, Enqueue, Call, bridges, actions, promises
<1>3. InStep' /\ AppliedHasStore'
  BY DEF DispatchInv, TypeOK, Pointed, InStep, AppliedHasStore, Enqueue, Call, bridges,
         actions, promises
<1>4. Unmoved'
  BY DEF DispatchInv, TypeOK, Pointed, InStep, Unmoved, Enqueue, Call, bridges, actions,
         promises
<1>5. AnswerHasEffect'
  BY DEF DispatchInv, TypeOK, InStep, Unmoved, AppliedHasStore, AnswerHasEffect, Enqueue, Call,
         bridges, actions, promises
<1>6. ActionsStayAtHome'
  BY DEF DispatchInv, TypeOK, Pointed, Released, InStep, AppliedHasStore, ActionsStayAtHome,
         Enqueue, Call, bridges, actions, promises
<1> QED BY <1>1, <1>2, <1>3, <1>4, <1>5, <1>6 DEF DispatchInv

LEMMA PlainDispatchInv ==
    ASSUME DispatchInv, NEW d \in Dispatches, NEW b \in Bridges, PlainDispatch(d, b)
    PROVE  DispatchInv'
<1>1. TypeOK'
  BY DEF DispatchInv, TypeOK, PlainDispatch, ProcessStandalone, ProcessAction,
         HandlerReturns, NoHandler, Call, bridges, actions, promises
<1>2. Pointed' /\ Released'
  BY DEF DispatchInv, TypeOK, Pointed, Released, PlainDispatch, ProcessStandalone,
         ProcessAction, HandlerReturns, NoHandler, Call, bridges, actions, promises
<1>3. InStep' /\ AppliedHasStore'
  BY DEF DispatchInv, TypeOK, Pointed, InStep, AppliedHasStore, PlainDispatch,
         ProcessStandalone, ProcessAction, HandlerReturns, NoHandler, Call, bridges,
         actions, promises
<1>4. Unmoved'
  BY DEF DispatchInv, TypeOK, Pointed, InStep, Unmoved, PlainDispatch, ProcessStandalone,
         ProcessAction, HandlerReturns, NoHandler, Call, bridges, actions, promises
<1>5. AnswerHasEffect'
  BY DEF DispatchInv, TypeOK, InStep, Unmoved, AppliedHasStore, AnswerHasEffect,
         PlainDispatch, ProcessStandalone, ProcessAction, HandlerReturns, NoHandler,
         Call, bridges, actions, promises
<1>6. ActionsStayAtHome'
  <2>1. born[b] > 0 /\ manager = executor
    BY DEF DispatchInv, TypeOK, Pointed, PlainDispatch, ProcessStandalone, ProcessAction,
           HandlerReturns, NoHandler, Call
  <2>2. executor # b => born[executor] > born[b]
    BY <2>1, YoungestExecutes DEF DispatchInv
  <2>3. home' = [home EXCEPT ![d] = b] /\ store' = [store EXCEPT ![d] = executor]
    BY <2>1 DEF PlainDispatch, ProcessStandalone, ProcessAction, HandlerReturns,
           NoHandler, Call
  <2> QED
    BY <2>2, <2>3 DEF DispatchInv, TypeOK, ActionsStayAtHome, PlainDispatch,
           ProcessStandalone, ProcessAction, HandlerReturns, NoHandler, Call, bridges
<1> QED BY <1>1, <1>2, <1>3, <1>4, <1>5, <1>6 DEF DispatchInv

LEMMA DropInv ==
    ASSUME DispatchInv, NEW d \in Dispatches, Drop(d)
    PROVE  DispatchInv'
<1>1. TypeOK'
  BY DEF DispatchInv, TypeOK, Drop, bridges, actions, promises
<1>2. Pointed' /\ Released'
  BY DEF DispatchInv, TypeOK, Pointed, Released, Drop, bridges, actions, promises
<1>3. InStep' /\ AppliedHasStore'
  BY DEF DispatchInv, TypeOK, Pointed, InStep, AppliedHasStore, Drop, bridges, actions,
         promises
<1>4. Unmoved'
  BY DEF DispatchInv, TypeOK, Pointed, InStep, Unmoved, Drop, bridges, actions, promises
<1>5. AnswerHasEffect'
  BY DEF DispatchInv, TypeOK, InStep, Unmoved, AppliedHasStore, AnswerHasEffect, Drop, bridges,
         actions, promises
<1>6. ActionsStayAtHome'
  BY DEF DispatchInv, TypeOK, Pointed, Released, InStep, AppliedHasStore, ActionsStayAtHome,
         Drop, bridges, actions, promises
<1> QED BY <1>1, <1>2, <1>3, <1>4, <1>5, <1>6 DEF DispatchInv

LEMMA ExecuteInv ==
    ASSUME DispatchInv, NEW d \in Dispatches, Execute(d)
    PROVE  DispatchInv'
<1>1. TypeOK'
  BY DEF DispatchInv, TypeOK, Execute, ProcessAction, HandlerReturns, NoHandler, bridges,
         actions, promises
<1>2. Pointed' /\ Released'
  BY DEF DispatchInv, TypeOK, Pointed, Released, Execute, ProcessAction, HandlerReturns,
         NoHandler, bridges, actions, promises
<1>3. InStep' /\ AppliedHasStore'
  BY DEF DispatchInv, TypeOK, Pointed, InStep, AppliedHasStore, Execute, ProcessAction,
         HandlerReturns, NoHandler, bridges, actions, promises
<1>4. Unmoved'
  BY DEF DispatchInv, TypeOK, Pointed, InStep, Unmoved, Execute, ProcessAction,
         HandlerReturns, NoHandler, bridges, actions, promises
<1>5. AnswerHasEffect'
  BY DEF DispatchInv, TypeOK, InStep, Unmoved, AppliedHasStore, AnswerHasEffect, Execute,
         ProcessAction, HandlerReturns, NoHandler, bridges, actions, promises
<1>6. ActionsStayAtHome'
  BY DEF DispatchInv, TypeOK, Pointed, Released, InStep, AppliedHasStore, ActionsStayAtHome,
         Execute, ProcessAction, HandlerReturns, NoHandler, bridges, actions, promises
<1> QED BY <1>1, <1>2, <1>3, <1>4, <1>5, <1>6 DEF DispatchInv

LEMMA HandlerEndsInv ==
    ASSUME DispatchInv, NEW d \in Dispatches, HandlerEnds(d)
    PROVE  DispatchInv'
<1>1. TypeOK'
  BY DEF DispatchInv, TypeOK, HandlerEnds, HandlerReturns, bridges, actions, promises
<1>2. Pointed' /\ Released'
  BY DEF DispatchInv, TypeOK, Pointed, Released, HandlerEnds, HandlerReturns, bridges,
         actions, promises
<1>3. InStep' /\ AppliedHasStore'
  BY DEF DispatchInv, TypeOK, Pointed, InStep, AppliedHasStore, HandlerEnds, HandlerReturns,
         bridges, actions, promises
<1>4. Unmoved'
  BY DEF DispatchInv, TypeOK, Pointed, InStep, Unmoved, HandlerEnds, HandlerReturns, bridges,
         actions, promises
<1>5. AnswerHasEffect'
  BY DEF DispatchInv, TypeOK, InStep, Unmoved, AppliedHasStore, AnswerHasEffect, HandlerEnds,
         HandlerReturns, bridges, actions, promises
<1>6. ActionsStayAtHome'
  BY DEF DispatchInv, TypeOK, Pointed, Released, InStep, AppliedHasStore, ActionsStayAtHome,
         HandlerEnds, HandlerReturns, bridges, actions, promises
<1> QED BY <1>1, <1>2, <1>3, <1>4, <1>5, <1>6 DEF DispatchInv

LEMMA CompleteInv ==
    ASSUME DispatchInv, NEW d \in Dispatches, Complete(d)
    PROVE  DispatchInv'
<1>1. TypeOK'
  BY DEF DispatchInv, TypeOK, Complete, bridges, actions, promises
<1>2. Pointed' /\ Released'
  BY DEF DispatchInv, TypeOK, Pointed, Released, Complete, bridges, actions, promises
<1>3. InStep' /\ AppliedHasStore'
  BY DEF DispatchInv, TypeOK, Pointed, InStep, AppliedHasStore, Complete, bridges, actions,
         promises
<1>4. Unmoved'
  BY DEF DispatchInv, TypeOK, Pointed, InStep, Unmoved, Complete, bridges, actions, promises
<1>5. AnswerHasEffect'
  BY DEF DispatchInv, TypeOK, InStep, Unmoved, AppliedHasStore, AnswerHasEffect, Complete,
         bridges, actions, promises
<1>6. ActionsStayAtHome'
  BY DEF DispatchInv, TypeOK, Pointed, Released, InStep, AppliedHasStore, ActionsStayAtHome,
         Complete, bridges, actions, promises
<1> QED BY <1>1, <1>2, <1>3, <1>4, <1>5, <1>6 DEF DispatchInv

LEMMA TimeoutInv ==
    ASSUME DispatchInv, NEW d \in Dispatches, Timeout(d)
    PROVE  DispatchInv'
<1>1. TypeOK'
  BY DEF DispatchInv, TypeOK, Timeout, bridges, actions, promises
<1>2. Pointed' /\ Released'
  BY DEF DispatchInv, TypeOK, Pointed, Released, Timeout, bridges, actions, promises
<1>3. InStep' /\ AppliedHasStore'
  BY DEF DispatchInv, TypeOK, Pointed, InStep, AppliedHasStore, Timeout, bridges, actions,
         promises
<1>4. Unmoved'
  BY DEF DispatchInv, TypeOK, Pointed, InStep, Unmoved, Timeout, bridges, actions, promises
<1>5. AnswerHasEffect'
  BY DEF DispatchInv, TypeOK, InStep, Unmoved, AppliedHasStore, AnswerHasEffect, Timeout,
         bridges, actions, promises
<1>6. ActionsStayAtHome'
  BY DEF DispatchInv, TypeOK, Pointed, Released, InStep, AppliedHasStore, ActionsStayAtHome,
         Timeout, bridges, actions, promises
<1> QED BY <1>1, <1>2, <1>3, <1>4, <1>5, <1>6 DEF DispatchInv

LEMMA NextDispatch == DispatchInv /\ [Next]_vars => DispatchInv'
<1> SUFFICES ASSUME DispatchInv, [Next]_vars PROVE DispatchInv'
  OBVIOUS
<1>1. CASE \E b \in Bridges : CreateBridge(b) \/ BeginDestroy(b) \/ FinishDestroy(b)
  BY <1>1, CreateBridgeInv, BeginDestroyInv, FinishDestroyInv
<1>2. CASE \E d \in Dispatches, b \in Bridges :
             Refuse(d, b) \/ Overflow(d, b) \/ Enqueue(d, b) \/ PlainDispatch(d, b)
  BY <1>2, RefuseInv, OverflowInv, EnqueueInv, PlainDispatchInv
<1>3. CASE \E d \in Dispatches :
             Drop(d) \/ Execute(d) \/ HandlerEnds(d) \/ Complete(d) \/ Timeout(d)
  BY <1>3, DropInv, ExecuteInv, HandlerEndsInv, CompleteInv, TimeoutInv
<1>4. CASE UNCHANGED vars
  BY <1>4 DEF DispatchInv, TypeOK, Pointed, Released, InStep, Unmoved, AppliedHasStore,
         AnswerHasEffect, ActionsStayAtHome, vars, bridges, actions, promises
<1> QED BY <1>1, <1>2, <1>3, <1>4 DEF Next

(* The inductive invariant holds in every behaviour. *)
THEOREM DispatchInvariant == Spec => []DispatchInv
BY InitDispatch, NextDispatch, PTL DEF Spec

(* A dispatch that is answered by a completion has an action whose handler has
   ended, and the state of the store it changed, unless a bridge came or went;
   or the queue dropped the action, and no store has seen it nor will. *)
THEOREM AnswersHaveEffect == Spec => []AnswerHasEffect
<1>1. DispatchInv => AnswerHasEffect
  BY DEF DispatchInv
<1> QED BY <1>1, DispatchInvariant, PTL

(* No action is applied to the store of an older bridge, and no live bridge
   refuses a dispatch unless another was destroyed during its life. *)
THEOREM StoresAreTheirs == Spec => []ActionsStayAtHome
<1>1. DispatchInv => ActionsStayAtHome
  BY DEF DispatchInv
<1> QED BY <1>1, DispatchInvariant, PTL
=============================================================================
