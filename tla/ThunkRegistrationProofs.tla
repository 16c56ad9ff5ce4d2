---------------------- MODULE ThunkRegistrationProofs ----------------------
(***************************************************************************)
(* ThunkRegistration, for any thunks, windows and faults: it has its types *)
(* and implements ThunkGate; its root is an executing thunk, which is what *)
(* the action scheduler relies on; programs and entries keep step; and the *)
(* queues lose no wakeup.                                                  *)
(***************************************************************************)
EXTENDS ThunkRegistration, SequenceTheorems, TLAPS

(* Each of these calls is pending once at most: the next one is made only
   when it has returned. *)
Single == {HandleSettled("ipc"), ClearRoot}

Once(c) == \A i, j \in DOMAIN c : c[i] = c[j] /\ c[i] \in Single => i = j

In(c, frame) == \E i \in DOMAIN c : c[i] = frame

OneCall == Once(calls)

Pending(frame) == In(calls, frame)

(* What a queued registration says of its thunk.  A main thunk registered
   again by an action has ended: while its body runs it is not absent. *)
Registrations ==
    \A q \in Queues : \A i \in DOMAIN queue[q] :
        /\ queue[q][i].immediate => queue[q][i].thunk \in Immediate
        /\ queue[q][i].thunk \in MainThunks <=> q = "main"
        /\ q = "main" =>
              body[queue[q][i].thunk] = IF queue[q][i].first THEN "queued" ELSE "done"

FirstOnce ==
    \A i, j \in DOMAIN queue["main"] :
        /\ queue["main"][i].first /\ queue["main"][j].first
        /\ queue["main"][i].thunk = queue["main"][j].thunk
        => i = j

(* The registration that handleCompletion settles is there. *)
Settling ==
    /\ Pending(HandleSettled("ipc")) => processing["ipc"] # None
    /\ processing["ipc"] # None => processing["ipc"].thunk \notin MainThunks

(* The lifecycle of a main thunk follows its body. *)
MainLifecycle ==
    \A t \in MainThunks :
        /\ body[t] = "running" => thunkState[t] = "executing"
        /\ t \in cleanup \/ thunkState[t] = "completed" => body[t] = "done"

(* While failThunk has its last statement to run, the root is the failed
   thunk, and nothing registers it again. *)
FailedRoot ==
    Pending(ClearRoot) =>
        /\ root \in Thunks
        /\ thunkState[root] = "failed"
        /\ \A q \in Queues : \A i \in DOMAIN queue[q] : queue[q][i].thunk # root

IInv ==
    /\ TypeOK
    /\ OneCall
    /\ Registrations
    /\ FirstOnce
    /\ Settling
    /\ MainLifecycle
    /\ FailedRoot
-----------------------------------------------------------------------------
(* The stack of calls. *)

(* A call that returns leaves the stack, and was there once if single. *)
LEMMA Popped ==
    ASSUME NEW c \in Seq(Frames), c # <<>>, Once(c)
    PROVE  /\ Tail(c) \in Seq(Frames)
           /\ Once(Tail(c))
           /\ \A f : In(Tail(c), f) => In(c, f)
           /\ Head(c) \in Single => ~In(Tail(c), Head(c))
<1>1. /\ Tail(c) \in Seq(Frames)
      /\ Len(Tail(c)) = Len(c) - 1
      /\ \A i \in 1 .. Len(c) - 1 : Tail(c)[i] = c[i + 1]
      /\ Len(c) \in Nat /\ Len(c) >= 1
      /\ Head(c) = c[1]
  BY EmptySeq
<1>2. DOMAIN c = 1 .. Len(c) /\ DOMAIN Tail(c) = 1 .. Len(c) - 1
  BY <1>1
<1>3. Once(Tail(c))
  BY <1>1, <1>2 DEF Once
<1>4. \A f : In(Tail(c), f) => In(c, f)
  BY <1>1, <1>2 DEF In
<1>5. Head(c) \in Single => ~In(Tail(c), Head(c))
  BY <1>1, <1>2 DEF Once, In
<1> QED
  BY <1>1, <1>3, <1>4, <1>5

(* A call that is made goes on top of the stack. *)
LEMMA Pushed ==
    ASSUME NEW c \in Seq(Frames), Once(c),
           NEW f \in Frames, f \in Single => ~In(c, f)
    PROVE  /\ <<f>> \o c \in Seq(Frames)
           /\ Once(<<f>> \o c)
           /\ \A g : In(<<f>> \o c, g) <=> g = f \/ In(c, g)
<1> DEFINE d == <<f>> \o c
<1>1. /\ d \in Seq(Frames)
      /\ Len(d) = Len(c) + 1
      /\ d[1] = f
      /\ \A i \in 1 .. Len(c) : d[i + 1] = c[i]
      /\ Len(c) \in Nat
  OBVIOUS
<1>2. /\ 1 \in DOMAIN d /\ d[1] = f
      /\ \A i \in DOMAIN c : i + 1 \in DOMAIN d /\ d[i + 1] = c[i]
      /\ \A i \in DOMAIN d : i # 1 => i - 1 \in DOMAIN c /\ d[i] = c[i - 1]
  BY <1>1
<1>3. DOMAIN d \subseteq Nat
  BY <1>1
<1> HIDE DEF d
<1>4. Once(d)
  <2> SUFFICES ASSUME NEW i \in DOMAIN d, NEW j \in DOMAIN d,
                      d[i] = d[j], d[i] \in Single
               PROVE  i = j
    BY DEF Once
  <2>1. CASE i # 1 /\ j # 1
    <3>1. i - 1 = j - 1
      BY <1>2, <2>1 DEF Once
    <3> QED
      BY <1>3, <3>1
  <2>2. CASE i = 1 /\ j # 1
    BY <1>2, <2>2 DEF In
  <2>3. CASE j = 1 /\ i # 1
    BY <1>2, <2>3 DEF In
  <2> QED
    BY <2>1, <2>2, <2>3
<1>5. ASSUME NEW g PROVE In(d, g) <=> g = f \/ In(c, g)
  <2>1. In(d, g) => g = f \/ In(c, g)
    BY <1>2 DEF In
  <2>2. In(c, g) => In(d, g)
    BY <1>2 DEF In
  <2>3. In(d, f)
    BY <1>2 DEF In
  <2> QED
    BY <2>1, <2>2, <2>3
<1> QED
  BY <1>1, <1>4, <1>5 DEF d

LEMMA FrameTypes ==
    /\ \A q \in Queues : ProcessNext(q) \in Frames /\ ProcessNext(q) \notin Single
    /\ \A q \in Queues : HandleSettled(q) \in Frames
    /\ HandleSettled("main") \notin Single
    /\ \A t \in Thunks : TryFinalCleanup(t) \in Frames /\ TryFinalCleanup(t) \notin Single
    /\ ClearRoot \in Frames
    /\ HandleSettled("ipc") # ClearRoot
BY DEF Frames, Single, Queues, ProcessNext, HandleSettled, TryFinalCleanup, ClearRoot

LEMMA Empty ==
    /\ <<>> \in Seq(Frames)
    /\ Once(<<>>)
    /\ \A f : ~In(<<>>, f)
BY DEF Once, In

(* An emit puts its two listeners on top of the stack. *)
LEMMA Emitted ==
    ASSUME NEW c \in Seq(Frames), Once(c)
    PROVE  /\ Listeners \o c \in Seq(Frames)
           /\ Once(Listeners \o c)
           /\ \A g \in Single : In(Listeners \o c, g) <=> In(c, g)
           /\ \A g : In(c, g) => In(Listeners \o c, g)
           /\ \A q \in Queues : In(Listeners \o c, ProcessNext(q))
<1> DEFINE m == ProcessNext("main")
           i == ProcessNext("ipc")
           d == <<i>> \o c
<1>1. /\ m \in Frames /\ m \notin Single
      /\ i \in Frames /\ i \notin Single
  BY FrameTypes DEF Queues
<1>2. Listeners \o c = <<m>> \o d
  BY <1>1 DEF Listeners
<1> HIDE DEF m, i
<1>3. /\ d \in Seq(Frames)
      /\ Once(d)
      /\ \A g : In(d, g) <=> g = i \/ In(c, g)
  BY <1>1, Pushed
<1> HIDE DEF d
<1>4. /\ <<m>> \o d \in Seq(Frames)
      /\ Once(<<m>> \o d)
      /\ \A g : In(<<m>> \o d, g) <=> g = m \/ In(d, g)
  BY <1>1, <1>3, Pushed
<1>5. \A q \in Queues : ProcessNext(q) = m \/ ProcessNext(q) = i
  BY DEF Queues, m, i
<1> QED
  BY <1>1, <1>2, <1>3, <1>4, <1>5

(* The calls of completeThunk: none of them is single, and they come before
   those that follow it.  The end of the root calls both queues. *)
LEMMA CompleteCalls ==
    ASSUME NEW t \in Thunks, NEW rest \in Seq(Frames), Once(rest),
           CompleteThunk(t, rest)
    PROVE  /\ calls' \in Seq(Frames)
           /\ Once(calls')
           /\ \A g \in Single : In(calls', g) <=> In(rest, g)
           /\ \A g : In(rest, g) => In(calls', g)
           /\ root = t /\ thunkState[t] \notin {"absent", "completed"} =>
                 \A q \in Queues : In(calls', ProcessNext(q))
<1> DEFINE f == TryFinalCleanup(t)
           d == <<f>> \o rest
<1>1. f \in Frames /\ f \notin Single
  BY FrameTypes
<1>2. /\ \/ calls' = rest
         \/ calls' = d
         \/ calls' = Listeners \o d
      /\ root = t /\ thunkState[t] \notin {"absent", "completed"} =>
            calls' = Listeners \o d
  <2>1. (Listeners \o <<f>>) \o rest = Listeners \o d
    BY <1>1, FrameTypes, ConcatAssociative DEF Listeners, Queues
  <2>2. (<<>> \o <<f>>) \o rest = d
    OBVIOUS
  <2> QED
    BY <2>1, <2>2 DEF CompleteThunk
<1> HIDE DEF f
<1>3. /\ d \in Seq(Frames)
      /\ Once(d)
      /\ \A g : In(d, g) <=> g = f \/ In(rest, g)
  BY <1>1, Pushed
<1> HIDE DEF d
<1>4. /\ Listeners \o d \in Seq(Frames)
      /\ Once(Listeners \o d)
      /\ \A g \in Single : In(Listeners \o d, g) <=> In(d, g)
      /\ \A g : In(d, g) => In(Listeners \o d, g)
      /\ \A q \in Queues : In(Listeners \o d, ProcessNext(q))
  BY <1>3, Emitted
<1> QED
  BY <1>1, <1>2, <1>3, <1>4

(* The calls of failThunk, which end with giving up the root. *)
LEMMA FailCalls ==
    ASSUME NEW t \in Thunks, NEW rest \in Seq(Frames), Once(rest),
           ~In(rest, ClearRoot), FailThunk(t, rest)
    PROVE  /\ calls' \in Seq(Frames)
           /\ Once(calls')
           /\ \A g \in Single :
                 In(calls', g) =>
                     \/ In(rest, g)
                     \/ g = ClearRoot /\ root = t /\ thunkState[t] # "absent"
           /\ \A g : In(rest, g) => In(calls', g)
<1> DEFINE d == <<ClearRoot>> \o rest
<1>1. \/ calls' = rest
      \/ calls' = Listeners \o d /\ root = t /\ thunkState[t] # "absent"
  <2>1. (Listeners \o <<ClearRoot>>) \o rest = Listeners \o d
    BY FrameTypes, ConcatAssociative DEF Listeners, Queues
  <2>2. <<>> \o rest = rest
    OBVIOUS
  <2> QED
    BY <2>1, <2>2 DEF FailThunk
<1>2. /\ d \in Seq(Frames)
      /\ Once(d)
      /\ \A g : In(d, g) <=> g = ClearRoot \/ In(rest, g)
  BY FrameTypes, Pushed
<1> HIDE DEF d
<1>3. /\ Listeners \o d \in Seq(Frames)
      /\ Once(Listeners \o d)
      /\ \A g \in Single : In(Listeners \o d, g) <=> In(d, g)
      /\ \A g : In(d, g) => In(Listeners \o d, g)
  BY <1>2, Emitted
<1> QED
  BY <1>1, <1>2, <1>3
-----------------------------------------------------------------------------
(* Each step keeps the invariant. *)

LEMMA StartHeadInv ==
    ASSUME IInv, NEW q \in Queues, StartHead(q)
    PROVE  IInv'
<1> DEFINE r == Head(queue[q])
           t == r.thunk
<1>1. /\ queue[q] \in Seq(Registration) /\ queue[q] # <<>>
      /\ 1 \in DOMAIN queue[q] /\ r = queue[q][1]
      /\ r \in Registration /\ t \in Thunks
      /\ Tail(queue[q]) \in Seq(Registration)
      /\ \A i \in DOMAIN Tail(queue[q]) :
            /\ i \in Nat /\ i + 1 # 1
            /\ i + 1 \in DOMAIN queue[q]
            /\ Tail(queue[q])[i] = queue[q][i + 1]
  <2>1. queue[q] \in Seq(Registration) /\ queue[q] # <<>>
    BY DEF IInv, TypeOK, StartHead, CanStart
  <2>2. /\ 1 \in DOMAIN queue[q] /\ r = queue[q][1]
        /\ r \in Registration
    BY <2>1
  <2>3. t \in Thunks
    BY <2>2 DEF Registration
  <2>4. /\ Tail(queue[q]) \in Seq(Registration)
        /\ Len(Tail(queue[q])) = Len(queue[q]) - 1
        /\ \A i \in 1 .. Len(Tail(queue[q])) : Tail(queue[q])[i] = queue[q][i + 1]
    BY <2>1, HeadTailProperties
  <2>5. \A i \in DOMAIN Tail(queue[q]) :
            /\ i \in Nat /\ i + 1 # 1
            /\ i + 1 \in DOMAIN queue[q]
            /\ Tail(queue[q])[i] = queue[q][i + 1]
    BY <2>1, <2>4
  <2> QED
    BY <2>1, <2>2, <2>3, <2>4, <2>5
<1>2. queue' = [queue EXCEPT ![q] = Tail(queue[q])]
  BY DEF StartHead
<1>3. \A p \in Queues : \A i \in DOMAIN queue'[p] :
         \E j \in DOMAIN queue[p] :
            queue'[p][i] = queue[p][j] /\ (p = q => j = i + 1 /\ j # 1)
  BY <1>1, <1>2 DEF IInv, TypeOK
<1>4. /\ Head(calls) = ProcessNext(q)
      /\ calls # <<>> /\ calls \in Seq(Frames)
      /\ Tail(calls) \in Seq(Frames)
      /\ Once(Tail(calls))
      /\ \A f : In(Tail(calls), f) => Pending(f)
  BY Popped DEF IInv, TypeOK, OneCall, StartHead, Calling, Pending
<1>5. processing[q] = None /\ processing' = [processing EXCEPT ![q] = r]
  BY DEF StartHead, CanStart
<1>6. /\ calls' \in Seq(Frames)
      /\ Once(calls')
      /\ \A g \in Single :
            Pending(g)' => Pending(g) \/ (q = "ipc" /\ g = HandleSettled("ipc"))
  <2>1. CASE HasCallback(r)
    <3>1. calls' = Listeners \o Tail(calls)
      BY <2>1 DEF StartHead
    <3> QED
      BY <1>4, <3>1, Emitted DEF Pending
  <2>2. CASE ~HasCallback(r)
    <3> DEFINE h == HandleSettled(q)
               d == <<h>> \o Tail(calls)
    <3>1. h \in Frames
      BY FrameTypes
    <3>2. h \in Single => q = "ipc" /\ ~In(Tail(calls), h)
      BY <1>4, <1>5, FrameTypes DEF IInv, Settling, Queues
    <3>3. (Listeners \o <<h>>) \o Tail(calls) = Listeners \o d
      BY <1>4, <3>1, FrameTypes, ConcatAssociative DEF Listeners, Queues
    <3>4. calls' = Listeners \o d
      BY <2>2, <3>3 DEF StartHead
    <3> HIDE DEF h
    <3>5. /\ d \in Seq(Frames)
          /\ Once(d)
          /\ \A g : In(d, g) <=> g = h \/ In(Tail(calls), g)
      BY <1>4, <3>1, <3>2, Pushed
    <3> HIDE DEF d
    <3>6. \A g \in Single : In(calls', g) => g = h \/ In(Tail(calls), g)
      BY <3>4, <3>5, Emitted
    <3> QED
      BY <1>4, <3>2, <3>4, <3>5, <3>6, Emitted DEF Pending, h
  <2> QED
    BY <2>1, <2>2
<1>7. /\ t \in MainThunks <=> q = "main"
      /\ HasCallback(r) <=> q = "main" /\ r.first
      /\ q = "main" => body[t] = IF r.first THEN "queued" ELSE "done"
  BY <1>1 DEF IInv, Registrations, HasCallback
<1>8. /\ thunkState' = [thunkState EXCEPT ![t] = "executing"]
      /\ root' = IF root = None THEN t ELSE root
      /\ body' = IF HasCallback(r) THEN [body EXCEPT ![t] = "running"] ELSE body
      /\ UNCHANGED <<cleanup, acks, redispatched, awaited>>
  BY DEF StartHead, RegisterThunk
<1> HIDE DEF r
<1>9. TypeOK'
  BY <1>1, <1>2, <1>5, <1>6, <1>8 DEF IInv, TypeOK, MainBody
<1>10. OneCall'
  BY <1>6 DEF OneCall
<1>11. Registrations'
  <2> SUFFICES ASSUME NEW p \in Queues, NEW i \in DOMAIN queue'[p]
               PROVE
                  /\ queue'[p][i].immediate => queue'[p][i].thunk \in Immediate
                  /\ queue'[p][i].thunk \in MainThunks <=> p = "main"
                  /\ p = "main" => body'[queue'[p][i].thunk] =
                                     IF queue'[p][i].first THEN "queued" ELSE "done"
    BY DEF Registrations
  <2>1. PICK j \in DOMAIN queue[p] :
           queue'[p][i] = queue[p][j] /\ (p = q => j # 1)
    BY <1>3
  <2>2. /\ queue[p][j].immediate => queue[p][j].thunk \in Immediate
        /\ queue[p][j].thunk \in MainThunks <=> p = "main"
        /\ p = "main" => body[queue[p][j].thunk] =
                           IF queue[p][j].first THEN "queued" ELSE "done"
    BY DEF IInv, Registrations
  <2>3. p = "main" => body'[queue[p][j].thunk] = body[queue[p][j].thunk]
    <3>1. CASE p = "main" /\ q = "main" /\ r.first
      <4>1. queue[p][j].thunk # t
        BY <1>1, <1>7, <2>1, <2>2, <3>1 DEF IInv, FirstOnce
      <4> QED
        BY <1>8, <4>1
    <3>2. CASE ~(p = "main" /\ q = "main" /\ r.first)
      BY <1>7, <1>8, <3>2
    <3> QED
      BY <3>1, <3>2
  <2> QED
    BY <2>1, <2>2, <2>3
<1>12. FirstOnce'
  <2> SUFFICES ASSUME NEW i \in DOMAIN queue'["main"], NEW j \in DOMAIN queue'["main"],
                      queue'["main"][i].first, queue'["main"][j].first,
                      queue'["main"][i].thunk = queue'["main"][j].thunk
               PROVE  i = j
    BY DEF FirstOnce
  <2>1. CASE q = "main"
    <3>1. /\ i \in Nat /\ j \in Nat
          /\ i + 1 \in DOMAIN queue["main"] /\ j + 1 \in DOMAIN queue["main"]
          /\ queue'["main"][i] = queue["main"][i + 1]
          /\ queue'["main"][j] = queue["main"][j + 1]
      BY <1>1, <1>2, <2>1 DEF IInv, TypeOK
    <3>2. i + 1 = j + 1
      BY <3>1 DEF IInv, FirstOnce
    <3> QED
      BY <3>1, <3>2
  <2>2. CASE q # "main"
    BY <1>2, <2>2 DEF IInv, FirstOnce, TypeOK
  <2> QED
    BY <2>1, <2>2
<1>13. Settling'
  <2>1. CASE q = "ipc"
    <3>1. processing'["ipc"] = r
      BY <1>5, <2>1 DEF IInv, TypeOK
    <3>2. r # None
      BY <1>1, ThunkAssumption DEF Registration
    <3> QED
      BY <1>7, <2>1, <3>1, <3>2 DEF Settling
  <2>2. CASE q # "ipc"
    <3>1. processing'["ipc"] = processing["ipc"]
      BY <1>5, <2>2 DEF IInv, TypeOK
    <3>2. Pending(HandleSettled("ipc"))' => Pending(HandleSettled("ipc"))
      BY <1>6, <2>2 DEF Single
    <3> QED
      BY <3>1, <3>2 DEF IInv, Settling
  <2> QED
    BY <2>1, <2>2
<1>14. MainLifecycle'
  BY <1>1, <1>7, <1>8, ThunkAssumption DEF IInv, TypeOK, MainLifecycle
<1>15. FailedRoot'
  <2> SUFFICES ASSUME Pending(ClearRoot)'
               PROVE  /\ root' \in Thunks
                      /\ thunkState'[root'] = "failed"
                      /\ \A p \in Queues : \A i \in DOMAIN queue'[p] :
                            queue'[p][i].thunk # root'
    BY DEF FailedRoot
  <2>1. Pending(ClearRoot)
    BY <1>6, FrameTypes DEF Single
  <2>2. /\ root \in Thunks
        /\ thunkState[root] = "failed"
        /\ \A p \in Queues : \A i \in DOMAIN queue[p] : queue[p][i].thunk # root
    BY <2>1 DEF IInv, FailedRoot
  <2>3. root' = root
    BY <1>8, <2>2, ThunkAssumption
  <2>4. t # root
    BY <1>1, <2>2
  <2> QED
    BY <1>3, <1>8, <2>2, <2>3, <2>4 DEF IInv, TypeOK
<1> QED
  BY <1>9, <1>10, <1>11, <1>12, <1>13, <1>14, <1>15 DEF IInv

(* The head of the stack returns. *)
LEMMA Returns ==
    ASSUME TypeOK, OneCall, NEW f, Calling(f)
    PROVE  /\ Tail(calls) \in Seq(Frames)
           /\ Once(Tail(calls))
           /\ \A g : In(Tail(calls), g) => Pending(g)
           /\ Pending(f)
           /\ f \in Single => ~In(Tail(calls), f)
<1>1. calls \in Seq(Frames) /\ calls # <<>> /\ Head(calls) = f /\ Once(calls)
  BY DEF TypeOK, OneCall, Calling
<1>2. Pending(f)
  BY <1>1 DEF Pending, In
<1> QED
  BY <1>1, <1>2, Popped DEF Pending

LEMMA NothingToStartInv ==
    ASSUME IInv, NEW q \in Queues, NothingToStart(q)
    PROVE  IInv'
<1>1. /\ calls' \in Seq(Frames)
      /\ Once(calls')
      /\ \A g : Pending(g)' => Pending(g)
  BY Returns DEF IInv, NothingToStart, Pending
<1>2. UNCHANGED <<registry, queues, programs>>
  BY DEF NothingToStart
<1> QED
  BY <1>1, <1>2 DEF IInv, TypeOK, OneCall, Registrations, FirstOnce, Settling,
       MainLifecycle, FailedRoot, registry, queues, programs

LEMMA SettleInv ==
    ASSUME IInv, NEW q \in Queues, Settle(q)
    PROVE  IInv'
<1> DEFINE f == ProcessNext(q)
           d == <<f>> \o Tail(calls)
<1>1. /\ Tail(calls) \in Seq(Frames)
      /\ Once(Tail(calls))
      /\ \A g : In(Tail(calls), g) => Pending(g)
      /\ Pending(HandleSettled(q))
      /\ HandleSettled(q) \in Single => ~In(Tail(calls), HandleSettled(q))
  BY Returns DEF IInv, Settle
<1>2. f \in Frames /\ f \notin Single
  BY FrameTypes
<1> HIDE DEF f
<1>3. /\ d \in Seq(Frames)
      /\ Once(d)
      /\ \A g : In(d, g) <=> g = f \/ In(Tail(calls), g)
  BY <1>1, <1>2, Pushed
<1>4. calls' = d
  BY DEF Settle, f
<1> HIDE DEF d
<1>5. \A g \in Single : Pending(g)' => In(Tail(calls), g)
  BY <1>2, <1>3, <1>4 DEF Pending
<1>6. /\ processing' = [processing EXCEPT ![q] = None]
      /\ acks' = IF q = "ipc" /\ processing[q].first
                   THEN acks \cup {processing[q].thunk} ELSE acks
      /\ UNCHANGED <<registry, queue, body, redispatched, awaited>>
  BY DEF Settle
<1>7. TypeOK'
  <2>1. q = "ipc" => processing["ipc"].thunk \in RendererThunks
    <3>1. q = "ipc" => processing["ipc"] # None /\ processing["ipc"].thunk \notin MainThunks
      BY <1>1 DEF IInv, Settling
    <3>2. q = "ipc" => processing["ipc"] \in Registration
      BY <3>1 DEF IInv, TypeOK, Queues
    <3> QED
      BY <3>1, <3>2 DEF Registration, RendererThunks
  <2>2. acks' \subseteq RendererThunks
    BY <1>6, <2>1 DEF IInv, TypeOK
  <2> QED
    BY <1>3, <1>4, <1>6, <2>2 DEF IInv, TypeOK, registry
<1>8. OneCall'
  BY <1>3, <1>4 DEF OneCall
<1>9. Registrations' /\ FirstOnce' /\ MainLifecycle'
  BY <1>6 DEF IInv, Registrations, FirstOnce, MainLifecycle, registry
<1>10. Settling'
  <2>1. CASE q = "ipc"
    <3>1. ~Pending(HandleSettled("ipc"))'
      BY <1>1, <1>5, <2>1 DEF Single
    <3>2. processing'["ipc"] = None
      BY <1>6, <2>1 DEF IInv, TypeOK
    <3> QED
      BY <3>1, <3>2 DEF Settling
  <2>2. CASE q # "ipc"
    <3>1. processing'["ipc"] = processing["ipc"]
      BY <1>6, <2>2 DEF IInv, TypeOK
    <3>2. Pending(HandleSettled("ipc"))' => Pending(HandleSettled("ipc"))
      BY <1>1, <1>5 DEF Single
    <3> QED
      BY <3>1, <3>2 DEF IInv, Settling
  <2> QED
    BY <2>1, <2>2
<1>11. FailedRoot'
  <2>1. Pending(ClearRoot)' => Pending(ClearRoot)
    BY <1>1, <1>5 DEF Single
  <2> QED
    BY <1>6, <2>1 DEF IInv, FailedRoot, registry
<1> QED
  BY <1>7, <1>8, <1>9, <1>10, <1>11 DEF IInv

LEMMA ScheduleCleanupInv ==
    ASSUME IInv, NEW t \in Thunks, ScheduleCleanup(t)
    PROVE  IInv'
<1>1. /\ calls' \in Seq(Frames)
      /\ Once(calls')
      /\ \A g : Pending(g)' => Pending(g)
  BY Returns DEF IInv, ScheduleCleanup, Pending
<1>2. /\ \/ thunkState[t] = "completed" /\ cleanup' = cleanup \cup {t}
         \/ cleanup' = cleanup
      /\ UNCHANGED <<thunkState, root, queue, processing, body, acks, redispatched, awaited>>
  BY DEF ScheduleCleanup, queues, programs
<1>3. MainLifecycle'
  BY <1>2 DEF IInv, MainLifecycle
<1> QED
  BY <1>1, <1>2, <1>3 DEF IInv, TypeOK, OneCall, Registrations, FirstOnce, Settling,
       FailedRoot

LEMMA ForgetRootInv ==
    ASSUME IInv, ForgetRoot
    PROVE  IInv'
<1>1. /\ calls' \in Seq(Frames)
      /\ Once(calls')
      /\ \A g : Pending(g)' => Pending(g)
      /\ ~Pending(ClearRoot)'
  BY Returns DEF IInv, ForgetRoot, Pending, Single
<1>2. root' = None /\ UNCHANGED <<thunkState, cleanup, queues, programs>>
  BY DEF ForgetRoot
<1> QED
  BY <1>1, <1>2 DEF IInv, TypeOK, OneCall, Registrations, FirstOnce, Settling,
       MainLifecycle, FailedRoot, queues, programs

(* A registration that is queued while no call is pending, for a thunk that is
   new or, when an action registers it again, has ended. *)
LEMMA EnqueueInv ==
    ASSUME IInv, NEW q \in Queues, NEW r \in Registration,
           Enqueue(q, r), calls' = <<ProcessNext(q)>>,
           UNCHANGED <<registry, processing, acks, awaited>>,
           redispatched' \subseteq MayRedispatch,
           r.immediate => r.thunk \in Immediate,
           r.thunk \in MainThunks <=> q = "main",
           \/ /\ r.first
              /\ body[r.thunk] = "idle"
              /\ body' = [body EXCEPT ![r.thunk] =
                              IF q = "main" THEN "queued" ELSE "registering"]
           \/ /\ ~r.first
              /\ body' = body
              /\ q = "main" => body[r.thunk] = "done"
    PROVE  IInv'
<1> DEFINE n == Len(queue[q]) + 1
<1>1. queue[q] \in Seq(Registration) /\ r.thunk \in Thunks
  BY DEF IInv, TypeOK, Registration
<1>2. /\ queue' = [queue EXCEPT ![q] = Append(queue[q], r)]
      /\ queue'[q] \in Seq(Registration)
  BY <1>1 DEF Enqueue, IInv, TypeOK
<1>3. \A p \in Queues : \A i \in DOMAIN queue'[p] :
         \/ i \in DOMAIN queue[p] /\ queue'[p][i] = queue[p][i]
         \/ p = q /\ i = n /\ queue'[p][i] = r
  BY <1>1, <1>2 DEF IInv, TypeOK
<1>4. /\ calls' \in Seq(Frames)
      /\ Once(calls')
      /\ \A g \in Single : ~Pending(g)'
  <2> DEFINE f == ProcessNext(q)
  <2>1. f \in Frames /\ f \notin Single
    BY FrameTypes
  <2> HIDE DEF f
  <2>2. <<f>> \o <<>> = <<f>>
    OBVIOUS
  <2>3. /\ <<f>> \in Seq(Frames)
        /\ Once(<<f>>)
        /\ \A g : In(<<f>>, g) => g = f
    BY <2>1, <2>2, Empty, Pushed
  <2> QED
    BY <2>1, <2>3 DEF Pending, f
<1>5. \A p \in Queues : \A i \in DOMAIN queue[p] :
         p = "main" /\ r.first => queue[p][i].thunk # r.thunk
  BY DEF IInv, Registrations
<1>6. TypeOK'
  BY <1>2, <1>4, <1>1 DEF IInv, TypeOK, registry, MainBody, RendererBody
<1>body. \A s \in Thunks :
          body'[s] = IF r.first /\ s = r.thunk
                        THEN IF q = "main" THEN "queued" ELSE "registering"
                        ELSE body[s]
  BY <1>1 DEF IInv, TypeOK
<1>7. OneCall'
  BY <1>4 DEF OneCall
<1>8. Registrations'
  <2> SUFFICES ASSUME NEW p \in Queues, NEW i \in DOMAIN queue'[p]
               PROVE
                  /\ queue'[p][i].immediate => queue'[p][i].thunk \in Immediate
                  /\ queue'[p][i].thunk \in MainThunks <=> p = "main"
                  /\ p = "main" => body'[queue'[p][i].thunk] =
                                     IF queue'[p][i].first THEN "queued" ELSE "done"
    BY DEF Registrations
  <2>1. CASE i \in DOMAIN queue[p] /\ queue'[p][i] = queue[p][i]
    <3>1. /\ queue[p][i].immediate => queue[p][i].thunk \in Immediate
          /\ queue[p][i].thunk \in MainThunks <=> p = "main"
          /\ p = "main" => body[queue[p][i].thunk] =
                             IF queue[p][i].first THEN "queued" ELSE "done"
      BY <2>1 DEF IInv, Registrations
    <3>2. p = "main" => body'[queue[p][i].thunk] = body[queue[p][i].thunk]
      <4>1. p = "main" /\ r.first => queue[p][i].thunk # r.thunk
        BY <1>5, <2>1
      <4>2. queue[p][i].thunk \in Thunks
        <5>1. queue[p] \in Seq(Registration)
          BY DEF IInv, TypeOK
        <5>2. queue[p][i] \in Registration
          BY <2>1, <5>1
        <5> QED
          BY <5>2 DEF Registration
      <4> QED
        BY <1>body, <4>1, <4>2
    <3> QED
      BY <2>1, <3>1, <3>2
  <2>2. CASE p = q /\ queue'[p][i] = r
    <3>1. q = "main" => body'[r.thunk] = IF r.first THEN "queued" ELSE "done"
      BY <1>1 DEF IInv, TypeOK
    <3> QED
      BY <2>2, <3>1
  <2> QED
    BY <1>3, <2>1, <2>2
<1>9. FirstOnce'
  <2> SUFFICES ASSUME NEW i \in DOMAIN queue'["main"], NEW j \in DOMAIN queue'["main"],
                      queue'["main"][i].first, queue'["main"][j].first,
                      queue'["main"][i].thunk = queue'["main"][j].thunk
               PROVE  i = j
    BY DEF FirstOnce
  <2>1. /\ \/ i \in DOMAIN queue["main"] /\ queue'["main"][i] = queue["main"][i]
           \/ i = n /\ queue'["main"][i] = r
        /\ \/ j \in DOMAIN queue["main"] /\ queue'["main"][j] = queue["main"][j]
           \/ j = n /\ queue'["main"][j] = r
    BY <1>3 DEF Queues
  <2> QED
    BY <1>5, <2>1 DEF IInv, FirstOnce, Queues
<1>10. Settling'
  BY <1>4 DEF IInv, Settling, Single
<1>11. MainLifecycle'
  <2> SUFFICES ASSUME NEW s \in MainThunks
               PROVE  /\ body'[s] = "running" => thunkState'[s] = "executing"
                      /\ s \in cleanup' \/ thunkState'[s] = "completed" => body'[s] = "done"
    BY DEF MainLifecycle
  <2>1. /\ s \in Thunks
        /\ body[s] = "running" => thunkState[s] = "executing"
        /\ s \in cleanup \/ thunkState[s] = "completed" => body[s] = "done"
    BY ThunkAssumption DEF IInv, MainLifecycle
  <2>2. UNCHANGED <<thunkState, cleanup>>
    BY DEF registry
  <2>3. r.first => body[r.thunk] = "idle"
    OBVIOUS
  <2> QED
    BY <1>body, <2>1, <2>2, <2>3
<1>12. FailedRoot'
  BY <1>4 DEF FailedRoot, Single
<1> QED
  BY <1>6, <1>7, <1>8, <1>9, <1>10, <1>11, <1>12 DEF IInv

LEMMA MainExecuteInv ==
    ASSUME IInv, NEW t \in Thunks, MainExecute(t)
    PROVE  IInv'
<1> DEFINE r == [thunk |-> t, immediate |-> t \in Immediate, first |-> TRUE]
<1>1. r \in Registration
  BY DEF Registration
<1>2. /\ r.thunk = t /\ r.first
      /\ r.immediate => t \in Immediate
      /\ t \in MainThunks /\ body[t] = "idle"
      /\ body' = [body EXCEPT ![t] = "queued"]
      /\ Enqueue("main", r)
      /\ calls' = <<ProcessNext("main")>>
      /\ UNCHANGED <<registry, processing, acks, redispatched, awaited>>
  BY DEF MainExecute, Dispatchable
<1> HIDE DEF r
<1>3. redispatched' \subseteq MayRedispatch
  BY <1>2 DEF IInv, TypeOK
<1> QED
  BY <1>1, <1>2, <1>3, EnqueueInv DEF Queues

LEMMA RendererExecuteInv ==
    ASSUME IInv, NEW t \in Thunks, RendererExecute(t)
    PROVE  IInv'
<1> DEFINE r == [thunk |-> t, immediate |-> t \in Immediate, first |-> TRUE]
<1>1. r \in Registration
  BY DEF Registration
<1>2. /\ r.thunk = t /\ r.first
      /\ r.immediate => t \in Immediate
      /\ t \notin MainThunks /\ body[t] = "idle"
      /\ body' = [body EXCEPT ![t] = "registering"]
      /\ Enqueue("ipc", r)
      /\ calls' = <<ProcessNext("ipc")>>
      /\ UNCHANGED <<registry, processing, acks, redispatched, awaited>>
  BY DEF RendererExecute, Dispatchable, RendererThunks
<1> HIDE DEF r
<1>3. redispatched' \subseteq MayRedispatch
  BY <1>2 DEF IInv, TypeOK
<1> QED
  BY <1>1, <1>2, <1>3, EnqueueInv DEF Queues

LEMMA DispatchUnknownInv ==
    ASSUME IInv, NEW t \in Thunks, DispatchUnknown(t)
    PROVE  IInv'
<1> DEFINE r == [thunk |-> t, first |-> FALSE,
                 immediate |-> t \in MainThunks \cap Immediate]
<1>1. r \in Registration
  BY DEF Registration
<1>2. /\ r.thunk = t /\ ~r.first
      /\ r.immediate => t \in Immediate
      /\ body[t] \in {"running", "done"} /\ thunkState[t] = "absent"
      /\ Enqueue(QueueOf(t), r)
      /\ calls' = <<ProcessNext(QueueOf(t))>>
      /\ UNCHANGED <<registry, processing, body, acks, awaited>>
      /\ t \in MayRedispatch /\ redispatched' = redispatched \cup {t}
  BY DEF DispatchUnknown
<1> HIDE DEF r
<1>3. t \in MainThunks => body[t] = "done"
  BY <1>2 DEF IInv, MainLifecycle
<1>4. /\ QueueOf(t) \in Queues
      /\ t \in MainThunks <=> QueueOf(t) = "main"
  BY DEF Queues, QueueOf
<1>5. redispatched' \subseteq MayRedispatch
  BY <1>2 DEF IInv, TypeOK
<1> HIDE DEF QueueOf
<1> QED
  BY <1>1, <1>2, <1>3, <1>4, <1>5, EnqueueInv

(* Messages, time-outs and the end of a window change only the bodies of
   renderer thunks. *)
LEMMA RendererBodyInv ==
    ASSUME IInv, calls = <<>>,
           UNCHANGED <<registry, queues, calls, redispatched, awaited>>,
           acks' \subseteq acks,
           body' \in [Thunks -> MainBody \cup RendererBody],
           \A t \in MainThunks : body'[t] = body[t]
    PROVE  IInv'
<1>1. UNCHANGED <<thunkState, root, cleanup, queue, processing, calls, redispatched, awaited>>
  BY DEF registry, queues
<1>2. TypeOK'
  BY <1>1 DEF IInv, TypeOK
<1>3. OneCall' /\ FirstOnce'
  BY <1>1 DEF IInv, OneCall, FirstOnce
<1>4. Settling' /\ FailedRoot'
  BY <1>1 DEF IInv, Settling, FailedRoot, Pending
<1>5. Registrations' /\ MainLifecycle'
  BY <1>1 DEF IInv, Registrations, MainLifecycle
<1> QED
  BY <1>2, <1>3, <1>4, <1>5 DEF IInv

(* The call that follows the end of a main thunk's body is not single. *)
LEMMA AfterBody ==
    ASSUME NEW rest \in {<<>>, <<HandleSettled("main")>>}
    PROVE  /\ rest \in Seq(Frames) /\ Once(rest)
           /\ \A g \in Single : ~In(rest, g)
<1> DEFINE h == HandleSettled("main")
<1>1. h \in Frames /\ h \notin Single
  BY FrameTypes DEF Queues
<1> HIDE DEF h
<1>2. <<h>> \o <<>> = <<h>>
  OBVIOUS
<1>3. /\ <<h>> \in Seq(Frames)
      /\ Once(<<h>>)
      /\ \A g : In(<<h>>, g) => g = h
  <2>1. /\ <<h>> \o <<>> \in Seq(Frames)
        /\ Once(<<h>> \o <<>>)
        /\ \A g : In(<<h>> \o <<>>, g) <=> g = h \/ In(<<>>, g)
    BY <1>1, Empty, Pushed
  <2>2. \A g : In(<<h>>, g) => g = h
    BY <1>2, <2>1, Empty
  <2> QED
    BY <1>2, <2>1, <2>2
<1> QED
  BY <1>1, <1>3, Empty DEF h

(* A body of a thunk ends with completeThunk: the stack was empty. *)
LEMMA CompleteInv ==
    ASSUME IInv, NEW t \in Thunks,
           NEW rest \in {<<>>, <<HandleSettled("main")>>},
           CompleteThunk(t, rest), body[t] = "running",
           body' = [body EXCEPT ![t] = "done"],
           UNCHANGED <<cleanup, queues, acks, redispatched, awaited>>
    PROVE  IInv'
<1>1. /\ rest \in Seq(Frames) /\ Once(rest)
      /\ \A g \in Single : ~In(rest, g)
  BY AfterBody
<1>2. /\ calls' \in Seq(Frames)
      /\ Once(calls')
      /\ \A g \in Single : ~Pending(g)'
  BY <1>1, CompleteCalls DEF Pending
<1>3. /\ \/ thunkState' = thunkState /\ root' = root
         \/ /\ thunkState' = [thunkState EXCEPT ![t] = "completed"]
            /\ root' = IF root = t THEN None ELSE root
      /\ UNCHANGED <<cleanup, queue, processing, acks, redispatched, awaited>>
  BY DEF CompleteThunk, queues
<1>4. TypeOK'
  BY <1>2, <1>3 DEF IInv, TypeOK, MainBody
<1>5. OneCall'
  BY <1>2 DEF OneCall
<1>6. Registrations'
  BY <1>3 DEF IInv, TypeOK, Registrations
<1>7. FirstOnce'
  BY <1>3 DEF IInv, FirstOnce
<1>8. Settling' /\ FailedRoot'
  BY <1>2, <1>3 DEF IInv, Settling, FailedRoot, Single
<1>9. MainLifecycle'
  BY <1>3, ThunkAssumption DEF IInv, TypeOK, MainLifecycle
<1> QED
  BY <1>4, <1>5, <1>6, <1>7, <1>8, <1>9 DEF IInv

(* ... or, of a main thunk, with failThunk. *)
LEMMA FailInv ==
    ASSUME IInv, NEW t \in MainThunks, t \in Thunks,
           NEW rest \in {<<>>, <<HandleSettled("main")>>},
           FailThunk(t, rest),
           NEW after \in {"thrown", "done"},
           body[t] \in {"running", "thrown"},
           body' = [body EXCEPT ![t] = after],
           UNCHANGED <<cleanup, queues, acks, redispatched, awaited>>
    PROVE  IInv'
<1>1. /\ rest \in Seq(Frames) /\ Once(rest)
      /\ \A g \in Single : ~In(rest, g)
  BY AfterBody
<1>2. /\ calls' \in Seq(Frames)
      /\ Once(calls')
      /\ ~Pending(HandleSettled("ipc"))'
      /\ Pending(ClearRoot)' => root = t /\ thunkState[t] # "absent"
  BY <1>1, FailCalls, FrameTypes DEF Pending, Single
<1>3. /\ thunkState' = IF thunkState[t] = "absent" THEN thunkState
                       ELSE [thunkState EXCEPT ![t] = "failed"]
      /\ UNCHANGED <<root, cleanup, queue, processing, acks, redispatched, awaited>>
  BY DEF FailThunk, queues
<1>4. TypeOK'
  BY <1>2, <1>3 DEF IInv, TypeOK, MainBody
<1>5. OneCall'
  BY <1>2 DEF OneCall
<1>6. \A q \in Queues : \A i \in DOMAIN queue[q] : queue[q][i].thunk # t
  BY DEF IInv, Registrations
<1>7. Registrations'
  BY <1>3, <1>6 DEF IInv, TypeOK, Registrations
<1>8. FirstOnce'
  BY <1>3 DEF IInv, FirstOnce
<1>9. Settling'
  BY <1>2, <1>3 DEF IInv, Settling
<1>10. MainLifecycle'
  BY <1>3, ThunkAssumption DEF IInv, TypeOK, MainLifecycle
<1>11. FailedRoot'
  BY <1>2, <1>3, <1>6 DEF IInv, TypeOK, FailedRoot
<1> QED
  BY <1>4, <1>5, <1>7, <1>8, <1>9, <1>10, <1>11 DEF IInv

(* The cleanup of an entry, asked for or done. *)
LEMMA CleanupInv ==
    ASSUME IInv, calls = <<>>, NEW t \in Thunks,
           \/ UpdatesAcknowledged(t)
           \/ CleanupThunk(t)
    PROVE  IInv'
<1>1. /\ \/ thunkState[t] = "completed" /\ cleanup' = cleanup \cup {t}
            /\ thunkState' = thunkState
         \/ /\ t \in cleanup
            /\ cleanup' = cleanup \ {t}
            /\ \/ thunkState' = [thunkState EXCEPT ![t] = "absent"]
               \/ thunkState' = thunkState
      /\ UNCHANGED <<root, queue, processing, calls, body, acks, redispatched, awaited>>
  BY DEF UpdatesAcknowledged, CleanupThunk, queues, programs
<1>2. TypeOK'
  BY <1>1 DEF IInv, TypeOK
<1>3. OneCall' /\ FirstOnce' /\ Settling' /\ Registrations'
  BY <1>1 DEF IInv, OneCall, FirstOnce, Settling, Registrations, Pending
<1>4. MainLifecycle'
  BY <1>1, ThunkAssumption DEF IInv, TypeOK, MainLifecycle
<1>5. FailedRoot'
  BY <1>1, Empty DEF FailedRoot, Pending
<1> QED
  BY <1>2, <1>3, <1>4, <1>5 DEF IInv
-----------------------------------------------------------------------------
(* The invariant, and what follows from it. *)

LEMMA InitInv == Init => IInv
<1> SUFFICES ASSUME Init PROVE IInv
  OBVIOUS
<1>1. TypeOK
  BY DEF Init, TypeOK, MainBody
<1>2. OneCall /\ \A f : ~Pending(f)
  BY Empty DEF Init, OneCall, Pending
<1>3. Registrations /\ FirstOnce
  BY DEF Init, Registrations, FirstOnce, Queues
<1>4. Settling /\ FailedRoot
  BY <1>2 DEF Init, Settling, FailedRoot, Queues
<1>5. MainLifecycle
  BY ThunkAssumption DEF Init, MainLifecycle
<1> QED
  BY <1>1, <1>2, <1>3, <1>4, <1>5 DEF IInv

LEMMA NextInv == IInv /\ [Next]_vars => IInv'
<1> SUFFICES ASSUME IInv, [Next]_vars PROVE IInv'
  OBVIOUS
<1>1. ASSUME NEW q \in Queues, StartHead(q) \/ NothingToStart(q) \/ Settle(q)
      PROVE  IInv'
  BY <1>1, StartHeadInv, NothingToStartInv, SettleInv
<1>2. ASSUME NEW t \in Thunks, ScheduleCleanup(t) PROVE IInv'
  BY <1>2, ScheduleCleanupInv
<1>3. CASE ForgetRoot
  BY <1>3, ForgetRootInv
<1>4. ASSUME NEW t \in Thunks, MainExecute(t) \/ RendererExecute(t) \/ DispatchUnknown(t)
      PROVE  IInv'
  BY <1>4, MainExecuteInv, RendererExecuteInv, DispatchUnknownInv
<1>5. ASSUME NEW t \in Thunks, RendererAcked(t) \/ RendererGivesUpWaiting(t)
      PROVE  IInv'
  <2>1. /\ calls = <<>> /\ acks' \subseteq acks /\ t \notin MainThunks
        /\ UNCHANGED <<registry, queues, calls, redispatched, awaited>>
        /\ body' = [body EXCEPT ![t] = "running"] \/ body' = [body EXCEPT ![t] = body[t]]
    BY <1>5, ThunkAssumption
       DEF RendererAcked, RendererGivesUpWaiting, Idle, IInv, TypeOK, RendererThunks
  <2>2. /\ body' \in [Thunks -> MainBody \cup RendererBody]
        /\ \A s \in MainThunks : body'[s] = body[s]
    BY <2>1, ThunkAssumption DEF IInv, TypeOK, MainBody
  <2> QED
    BY <2>1, <2>2, RendererBodyInv
<1>6. ASSUME NEW w \in Windows, WindowDestroyed(w) PROVE IInv'
  <2>1. /\ body' \in [Thunks -> MainBody \cup RendererBody]
        /\ \A s \in MainThunks : body'[s] = body[s]
    BY <1>6, ThunkAssumption
       DEF WindowDestroyed, IInv, TypeOK, RendererBody, RendererThunks
  <2>2. calls = <<>> /\ acks' = acks /\ UNCHANGED <<registry, queues, calls, redispatched, awaited>>
    BY <1>6 DEF WindowDestroyed, Idle
  <2> QED
    BY <2>1, <2>2, RendererBodyInv
<1>7. ASSUME NEW t \in Thunks, MainReturns(t) \/ RendererReturns(t) PROVE IInv'
  BY <1>7, CompleteInv DEF MainReturns, RendererReturns
<1>8. ASSUME NEW t \in Thunks, MainThrows(t) PROVE IInv'
  BY <1>8, FailInv, ThunkAssumption DEF MainThrows
<1>9. ASSUME NEW t \in Thunks, MainRejected(t) PROVE IInv'
  BY <1>9, FailInv DEF MainRejected
<1>10. ASSUME NEW t \in Thunks, UpdatesAcknowledged(t) \/ CleanupThunk(t) PROVE IInv'
  BY <1>10, CleanupInv DEF UpdatesAcknowledged, CleanupThunk, Idle
<1>11. CASE UNCHANGED vars
  BY <1>11 DEF vars, registry, queues, programs, IInv, TypeOK, OneCall, Pending,
       Registrations, FirstOnce, Settling, MainLifecycle, FailedRoot
<1> QED
  BY <1>1, <1>2, <1>3, <1>4, <1>5, <1>6, <1>7, <1>8, <1>9, <1>10, <1>11
     DEF Next, Code, Program

THEOREM Invariant == Spec => []IInv
BY InitInv, NextInv, PTL DEF Spec

(* Every variable keeps its type: in particular only renderer thunks are
   acknowledged, since handleCompletion finds the registration it settles. *)
THEOREM TypeCorrect == Spec => []TypeOK
<1>1. IInv => TypeOK
  BY DEF IInv
<1> QED
  BY <1>1, Invariant, PTL
-----------------------------------------------------------------------------
(* ThunkRegistration implements ThunkGate. *)

LEMMA GateInit == Init => Gate!Init
BY DEF Init, Gate!Init, Active

LEMMA GateStep == IInv /\ [Next]_vars => [Gate!Next]_Gate!vars
<1> SUFFICES ASSUME IInv, [Next]_vars PROVE [Gate!Next]_Gate!vars
  OBVIOUS
<1>1. ASSUME NEW q \in Queues, StartHead(q) PROVE Gate!Next
  <2> DEFINE r == Head(queue[q])
  <2>1. r = queue[q][1] /\ 1 \in DOMAIN queue[q] /\ r \in Registration
    BY <1>1 DEF IInv, TypeOK, StartHead, RegisterThunk, CanStart
  <2>2. r.thunk \in Thunks /\ (r.immediate => r.thunk \in Immediate)
    BY <2>1 DEF IInv, Registrations, Registration
  <2>3. r.immediate \/ Active = {}
    BY <1>1 DEF StartHead, RegisterThunk, CanStart
  <2>4. /\ thunkState' = [thunkState EXCEPT ![r.thunk] = "executing"]
        /\ root' = IF root = None THEN r.thunk ELSE root
    BY <1>1 DEF StartHead, RegisterThunk
  <2> HIDE DEF r
  <2>5. Active' = Active \cup {r.thunk}
    BY <2>2, <2>4 DEF Active, IInv, TypeOK
  <2>6. Gate!Begin(r.thunk)
    BY <2>2, <2>3, <2>4, <2>5 DEF Gate!Begin
  <2> QED
    BY <2>2, <2>6 DEF Gate!Next
<1>2. ASSUME NEW t \in Thunks, NEW rest, CompleteThunk(t, rest)
      PROVE  [Gate!Next]_Gate!vars
  <2>1. CASE thunkState' = thunkState /\ root' = root
    BY <2>1 DEF Gate!vars, Active
  <2>2. CASE /\ thunkState' = [thunkState EXCEPT ![t] = "completed"]
             /\ root' = IF root = t THEN None ELSE root
    <3>1. Active' = Active \ {t}
      BY <2>2 DEF Active, IInv, TypeOK
    <3> QED
      BY <2>2, <3>1 DEF Gate!Next, Gate!Complete
  <2> QED
    BY <1>2, <2>1, <2>2 DEF CompleteThunk
<1>3. ASSUME NEW t \in Thunks, NEW rest, FailThunk(t, rest)
      PROVE  [Gate!Next]_Gate!vars
  <2>1. CASE thunkState' = thunkState /\ root' = root
    BY <2>1 DEF Gate!vars, Active
  <2>2. CASE thunkState' = [thunkState EXCEPT ![t] = "failed"] /\ root' = root
    <3>1. Active' = Active \ {t}
      BY <2>2 DEF Active, IInv, TypeOK
    <3> QED
      BY <2>2, <3>1 DEF Gate!Next, Gate!Fail
  <2> QED
    BY <1>3, <2>1, <2>2 DEF FailThunk
<1>4. ASSUME ForgetRoot PROVE Gate!Next
  <2>1. Pending(ClearRoot)
    BY <1>4, Returns DEF IInv, ForgetRoot
  <2>2. root \notin Active
    BY <2>1 DEF IInv, FailedRoot, Active
  <2> QED
    BY <1>4, <2>2 DEF ForgetRoot, Active, Gate!Next, Gate!Release
<1>5. ASSUME NEW t \in Thunks, CleanupThunk(t) PROVE [Gate!Next]_Gate!vars
  <2>1. CASE thunkState' = thunkState
    BY <1>5, <2>1 DEF CleanupThunk, Gate!vars, Active
  <2>2. CASE thunkState' = [thunkState EXCEPT ![t] = "absent"]
    <3>1. Active' = Active \ {t}
      BY <2>2 DEF Active, IInv, TypeOK
    <3> QED
      BY <1>5, <3>1 DEF CleanupThunk, Gate!Next, Gate!Fail
  <2> QED
    BY <1>5, <2>1, <2>2 DEF CleanupThunk
<1>6. ASSUME UNCHANGED <<thunkState, root>> PROVE [Gate!Next]_Gate!vars
  BY <1>6 DEF Gate!vars, Active
<1> QED
  BY <1>1, <1>2, <1>3, <1>4, <1>5, <1>6
     DEF Next, Code, Program, NothingToStart, Settle, ScheduleCleanup, MainReturns,
         RendererReturns, MainThrows, MainRejected, MainExecute, RendererExecute,
         RendererAcked, RendererGivesUpWaiting, DispatchUnknown, UpdatesAcknowledged,
         WindowDestroyed, vars, registry

(* Whatever the nesting of the events, the two queues and the lifecycle manager
   start and end thunks only by the steps of the gate. *)
THEOREM Refinement == Spec => ImplementsGate
<1>1. Spec => Gate!Init /\ [][Gate!Next]_Gate!vars
  BY GateInit, GateStep, Invariant, PTL DEF Spec
<1> QED
  BY <1>1 DEF ImplementsGate, Gate!Spec

(* What the gate keeps: its variables stay in their types, ... *)
THEOREM GateTypeOK == ImplementsGate => []Gate!TypeOK
<1>1. Gate!Init => Gate!TypeOK
  BY DEF Gate!Init, Gate!TypeOK
<1>2. Gate!TypeOK /\ [Gate!Next]_Gate!vars => Gate!TypeOK'
  <2> SUFFICES ASSUME Gate!TypeOK, [Gate!Next]_Gate!vars PROVE Gate!TypeOK'
    OBVIOUS
  <2>1. ASSUME NEW t \in Thunks, Gate!Begin(t) PROVE Gate!TypeOK'
    BY <2>1 DEF Gate!TypeOK, Gate!Begin
  <2>2. ASSUME NEW t \in Thunks, Gate!Complete(t) PROVE Gate!TypeOK'
    BY <2>2 DEF Gate!TypeOK, Gate!Complete
  <2>3. ASSUME NEW t \in Thunks, Gate!Fail(t) PROVE Gate!TypeOK'
    BY <2>3 DEF Gate!TypeOK, Gate!Fail
  <2>4. CASE Gate!Release
    BY <2>4 DEF Gate!TypeOK, Gate!Release
  <2>5. CASE UNCHANGED Gate!vars
    BY <2>5 DEF Gate!TypeOK, Gate!vars
  <2> QED
    BY <2>1, <2>2, <2>3, <2>4, <2>5 DEF Gate!Next
<1> QED
  BY <1>1, <1>2, PTL DEF ImplementsGate, Gate!Spec

(* ... thunks execute one at a time, the immediate ones excepted, ... *)
THEOREM GateExclusive == ImplementsGate => []Gate!Exclusive
<1>1. Gate!Init => Gate!Exclusive
  BY DEF Gate!Init, Gate!Exclusive
<1>2. Gate!Exclusive /\ [Gate!Next]_Gate!vars => Gate!Exclusive'
  <2> SUFFICES ASSUME Gate!Exclusive, [Gate!Next]_Gate!vars PROVE Gate!Exclusive'
    OBVIOUS
  <2>1. ASSUME NEW t \in Thunks, Gate!Begin(t) PROVE Gate!Exclusive'
    <3>1. CASE t \in Immediate
      BY <2>1, <3>1 DEF Gate!Exclusive, Gate!Begin
    <3>2. CASE Active = {}
      BY <2>1, <3>2 DEF Gate!Exclusive, Gate!Begin
    <3> QED
      BY <2>1, <3>1, <3>2 DEF Gate!Begin
  <2>2. ASSUME NEW t \in Thunks, Gate!Complete(t) \/ Gate!Fail(t) PROVE Gate!Exclusive'
    BY <2>2 DEF Gate!Exclusive, Gate!Complete, Gate!Fail
  <2>3. CASE Gate!Release
    BY <2>3 DEF Gate!Exclusive, Gate!Release
  <2>4. CASE UNCHANGED Gate!vars
    BY <2>4 DEF Gate!Exclusive, Gate!vars
  <2> QED
    BY <2>1, <2>2, <2>3, <2>4 DEF Gate!Next
<1> QED
  BY <1>1, <1>2, PTL DEF ImplementsGate, Gate!Spec

(* ... and no step takes the root from one thunk to another. *)
THEOREM GateRootHandOver == ImplementsGate => Gate!RootHandOver
<1>1. [Gate!Next]_Gate!vars => [root' # root => None \in {root, root'}]_Gate!vars
  <2> SUFFICES ASSUME Gate!Next PROVE root' # root => None \in {root, root'}
    BY DEF Gate!vars
  <2>1. ASSUME NEW t \in Thunks, Gate!Begin(t)
        PROVE  root' # root => None \in {root, root'}
    BY <2>1 DEF Gate!Begin
  <2>2. ASSUME NEW t \in Thunks, Gate!Complete(t) \/ Gate!Fail(t)
        PROVE  root' # root => None \in {root, root'}
    BY <2>2 DEF Gate!Complete, Gate!Fail
  <2>3. CASE Gate!Release
    BY <2>3 DEF Gate!Release
  <2> QED
    BY <2>1, <2>2, <2>3 DEF Gate!Next
<1> QED
  BY <1>1, PTL DEF ImplementsGate, Gate!Spec, Gate!RootHandOver

(* So no two thunks execute at a time, the immediate ones excepted, whichever
   queues they come from. *)
THEOREM Exclusion == Spec => []Gate!Exclusive
BY GateExclusive, Refinement, PTL
-----------------------------------------------------------------------------
(* The thunks that are registered once. *)

(* The thunks that no action has registered again. *)
RegisteredOnce == Thunks \ redispatched

Waiting(t) == \E q \in Queues : \E i \in DOMAIN queue[q] : queue[q][i].thunk = t

(* A thunk that is registered once has no entry before its registration is
   taken from the queue, and its entry is not deleted while it executes. *)
NoEntryYet ==
    \A t \in RegisteredOnce :
        /\ body[t] = "idle" => ~Waiting(t)
        /\ body[t] = "idle" \/ Waiting(t) => thunkState[t] = "absent"
        /\ t \in cleanup => thunkState[t] = "completed"

QueuedOnce ==
    \A p, q \in Queues : \A i \in DOMAIN queue[p], j \in DOMAIN queue[q] :
        /\ queue[p][i].thunk = queue[q][j].thunk
        /\ queue[p][i].thunk \in RegisteredOnce
        => p = q /\ i = j

RInv == IInv /\ NoEntryYet /\ QueuedOnce /\ RootIsActive
-----------------------------------------------------------------------------
(* Calls that are pending remain so until they return. *)

LEMMA StillPending ==
    ASSUME NEW c \in Seq(Frames), c # <<>>, NEW f, f # Head(c), In(c, f)
    PROVE  In(Tail(c), f)
<1>1. PICK i \in DOMAIN c : c[i] = f
  BY DEF In
<1>2. i # 1 /\ i \in 1 .. Len(c) /\ Head(c) = c[1] /\ Len(c) \in Nat
  BY <1>1
<1>3. i - 1 \in DOMAIN Tail(c) /\ Tail(c)[i - 1] = c[i]
  BY <1>2
<1> QED
  BY <1>1, <1>3 DEF In

LEMMA OtherFrames ==
    /\ \A q \in Queues : ProcessNext(q) # ClearRoot /\ HandleSettled(q) # ClearRoot
    /\ \A t \in Thunks : TryFinalCleanup(t) # ClearRoot
    /\ ClearRoot \in Single
BY DEF Single, Queues, ProcessNext, HandleSettled, TryFinalCleanup, ClearRoot

(* A registration without a callback is settled after its THUNK_STARTED. *)
LEMMA SettledLater ==
    ASSUME IInv, NEW q \in Queues, StartHead(q),
           NEW c \in Seq(Frames), Once(c), \A f : In(c, f) => Pending(f)
    PROVE  \A f : f = HandleSettled(q) \/ In(c, f) =>
              In(Listeners \o <<HandleSettled(q)>> \o c, f)
<1> DEFINE h == HandleSettled(q)
           d == <<h>> \o c
<1>1. h \in Frames
  BY FrameTypes
<1>2. h \in Single => ~In(c, h)
  BY FrameTypes DEF IInv, Settling, Queues, StartHead, CanStart
<1>3. (Listeners \o <<h>>) \o c = Listeners \o d
  BY <1>1, FrameTypes, ConcatAssociative DEF Listeners, Queues
<1> HIDE DEF h
<1>4. /\ d \in Seq(Frames) /\ Once(d)
      /\ \A g : In(d, g) <=> g = h \/ In(c, g)
  BY <1>1, <1>2, Pushed
<1> HIDE DEF d
<1>5. \A f : f = h \/ In(c, f) => In(Listeners \o <<h>> \o c, f)
  BY <1>3, <1>4, Emitted
<1> QED
  BY <1>5 DEF h

LEMMA CodeKeeps ==
    ASSUME IInv, Code, NEW f, Pending(f), f # Head(calls)
    PROVE  Pending(f)'
<1>1. /\ calls \in Seq(Frames) /\ calls # <<>> /\ Once(calls)
      /\ In(Tail(calls), f)
  <2>1. calls # <<>>
    BY Empty DEF Pending
  <2> QED
    BY <2>1, StillPending DEF IInv, TypeOK, OneCall, Pending
<1>2. Tail(calls) \in Seq(Frames) /\ Once(Tail(calls))
  BY <1>1, Popped
<1>3. CASE calls' = Tail(calls)
  BY <1>1, <1>3 DEF Pending
<1>4. ASSUME NEW q \in Queues, calls' = <<ProcessNext(q)>> \o Tail(calls)
      PROVE  Pending(f)'
  BY <1>1, <1>2, <1>4, FrameTypes, Pushed DEF Pending
<1>5. CASE calls' = Listeners \o Tail(calls)
  BY <1>1, <1>2, <1>5, Emitted DEF Pending
<1>6. ASSUME NEW q \in Queues, StartHead(q),
             calls' = Listeners \o <<HandleSettled(q)>> \o Tail(calls)
      PROVE  Pending(f)' /\ Pending(HandleSettled(q))'
  <2>1. \A g : In(Tail(calls), g) => Pending(g)
    BY <1>1, Popped DEF Pending
  <2> QED
    BY <1>1, <1>2, <1>6, <2>1, SettledLater DEF Pending
<1> QED
  BY <1>3, <1>4, <1>5, <1>6
     DEF Code, StartHead, NothingToStart, Settle, ScheduleCleanup, ForgetRoot

(* The failure of the root does not end before it is given up. *)
LEMMA FailureClearsRoot ==
    ASSUME NEW t \in Thunks, NEW rest \in {<<>>, <<HandleSettled("main")>>},
           FailThunk(t, rest), root = t, thunkState[t] # "absent"
    PROVE  Pending(ClearRoot)'
<1>1. rest \in Seq(Frames) /\ Once(rest) /\ ~In(rest, ClearRoot)
  BY AfterBody, OtherFrames
<1> DEFINE d == <<ClearRoot>> \o rest
<1>2. calls' = Listeners \o d
  <2>1. (Listeners \o <<ClearRoot>>) \o rest = Listeners \o d
    BY <1>1, FrameTypes, ConcatAssociative DEF Listeners, Queues
  <2> QED
    BY <2>1 DEF FailThunk
<1>3. d \in Seq(Frames) /\ Once(d) /\ In(d, ClearRoot)
  BY <1>1, FrameTypes, Pushed
<1> HIDE DEF d
<1> QED
  BY <1>2, <1>3, Emitted, OtherFrames DEF Pending
-----------------------------------------------------------------------------
(* Each step keeps NoEntryYet and QueuedOnce. *)

LEMMA QueuesKept ==
    ASSUME NoEntryYet, QueuedOnce, UNCHANGED <<queue, redispatched>>,
           \A t \in RegisteredOnce :
              /\ body'[t] = "idle" => body[t] = "idle"
              /\ thunkState[t] = "absent" => thunkState'[t] = "absent"
              /\ t \in cleanup' =>
                    \/ thunkState'[t] = "completed"
                    \/ t \in cleanup /\ thunkState'[t] = thunkState[t]
    PROVE  NoEntryYet' /\ QueuedOnce'
<1> RegisteredOnce' = RegisteredOnce
  BY DEF RegisteredOnce
<1>1. QueuedOnce'
  BY DEF QueuedOnce
<1>2. \A t \in RegisteredOnce : Waiting(t)' <=> Waiting(t)
  BY DEF Waiting
<1>3. NoEntryYet'
  BY <1>2 DEF NoEntryYet
<1> QED
  BY <1>1, <1>3

LEMMA StartHeadOnce ==
    ASSUME IInv, NoEntryYet, QueuedOnce, NEW q \in Queues, StartHead(q)
    PROVE  NoEntryYet' /\ QueuedOnce'
<1> DEFINE r == Head(queue[q])
           t == r.thunk
<1> RegisteredOnce' = RegisteredOnce
  BY DEF StartHead, RegisteredOnce
<1>1. queue[q] \in Seq(Registration) /\ queue[q] # <<>>
  BY DEF IInv, TypeOK, StartHead, CanStart
<1>2. /\ 1 \in DOMAIN queue[q] /\ r = queue[q][1] /\ r \in Registration
      /\ \A i \in DOMAIN Tail(queue[q]) :
            /\ i \in Nat /\ i + 1 # 1
            /\ i + 1 \in DOMAIN queue[q]
            /\ Tail(queue[q])[i] = queue[q][i + 1]
  <2>1. /\ Tail(queue[q]) \in Seq(Registration)
        /\ Len(Tail(queue[q])) = Len(queue[q]) - 1
        /\ \A i \in 1 .. Len(Tail(queue[q])) : Tail(queue[q])[i] = queue[q][i + 1]
    BY <1>1, HeadTailProperties
  <2> QED
    BY <1>1, <2>1
<1>3. /\ queue' = [queue EXCEPT ![q] = Tail(queue[q])]
      /\ thunkState' = [thunkState EXCEPT ![t] = "executing"]
      /\ body' = body \/ body' = [body EXCEPT ![t] = "running"]
      /\ cleanup' = cleanup
  BY DEF StartHead, RegisterThunk
<1> HIDE DEF r
<1>4. t \in Thunks /\ Waiting(t)
  BY <1>2 DEF Waiting, Registration
<1>5. \A p \in Queues : \A i \in DOMAIN queue'[p] :
         /\ p = q => /\ i \in Nat /\ i + 1 # 1 /\ i + 1 \in DOMAIN queue[q]
                     /\ queue'[q][i] = queue[q][i + 1]
         /\ p # q => i \in DOMAIN queue[p] /\ queue'[p][i] = queue[p][i]
  BY <1>2, <1>3 DEF IInv, TypeOK
<1>6. QueuedOnce'
  <2> SUFFICES ASSUME NEW p1 \in Queues, NEW p2 \in Queues,
                      NEW i \in DOMAIN queue'[p1], NEW j \in DOMAIN queue'[p2],
                      queue'[p1][i].thunk = queue'[p2][j].thunk,
                      queue'[p1][i].thunk \in RegisteredOnce
               PROVE  p1 = p2 /\ i = j
    BY DEF QueuedOnce
  <2>1. CASE p1 = q /\ p2 = q
    <3>1. /\ i \in Nat /\ i + 1 \in DOMAIN queue[q] /\ queue'[q][i] = queue[q][i + 1]
          /\ j \in Nat /\ j + 1 \in DOMAIN queue[q] /\ queue'[q][j] = queue[q][j + 1]
      BY <1>5, <2>1
    <3>2. i + 1 = j + 1
      BY <2>1, <3>1 DEF QueuedOnce
    <3> QED
      BY <2>1, <3>1, <3>2
  <2>2. CASE p1 = q /\ p2 # q
    BY <1>5, <2>2 DEF QueuedOnce
  <2>3. CASE p1 # q /\ p2 = q
    BY <1>5, <2>3 DEF QueuedOnce
  <2>4. CASE p1 # q /\ p2 # q
    BY <1>5, <2>4 DEF QueuedOnce
  <2> QED
    BY <2>1, <2>2, <2>3, <2>4
<1>7. \A s \in RegisteredOnce : Waiting(s)' => Waiting(s) /\ s # t
  <2> SUFFICES ASSUME NEW s \in RegisteredOnce, NEW p \in Queues,
                      NEW i \in DOMAIN queue'[p], queue'[p][i].thunk = s
               PROVE  Waiting(s) /\ s # t
    BY DEF Waiting
  <2>1. CASE p = q
    <3>1. i + 1 \in DOMAIN queue[q] /\ queue[q][i + 1].thunk = s /\ i + 1 # 1
      BY <1>5, <2>1
    <3>2. s # t
      BY <1>2, <3>1 DEF QueuedOnce
    <3> QED
      BY <3>1, <3>2 DEF Waiting
  <2>2. CASE p # q
    <3>1. i \in DOMAIN queue[p] /\ queue[p][i].thunk = s
      BY <1>5, <2>2
    <3>2. s # t
      BY <1>2, <2>2, <3>1 DEF QueuedOnce
    <3> QED
      BY <3>1, <3>2 DEF Waiting
  <2> QED
    BY <2>1, <2>2
<1>8. NoEntryYet'
  <2> SUFFICES ASSUME NEW s \in RegisteredOnce
               PROVE  /\ body'[s] = "idle" => ~Waiting(s)'
                      /\ body'[s] = "idle" \/ Waiting(s)' => thunkState'[s] = "absent"
                      /\ s \in cleanup' => thunkState'[s] = "completed"
    BY DEF NoEntryYet
  <2>1. /\ body[s] = "idle" => ~Waiting(s)
        /\ body[s] = "idle" \/ Waiting(s) => thunkState[s] = "absent"
        /\ s \in cleanup => thunkState[s] = "completed"
        /\ s \in Thunks
    BY DEF NoEntryYet, RegisteredOnce
  <2>2. CASE s = t
    BY <1>3, <1>4, <1>7, <2>1, <2>2 DEF IInv, TypeOK
  <2>3. CASE s # t
    BY <1>3, <1>7, <2>1, <2>3 DEF IInv, TypeOK
  <2> QED
    BY <2>2, <2>3
<1> QED
  BY <1>6, <1>8

LEMMA EnqueueOnce ==
    ASSUME IInv, NoEntryYet, QueuedOnce,
           NEW q \in Queues, NEW r \in Registration, Enqueue(q, r),
           UNCHANGED registry,
           \/ /\ body[r.thunk] = "idle" /\ redispatched' = redispatched
              /\ \E b \in {"queued", "registering"} : body' = [body EXCEPT ![r.thunk] = b]
           \/ redispatched' = redispatched \cup {r.thunk} /\ body' = body
    PROVE  NoEntryYet' /\ QueuedOnce'
<1> DEFINE n == Len(queue[q]) + 1
           t == r.thunk
<1>1. queue[q] \in Seq(Registration) /\ t \in Thunks
  BY DEF IInv, TypeOK, Registration
<1>2. queue' = [queue EXCEPT ![q] = Append(queue[q], r)]
  BY DEF Enqueue
<1>3. \A p \in Queues : \A i \in DOMAIN queue'[p] :
         \/ i \in DOMAIN queue[p] /\ queue'[p][i] = queue[p][i]
         \/ p = q /\ i = n /\ queue'[p][i] = r
  BY <1>1, <1>2 DEF IInv, TypeOK
<1>4. /\ RegisteredOnce' \subseteq RegisteredOnce
      /\ t \in RegisteredOnce' => ~Waiting(t) /\ body[t] = "idle"
  BY DEF NoEntryYet, RegisteredOnce
<1>5. QueuedOnce'
  <2> SUFFICES ASSUME NEW p1 \in Queues, NEW p2 \in Queues,
                      NEW i \in DOMAIN queue'[p1], NEW j \in DOMAIN queue'[p2],
                      queue'[p1][i].thunk = queue'[p2][j].thunk,
                      queue'[p1][i].thunk \in RegisteredOnce'
               PROVE  p1 = p2 /\ i = j
    BY DEF QueuedOnce
  <2>1. /\ \/ i \in DOMAIN queue[p1] /\ queue'[p1][i] = queue[p1][i]
           \/ p1 = q /\ i = n /\ queue'[p1][i] = r
        /\ \/ j \in DOMAIN queue[p2] /\ queue'[p2][j] = queue[p2][j]
           \/ p2 = q /\ j = n /\ queue'[p2][j] = r
    BY <1>3
  <2> QED
    BY <1>4, <2>1 DEF QueuedOnce, Waiting
<1>6. \A s \in RegisteredOnce : Waiting(s)' => Waiting(s) \/ s = t
  BY <1>3 DEF Waiting
<1>7. NoEntryYet'
  <2> SUFFICES ASSUME NEW s \in RegisteredOnce'
               PROVE  /\ body'[s] = "idle" => ~Waiting(s)'
                      /\ body'[s] = "idle" \/ Waiting(s)' => thunkState'[s] = "absent"
                      /\ s \in cleanup' => thunkState'[s] = "completed"
    BY DEF NoEntryYet
  <2>1. /\ body[s] = "idle" => ~Waiting(s)
        /\ body[s] = "idle" \/ Waiting(s) => thunkState[s] = "absent"
        /\ s \in cleanup => thunkState[s] = "completed"
        /\ s \in Thunks
    BY <1>4 DEF NoEntryYet, RegisteredOnce
  <2>2. UNCHANGED <<thunkState, cleanup>>
    BY DEF registry
  <2>3. CASE s = t
    BY <1>1, <1>4, <2>1, <2>2, <2>3 DEF IInv, TypeOK, RegisteredOnce
  <2>4. CASE s # t
    BY <1>1, <1>4, <1>6, <2>1, <2>2, <2>4 DEF IInv, TypeOK
  <2> QED
    BY <2>3, <2>4
<1> QED
  BY <1>5, <1>7

LEMMA NoEntryNext ==
    ASSUME IInv, NoEntryYet, QueuedOnce, [Next]_vars
    PROVE  NoEntryYet' /\ QueuedOnce'
<1>1. ASSUME NEW q \in Queues, StartHead(q) PROVE NoEntryYet' /\ QueuedOnce'
  BY <1>1, StartHeadOnce
<1>2. ASSUME NEW t \in Thunks, MainExecute(t) \/ RendererExecute(t)
      PROVE  NoEntryYet' /\ QueuedOnce'
  <2> DEFINE r == [thunk |-> t, immediate |-> t \in Immediate, first |-> TRUE]
  <2>1. r \in Registration /\ r.thunk = t
    BY DEF Registration
  <2>2. /\ Enqueue("main", r) \/ Enqueue("ipc", r)
        /\ UNCHANGED registry /\ body[t] = "idle" /\ redispatched' = redispatched
        /\ \E b \in {"queued", "registering"} : body' = [body EXCEPT ![t] = b]
    BY <1>2 DEF MainExecute, RendererExecute, Dispatchable
  <2> HIDE DEF r
  <2> QED
    BY <2>1, <2>2, EnqueueOnce DEF Queues
<1>3. ASSUME NEW t \in Thunks, DispatchUnknown(t) PROVE NoEntryYet' /\ QueuedOnce'
  <2> DEFINE r == [thunk |-> t, first |-> FALSE,
                   immediate |-> t \in MainThunks \cap Immediate]
  <2>1. r \in Registration /\ r.thunk = t
    BY DEF Registration
  <2>2. /\ Enqueue("main", r) \/ Enqueue("ipc", r)
        /\ UNCHANGED registry /\ body' = body
        /\ redispatched' = redispatched \cup {t}
    BY <1>3 DEF DispatchUnknown, QueueOf
  <2> HIDE DEF r
  <2> QED
    BY <2>1, <2>2, EnqueueOnce DEF Queues
<1>4. ASSUME UNCHANGED <<queue, redispatched, thunkState, cleanup>>,
             \A t \in RegisteredOnce : body'[t] = "idle" => body[t] = "idle"
      PROVE  NoEntryYet' /\ QueuedOnce'
  BY <1>4, QueuesKept
<1>5. ASSUME NEW q \in Queues, NothingToStart(q) \/ Settle(q)
      PROVE  NoEntryYet' /\ QueuedOnce'
  BY <1>4, <1>5 DEF NothingToStart, Settle, registry, queues, programs
<1>6. ASSUME NEW t \in Thunks, ScheduleCleanup(t) \/ UpdatesAcknowledged(t)
      PROVE  NoEntryYet' /\ QueuedOnce'
  BY <1>6, QueuesKept DEF ScheduleCleanup, UpdatesAcknowledged, queues, programs
<1>7. CASE ForgetRoot
  BY <1>4, <1>7 DEF ForgetRoot, queues, programs
<1>8. ASSUME NEW t \in Thunks, RendererAcked(t) \/ RendererGivesUpWaiting(t)
      PROVE  NoEntryYet' /\ QueuedOnce'
  <2>1. /\ UNCHANGED <<queue, redispatched, thunkState, cleanup>>
        /\ body' = [body EXCEPT ![t] = "running"] \/ body' = [body EXCEPT ![t] = body[t]]
    BY <1>8 DEF RendererAcked, RendererGivesUpWaiting, registry, queues
  <2> QED
    BY <1>4, <2>1 DEF IInv, TypeOK, RegisteredOnce
<1>9. ASSUME NEW w \in Windows, WindowDestroyed(w) PROVE NoEntryYet' /\ QueuedOnce'
  BY <1>4, <1>9 DEF WindowDestroyed, registry, queues, RegisteredOnce
<1>10. ASSUME NEW t \in Thunks, NEW rest,
              \/ CompleteThunk(t, rest)
              \/ FailThunk(t, rest) /\ t \in MainThunks /\ body[t] # "done",
              \E b \in {"thrown", "done"} : body' = [body EXCEPT ![t] = b],
              UNCHANGED <<cleanup, queue, redispatched>>
       PROVE  NoEntryYet' /\ QueuedOnce'
  <2>1. \/ thunkState' = thunkState
        \/ /\ thunkState[t] # "absent"
           /\ \/ thunkState' = [thunkState EXCEPT ![t] = "completed"]
              \/ t \notin cleanup /\ thunkState' = [thunkState EXCEPT ![t] = "failed"]
    BY <1>10 DEF CompleteThunk, FailThunk, IInv, MainLifecycle
  <2> QED
    BY <1>10, <2>1, QueuesKept DEF IInv, TypeOK, RegisteredOnce
<1>11. ASSUME NEW t \in Thunks, CleanupThunk(t) PROVE NoEntryYet' /\ QueuedOnce'
  BY <1>11, QueuesKept
     DEF CleanupThunk, queues, programs, IInv, TypeOK, RegisteredOnce
<1>12. CASE UNCHANGED vars
  BY <1>4, <1>12 DEF vars, registry, queues, programs
<1> QED
  BY <1>1, <1>2, <1>3, <1>5, <1>6, <1>7, <1>8, <1>9, <1>10, <1>11, <1>12,
         ThunkAssumption DEF Next, Code, Program, MainReturns, RendererReturns,
         MainThrows, MainRejected, queues
-----------------------------------------------------------------------------
(* The root. *)

LEMMA RootNext ==
    ASSUME IInv, NoEntryYet, RootIsActive, [Next]_vars
    PROVE  RootIsActive'
<1> SUFFICES ASSUME root' \notin MayRedispatch \cup {None}
             PROVE  root' \in Active' \/ Pending(ClearRoot)'
  BY DEF RootIsActive, Pending, In
<1>1. ASSUME root = root' PROVE root \in Active \/ Pending(ClearRoot)
  BY <1>1 DEF RootIsActive, Pending, In
<1>2. calls = <<>> => ~Pending(ClearRoot)
  BY Empty DEF Pending
<1>3. ASSUME NEW q \in Queues, StartHead(q)
      PROVE  root' \in Active' \/ Pending(ClearRoot)'
  <2> DEFINE t == Head(queue[q]).thunk
  <2>1. t \in Thunks
    <3>1. queue[q] \in Seq(Registration) /\ queue[q] # <<>>
      BY <1>3 DEF IInv, TypeOK, StartHead, CanStart
    <3>2. Head(queue[q]) \in Registration
      BY <3>1, HeadTailProperties
    <3> QED
      BY <3>2 DEF Registration
  <2>2. /\ thunkState' = [thunkState EXCEPT ![t] = "executing"]
        /\ root' = IF root = None THEN t ELSE root
    BY <1>3 DEF StartHead, RegisterThunk
  <2> HIDE DEF t
  <2>3. Active' = Active \cup {t}
    BY <2>1, <2>2 DEF Active, IInv, TypeOK
  <2>4. ClearRoot # Head(calls)
    BY <1>3, OtherFrames DEF StartHead, Calling
  <2> QED
    BY <1>1, <1>3, <2>2, <2>3, <2>4, CodeKeeps DEF Code
<1>4. ASSUME NEW q \in Queues, NothingToStart(q) \/ Settle(q)
      PROVE  root' \in Active' \/ Pending(ClearRoot)'
  <2>1. ClearRoot # Head(calls)
    BY <1>4, OtherFrames DEF NothingToStart, Settle, Calling
  <2>2. UNCHANGED <<root, thunkState>> /\ Code
    BY <1>4 DEF NothingToStart, Settle, registry, Code
  <2> QED
    BY <1>1, <2>1, <2>2, CodeKeeps DEF Active
<1>5. ASSUME NEW t \in Thunks, ScheduleCleanup(t)
      PROVE  root' \in Active' \/ Pending(ClearRoot)'
  <2>1. ClearRoot # Head(calls)
    BY <1>5, OtherFrames DEF ScheduleCleanup, Calling
  <2>2. UNCHANGED <<root, thunkState>> /\ Code
    BY <1>5 DEF ScheduleCleanup, Code
  <2> QED
    BY <1>1, <2>1, <2>2, CodeKeeps DEF Active
<1>6. ForgetRoot => root' = None
  BY DEF ForgetRoot
<1>7. ASSUME calls = <<>>, UNCHANGED <<thunkState, root>>
      PROVE  root' \in Active' \/ Pending(ClearRoot)'
  BY <1>1, <1>2, <1>7 DEF Active
<1>8. ASSUME NEW t \in Thunks, NEW rest, CompleteThunk(t, rest), calls = <<>>
      PROVE  root' \in Active' \/ Pending(ClearRoot)'
  <2>1. CASE root = t
    <3>1. thunkState[t] \in {"absent", "completed"} => root' = root /\ root \notin Active
      BY <1>8, <2>1 DEF CompleteThunk, Active
    <3>2. thunkState[t] \notin {"absent", "completed"} => root' = None
      BY <1>8, <2>1 DEF CompleteThunk
    <3> QED
      BY <1>1, <1>2, <1>8, <3>1, <3>2
  <2>2. CASE root # t
    <3>1. root' = root /\ Active \ {t} \subseteq Active'
      BY <1>8, <2>2 DEF CompleteThunk, Active, IInv, TypeOK
    <3> QED
      BY <1>1, <1>2, <1>8, <2>2, <3>1
  <2> QED
    BY <2>1, <2>2
<1>9. ASSUME NEW t \in Thunks, NEW rest \in {<<>>, <<HandleSettled("main")>>},
             FailThunk(t, rest), calls = <<>>
      PROVE  root' \in Active' \/ Pending(ClearRoot)'
  <2>1. root' = root /\ Active \ {t} \subseteq Active'
    BY <1>9 DEF FailThunk, Active, IInv, TypeOK
  <2>2. root \in Active
    BY <1>1, <1>2, <1>9, <2>1
  <2>3. root = t => Pending(ClearRoot)'
    BY <1>9, <2>2, FailureClearsRoot DEF Active
  <2> QED
    BY <2>1, <2>2, <2>3
<1>10. ASSUME NEW t \in Thunks, CleanupThunk(t)
       PROVE  root' \in Active' \/ Pending(ClearRoot)'
  <2>1. /\ calls = <<>> /\ t \in cleanup /\ root' = root
        /\ thunkState' = [thunkState EXCEPT ![t] = "absent"] \/ thunkState' = thunkState
    BY <1>10 DEF CleanupThunk, Idle
  <2>2. root \in Active /\ root \notin MayRedispatch
    BY <1>1, <1>2, <2>1
  <2>3. root # t
    BY <2>1, <2>2 DEF NoEntryYet, RegisteredOnce, Active, IInv, TypeOK
  <2> QED
    BY <2>1, <2>2, <2>3 DEF Active, IInv, TypeOK
<1>11. CASE UNCHANGED vars
  BY <1>1, <1>11 DEF vars, registry, Active, Pending
<1>12. ASSUME NEW t \in Thunks,
              \/ MainExecute(t) \/ RendererExecute(t) \/ RendererAcked(t)
              \/ RendererGivesUpWaiting(t) \/ DispatchUnknown(t)
              \/ UpdatesAcknowledged(t)
       PROVE  root' \in Active' \/ Pending(ClearRoot)'
  BY <1>7, <1>12
     DEF MainExecute, RendererExecute, RendererAcked, RendererGivesUpWaiting,
         DispatchUnknown, UpdatesAcknowledged, Idle, registry
<1>13. ASSUME NEW w \in Windows, WindowDestroyed(w)
       PROVE  root' \in Active' \/ Pending(ClearRoot)'
  BY <1>7, <1>13 DEF WindowDestroyed, Idle, registry
<1>14. ASSUME NEW t \in Thunks, MainReturns(t) \/ RendererReturns(t)
       PROVE  root' \in Active' \/ Pending(ClearRoot)'
  BY <1>8, <1>14 DEF MainReturns, RendererReturns, Idle
<1>15. ASSUME NEW t \in Thunks, MainThrows(t) \/ MainRejected(t)
       PROVE  root' \in Active' \/ Pending(ClearRoot)'
  BY <1>9, <1>15 DEF MainThrows, MainRejected, Idle
<1> QED
  BY <1>3, <1>4, <1>5, <1>6, <1>10, <1>11, <1>12, <1>13, <1>14, <1>15
     DEF Next, Code, Program

(* The root is an executing thunk, or one whose failure is being handled: no
   action is decided on a root that has ended or been deleted. *)
THEOREM RootStaysActive == Spec => []RootIsActive
<1>1. Init => RInv
  <2> SUFFICES ASSUME Init PROVE RInv
    OBVIOUS
  <2>1. NoEntryYet
    <3>1. \A t \in Thunks : ~Waiting(t) /\ thunkState[t] = "absent"
      <4>1. \A q \in Queues : queue[q] = <<>>
        BY DEF Init
      <4>2. \A q \in Queues : DOMAIN queue[q] = {}
        BY <4>1
      <4> QED
        BY <4>2 DEF Init, Waiting
    <3> QED
      BY <3>1 DEF Init, NoEntryYet, RegisteredOnce
  <2>2. QueuedOnce
    BY DEF Init, QueuedOnce
  <2>3. RootIsActive
    BY DEF Init, RootIsActive
  <2> QED
    BY <2>1, <2>2, <2>3, InitInv DEF RInv
<1>2. RInv /\ [Next]_vars => RInv'
  BY NextInv, NoEntryNext, RootNext DEF RInv
<1>3. RInv => RootIsActive
  BY DEF RInv
<1> QED
  BY <1>1, <1>2, <1>3, PTL DEF Spec
-----------------------------------------------------------------------------
(* Programs and entries keep step. *)

InProcess(t) == processing["ipc"] # None /\ processing["ipc"].thunk = t

(* Where the registration of a renderer's thunk is: in the queue, in process,
   acknowledged, or none of them, each with what its program may be doing. *)
InStep(t) ==
    /\ body[t] \in RendererBody
    /\ body[t] = "idle" => ~InProcess(t) /\ t \notin acks
    /\ body[t] = "registering" =>
          \/ Waiting(t) /\ ~InProcess(t) /\ t \notin acks
          \/ ~Waiting(t) /\ (InProcess(t) <=> t \notin acks) /\ t \in Active
    /\ body[t] \in {"running", "done"} => ~Waiting(t) /\ ~InProcess(t)
    /\ body[t] = "running" => t \in Active
    /\ body[t] = "done" => t \notin Active
    /\ t \in cleanup \/ thunkState[t] = "completed" => body[t] \in {"done", "dead"}

RendererStep == \A t \in RendererThunks \ Stray : InStep(t)

MainStep == \A t \in MainThunks \ Stray : t \in Active => body[t] = "running"

(* Only an action of its thunk repeats a registration. *)
Repeats ==
    \A q \in Queues :
        /\ \A i \in DOMAIN queue[q] :
              ~queue[q][i].first => queue[q][i].thunk \in redispatched
        /\ processing[q] # None /\ ~processing[q].first =>
              processing[q].thunk \in redispatched

(* The head of a queue leaves it, with its thunk if that is registered once. *)
LEMMA HeadTaken ==
    ASSUME IInv, QueuedOnce, NEW q \in Queues, StartHead(q)
    PROVE  /\ Head(queue[q]) \in Registration
           /\ 1 \in DOMAIN queue[q] /\ Head(queue[q]) = queue[q][1]
           /\ Waiting(Head(queue[q]).thunk)
           /\ \A p \in Queues : \A i \in DOMAIN queue'[p] :
                 \E j \in DOMAIN queue[p] : queue'[p][i] = queue[p][j]
           /\ \A s \in Thunks :
                 IF s # Head(queue[q]).thunk THEN Waiting(s)' <=> Waiting(s)
                                             ELSE s \in RegisteredOnce => ~Waiting(s)'
<1> DEFINE r == Head(queue[q])
           t == r.thunk
<1>1. queue[q] \in Seq(Registration) /\ queue[q] # <<>>
  BY DEF IInv, TypeOK, StartHead, CanStart
<1>2. /\ 1 \in DOMAIN queue[q] /\ r = queue[q][1] /\ r \in Registration
      /\ \A i \in DOMAIN Tail(queue[q]) :
            /\ i \in Nat /\ i + 1 # 1
            /\ i + 1 \in DOMAIN queue[q]
            /\ Tail(queue[q])[i] = queue[q][i + 1]
      /\ \A i \in DOMAIN queue[q] :
            i # 1 => i - 1 \in DOMAIN Tail(queue[q]) /\ Tail(queue[q])[i - 1] = queue[q][i]
  <2>1. /\ Tail(queue[q]) \in Seq(Registration)
        /\ Len(Tail(queue[q])) = Len(queue[q]) - 1
        /\ \A i \in 1 .. Len(Tail(queue[q])) : Tail(queue[q])[i] = queue[q][i + 1]
    BY <1>1, HeadTailProperties
  <2> QED
    BY <1>1, <2>1
<1>3. queue' = [queue EXCEPT ![q] = Tail(queue[q])]
  BY DEF StartHead
<1> HIDE DEF r
<1>4. t \in Thunks /\ Waiting(t)
  BY <1>2 DEF Waiting, Registration
<1>5. \A p \in Queues : \A i \in DOMAIN queue'[p] :
         /\ p = q => /\ i \in Nat /\ i + 1 # 1 /\ i + 1 \in DOMAIN queue[q]
                     /\ queue'[q][i] = queue[q][i + 1]
         /\ p # q => i \in DOMAIN queue[p] /\ queue'[p][i] = queue[p][i]
  BY <1>2, <1>3 DEF IInv, TypeOK
<1>6. \A p \in Queues : \A i \in DOMAIN queue'[p] :
         \E j \in DOMAIN queue[p] : queue'[p][i] = queue[p][j]
  BY <1>5
<1>7. \A p \in Queues : \A i \in DOMAIN queue[p] :
         queue[p][i].thunk # t =>
             \E j \in DOMAIN queue'[p] : queue'[p][j] = queue[p][i]
  BY <1>2, <1>3 DEF IInv, TypeOK
<1>8. \A s \in Thunks : s # t => (Waiting(s)' <=> Waiting(s))
  BY <1>6, <1>7 DEF Waiting
<1>9. ASSUME NEW s \in RegisteredOnce, s = t PROVE ~Waiting(s)'
  <2> SUFFICES ASSUME Waiting(s)'
               PROVE  FALSE
    BY <1>9
  <2> PICK p \in Queues : \E i \in DOMAIN queue'[p] : queue'[p][i].thunk = s
    BY DEF Waiting
  <2> PICK i \in DOMAIN queue'[p] : queue'[p][i].thunk = t
    BY <1>9
  <2>1. CASE p = q
    <3>1. /\ i \in Nat /\ i + 1 # 1
          /\ i + 1 \in DOMAIN queue[q] /\ queue[q][i + 1].thunk = t
      BY <1>5, <2>1
    <3>2. i + 1 = 1
      BY <1>2, <1>9, <3>1 DEF QueuedOnce
    <3> QED
      BY <3>1, <3>2
  <2>2. CASE p # q
    BY <1>2, <1>5, <1>9, <2>2 DEF QueuedOnce
  <2> QED
    BY <2>1, <2>2
<1> QED
  BY <1>2, <1>4, <1>6, <1>8, <1>9 DEF r, RegisteredOnce

LEMMA Enqueued ==
    ASSUME IInv, NEW q \in Queues, NEW r \in Registration, Enqueue(q, r)
    PROVE  /\ \A s \in Thunks : Waiting(s)' <=> Waiting(s) \/ s = r.thunk
           /\ \A p \in Queues : \A i \in DOMAIN queue'[p] :
                 \/ queue'[p][i] = r
                 \/ \E j \in DOMAIN queue[p] : queue'[p][i] = queue[p][j]
           /\ \A p \in Queues : p # q => queue'[p] = queue[p]
<1> DEFINE n == Len(queue[q]) + 1
<1>1. queue[q] \in Seq(Registration)
  BY DEF IInv, TypeOK
<1>2. queue' = [queue EXCEPT ![q] = Append(queue[q], r)]
  BY DEF Enqueue
<1>3. \A p \in Queues : \A i \in DOMAIN queue'[p] :
         \/ i \in DOMAIN queue[p] /\ queue'[p][i] = queue[p][i]
         \/ p = q /\ i = n /\ queue'[p][i] = r
  BY <1>1, <1>2 DEF IInv, TypeOK
<1>4. /\ n \in DOMAIN queue'[q] /\ queue'[q][n] = r
      /\ \A p \in Queues : \A i \in DOMAIN queue[p] :
            i \in DOMAIN queue'[p] /\ queue'[p][i] = queue[p][i]
  BY <1>1, <1>2 DEF IInv, TypeOK
<1>5. \A p \in Queues : p # q => queue'[p] = queue[p]
  BY <1>2 DEF IInv, TypeOK
<1> QED
  BY <1>3, <1>4, <1>5 DEF Waiting

LEMMA RepeatsNext ==
    ASSUME IInv, QueuedOnce, Repeats, [Next]_vars
    PROVE  Repeats'
<1>1. ASSUME NEW q \in Queues, StartHead(q) PROVE Repeats'
  <2>1. /\ processing' = [processing EXCEPT ![q] = Head(queue[q])]
        /\ redispatched' = redispatched
    BY <1>1 DEF StartHead
  <2>2. /\ 1 \in DOMAIN queue[q] /\ Head(queue[q]) = queue[q][1]
        /\ \A p \in Queues : \A i \in DOMAIN queue'[p] :
              \E j \in DOMAIN queue[p] : queue'[p][i] = queue[p][j]
    BY <1>1, HeadTaken
  <2> QED
    BY <2>1, <2>2 DEF Repeats, IInv, TypeOK
<1>2. ASSUME NEW q \in Queues, Settle(q) PROVE Repeats'
  BY <1>2 DEF Settle, Repeats, IInv, TypeOK
<1>3. ASSUME UNCHANGED <<queue, processing, redispatched>> PROVE Repeats'
  BY <1>3 DEF Repeats
<1>4. ASSUME NEW q \in Queues, NEW r \in Registration, Enqueue(q, r),
             processing' = processing, redispatched \subseteq redispatched',
             r.first \/ r.thunk \in redispatched'
      PROVE  Repeats'
  <2>1. \A p \in Queues : \A i \in DOMAIN queue'[p] :
           \/ queue'[p][i] = r
           \/ \E j \in DOMAIN queue[p] : queue'[p][i] = queue[p][j]
    BY <1>4, Enqueued
  <2> QED
    BY <1>4, <2>1 DEF Repeats
<1>5. ASSUME NEW t \in Thunks, MainExecute(t) \/ RendererExecute(t) PROVE Repeats'
  <2> DEFINE r == [thunk |-> t, immediate |-> t \in Immediate, first |-> TRUE]
  <2>1. r \in Registration /\ r.first
    BY DEF Registration
  <2>2. /\ Enqueue("main", r) \/ Enqueue("ipc", r)
        /\ UNCHANGED <<processing, redispatched>>
    BY <1>5 DEF MainExecute, RendererExecute
  <2> HIDE DEF r
  <2> QED
    BY <1>4, <2>1, <2>2 DEF Queues
<1>6. ASSUME NEW t \in Thunks, DispatchUnknown(t) PROVE Repeats'
  <2> DEFINE r == [thunk |-> t, first |-> FALSE,
                   immediate |-> t \in MainThunks \cap Immediate]
  <2>1. r \in Registration /\ r.thunk = t
    BY DEF Registration
  <2>2. /\ Enqueue("main", r) \/ Enqueue("ipc", r)
        /\ processing' = processing /\ redispatched' = redispatched \cup {t}
    BY <1>6 DEF DispatchUnknown, QueueOf
  <2> HIDE DEF r
  <2> QED
    BY <1>4, <2>1, <2>2 DEF Queues
<1> QED
  BY <1>1, <1>2, <1>3, <1>5, <1>6
     DEF Next, Code, Program, NothingToStart, ScheduleCleanup, ForgetRoot, MainReturns,
         MainRejected, RendererAcked, RendererReturns, MainThrows,
         RendererGivesUpWaiting, UpdatesAcknowledged, CleanupThunk, WindowDestroyed,
         vars, queues, programs, registry

(* A step that moves neither the registration nor the program of a thunk. *)
LEMMA Unmoved ==
    ASSUME NEW t, InStep(t),
           Waiting(t)' <=> Waiting(t), InProcess(t)' <=> InProcess(t),
           t \in acks' <=> t \in acks, t \in Active' <=> t \in Active,
           t \in cleanup' \/ thunkState'[t] = "completed" =>
               t \in cleanup \/ thunkState[t] = "completed",
           body'[t] = body[t]
    PROVE  InStep(t)'
BY DEF InStep

LEMMA InStepNext ==
    ASSUME IInv, NoEntryYet, QueuedOnce, Repeats, RendererStep, [Next]_vars,
           NEW t \in RendererThunks \ Stray
    PROVE  InStep(t)'
<1>1. /\ t \in Thunks /\ t \in RegisteredOnce /\ t \notin MainThunks
      /\ t \notin MayTimeOut /\ t \notin MayRedispatch
  BY DEF RendererThunks, RegisteredOnce, Stray, IInv, TypeOK
<1>2. /\ body[t] = "idle" => ~Waiting(t)
      /\ body[t] = "idle" \/ Waiting(t) => thunkState[t] = "absent"
  BY <1>1 DEF NoEntryYet
<1>3. InStep(t)
  BY DEF RendererStep
<1>4. ASSUME UNCHANGED <<queue, processing, thunkState, acks, cleanup>>,
             body'[t] = body[t]
      PROVE  InStep(t)'
  BY <1>3, <1>4, Unmoved DEF Waiting, InProcess, Active
<1>5. ASSUME NEW q \in Queues, StartHead(q) PROVE InStep(t)'
  <2> DEFINE r == Head(queue[q])
             s == r.thunk
  <2>1. /\ r \in Registration /\ s \in Thunks
        /\ Waiting(s) /\ (t = s => ~Waiting(t)')
        /\ t # s => (Waiting(t)' <=> Waiting(t))
        /\ s \in MainThunks <=> q = "main"
    <3>1. /\ r \in Registration
          /\ 1 \in DOMAIN queue[q] /\ r = queue[q][1]
          /\ Waiting(r.thunk)
          /\ t # r.thunk => (Waiting(t)' <=> Waiting(t))
          /\ t = r.thunk => ~Waiting(t)'
      BY <1>1, <1>5, HeadTaken
    <3> QED
      BY <3>1 DEF Registration, IInv, Registrations
  <2>2. /\ processing[q] = None /\ processing' = [processing EXCEPT ![q] = r]
        /\ thunkState' = [thunkState EXCEPT ![s] = "executing"]
        /\ \/ body' = body
           \/ body' = [body EXCEPT ![s] = "running"] /\ s \in MainThunks
        /\ UNCHANGED <<cleanup, acks>>
    BY <1>5 DEF StartHead, CanStart, RegisterThunk, HasCallback
  <2>3. None \notin Registration
    BY ThunkAssumption
  <2> HIDE DEF r
  <2>4. CASE t = s
    <3>1. /\ q = "ipc" /\ body' = body /\ ~InProcess(t) /\ InProcess(t)' /\ t \in Active'
          /\ ~Waiting(t)' /\ thunkState'[t] = "executing" /\ t \notin cleanup'
      BY <1>1, <2>1, <2>2, <2>3, <2>4
         DEF Queues, InProcess, Active, IInv, TypeOK, NoEntryYet
    <3>2. body[t] \in {"registering", "dead"}
      BY <1>2, <1>3, <2>1, <2>4 DEF InStep, RendererBody
    <3>3. body[t] = "registering" => t \notin acks
      BY <1>3, <2>1, <2>4 DEF InStep
    <3> QED
      BY <2>2, <3>1, <3>2, <3>3 DEF InStep, RendererBody
  <2>5. CASE t # s
    <3>1. InProcess(t)' <=> InProcess(t)
      BY <2>1, <2>2, <2>5 DEF InProcess, Queues, IInv, TypeOK
    <3>2. /\ t \in Active' <=> t \in Active
          /\ thunkState'[t] = thunkState[t] /\ body'[t] = body[t]
      BY <1>1, <2>1, <2>2, <2>5 DEF Active, IInv, TypeOK
    <3> QED
      BY <1>3, <2>1, <2>2, <2>5, <3>1, <3>2, Unmoved
  <2> QED
    BY <2>4, <2>5
<1>6. ASSUME NEW q \in Queues, Settle(q) PROVE InStep(t)'
  <2>1. /\ UNCHANGED <<queue, thunkState, cleanup, body>>
        /\ processing' = [processing EXCEPT ![q] = None]
        /\ acks' = IF q = "ipc" /\ processing[q].first
                      THEN acks \cup {processing[q].thunk} ELSE acks
        /\ Pending(HandleSettled(q))
    BY <1>6 DEF Settle, registry, Calling, Pending, In, IInv, TypeOK
  <2>2. CASE q = "ipc" /\ InProcess(t)
    <3>1. processing["ipc"].first
      BY <1>1, <2>2 DEF Repeats, RegisteredOnce, InProcess, Queues
    <3>2. ~InProcess(t)' /\ t \in acks' /\ Waiting(t)' = Waiting(t) /\ Active' = Active
      BY <2>1, <2>2, <3>1 DEF InProcess, IInv, TypeOK, Queues, Waiting, Active
    <3> QED
      BY <1>3, <2>1, <2>2, <3>2 DEF InStep
  <2>3. CASE ~(q = "ipc" /\ InProcess(t))
    <3>1. q = "ipc" => processing["ipc"] # None
      BY <2>1 DEF IInv, Settling
    <3>2. (InProcess(t)' <=> InProcess(t)) /\ (t \in acks' <=> t \in acks)
      BY <2>1, <2>3, <3>1 DEF InProcess, IInv, TypeOK, Queues
    <3> QED
      BY <1>3, <2>1, <3>2, Unmoved DEF Waiting, Active
  <2> QED
    BY <2>2, <2>3
<1>7. ASSUME NEW s \in Thunks, RendererExecute(s) \/ MainExecute(s) \/ DispatchUnknown(s)
      PROVE  InStep(t)'
  <2>1. PICK q \in Queues, r \in Registration : Enqueue(q, r) /\ r.thunk = s
    <3> DEFINE first == [thunk |-> s, immediate |-> s \in Immediate, first |-> TRUE]
               again == [thunk |-> s, first |-> FALSE,
                         immediate |-> s \in MainThunks \cap Immediate]
    <3>1. /\ first \in Registration /\ first.thunk = s
          /\ again \in Registration /\ again.thunk = s
      BY DEF Registration
    <3>2. \E q \in Queues : Enqueue(q, first) \/ Enqueue(q, again)
      BY <1>7 DEF RendererExecute, MainExecute, DispatchUnknown, Queues, QueueOf
    <3> HIDE DEF first, again
    <3> QED
      BY <3>1, <3>2
  <2>2. Waiting(t)' <=> Waiting(t) \/ t = s
    BY <1>1, <2>1, Enqueued
  <2>3. /\ UNCHANGED <<processing, acks, thunkState, cleanup>>
        /\ \/ \E b \in {"queued", "registering"} : body' = [body EXCEPT ![s] = b]
           \/ body' = body
        /\ t = s => /\ body[t] = "idle"
                    /\ body' = [body EXCEPT ![s] = "registering"]
    BY <1>1, <1>7
       DEF RendererExecute, MainExecute, DispatchUnknown, registry, Dispatchable
  <2>4. UNCHANGED <<InProcess(t), Active>>
    BY <2>3 DEF InProcess, Active
  <2>5. CASE t = s
    <3>1. body'[t] = "registering"
      BY <1>1, <2>3, <2>5 DEF IInv, TypeOK
    <3> QED
      BY <1>3, <2>2, <2>3, <2>4, <2>5, <3>1 DEF InStep, RendererBody
  <2>6. CASE t # s
    <3>1. body'[t] = body[t]
      BY <1>1, <2>3, <2>6 DEF IInv, TypeOK
    <3> QED
      BY <1>3, <2>2, <2>3, <2>4, <2>6, <3>1, Unmoved
  <2> QED
    BY <2>5, <2>6
<1>8. ASSUME NEW s \in Thunks, RendererAcked(s) PROVE InStep(t)'
  <2>1. /\ UNCHANGED <<queue, processing, thunkState, cleanup>>
        /\ s \in acks /\ acks' = acks \ {s}
        /\ body' = [body EXCEPT ![s] = IF body[s] = "registering" THEN "running" ELSE body[s]]
    BY <1>8 DEF RendererAcked, registry, queues
  <2>2. UNCHANGED <<Waiting(t), InProcess(t), Active>>
    BY <2>1 DEF Waiting, InProcess, Active
  <2>3. CASE t = s
    <3>1. body'[t] = IF body[t] = "registering" THEN "running" ELSE body[t]
      BY <1>1, <2>1, <2>3 DEF IInv, TypeOK
    <3> QED
      BY <1>3, <2>1, <2>2, <2>3, <3>1 DEF InStep, RendererBody, Active
  <2>4. CASE t # s
    <3>1. body'[t] = body[t]
      BY <1>1, <2>1, <2>4 DEF IInv, TypeOK
    <3> QED
      BY <1>3, <2>1, <2>2, <2>4, <3>1, Unmoved
  <2> QED
    BY <2>3, <2>4
<1>9. ASSUME NEW s \in Thunks, NEW rest, NEW b,
             CompleteThunk(s, rest) \/ (s \in MainThunks /\ FailThunk(s, rest)),
             UNCHANGED <<cleanup, queues, acks>>, body' = [body EXCEPT ![s] = b],
             t = s => b = "done" /\ body[t] = "running"
      PROVE  InStep(t)'
  <2>1. UNCHANGED <<Waiting(t), InProcess(t)>>
    BY <1>9 DEF Waiting, InProcess, queues
  <2>2. CASE t = s
    <3>1. body'[t] = "done"
      BY <1>1, <1>9, <2>2 DEF IInv, TypeOK
    <3>2. thunkState' = [thunkState EXCEPT ![t] = "completed"]
      BY <1>1, <1>3, <1>9, <2>2 DEF CompleteThunk, InStep, Active
    <3>3. t \notin Active'
      BY <1>1, <3>2 DEF Active, IInv, TypeOK
    <3> QED
      BY <1>3, <1>9, <2>1, <2>2, <3>1, <3>3 DEF InStep, RendererBody
  <2>3. CASE t # s
    <3>1. body'[t] = body[t] /\ thunkState'[t] = thunkState[t]
      BY <1>1, <1>9, <2>3 DEF IInv, TypeOK, CompleteThunk, FailThunk
    <3> QED
      BY <1>1, <1>3, <1>9, <2>1, <3>1, Unmoved DEF Active
  <2> QED
    BY <2>2, <2>3
<1>10. ASSUME NEW s \in Thunks,
              \/ MainReturns(s) \/ RendererReturns(s)
              \/ MainThrows(s) \/ MainRejected(s)
       PROVE  InStep(t)'
  <2>1. CASE MainReturns(s)
    BY <1>1, <1>9, <2>1 DEF MainReturns
  <2>2. CASE RendererReturns(s)
    BY <1>1, <1>9, <2>2 DEF RendererReturns
  <2>3. CASE MainThrows(s)
    <3>1. s \in MainThunks
      BY <2>3, ThunkAssumption DEF MainThrows
    <3>2. /\ FailThunk(s, <<>>) /\ UNCHANGED <<cleanup, queues, acks>>
          /\ body' = [body EXCEPT ![s] = "thrown"]
      BY <2>3 DEF MainThrows
    <3> QED
      BY <1>1, <1>9, <3>1, <3>2
  <2>4. CASE MainRejected(s)
    BY <1>1, <1>9, <2>4 DEF MainRejected
  <2> QED
    BY <1>10, <2>1, <2>2, <2>3, <2>4
<1>11. ASSUME NEW s \in Thunks, CleanupThunk(s) PROVE InStep(t)'
  <2>1. /\ UNCHANGED <<queue, processing, body, acks>>
        /\ s \in cleanup /\ cleanup' = cleanup \ {s}
        /\ thunkState' = [thunkState EXCEPT ![s] = "absent"] \/ thunkState' = thunkState
    BY <1>11 DEF CleanupThunk, queues, programs
  <2>2. UNCHANGED <<Waiting(t), InProcess(t)>>
    BY <2>1 DEF Waiting, InProcess
  <2>3. /\ t \in Active' <=> t \in Active
        /\ (thunkState'[t] = "completed" => thunkState[t] = "completed")
    BY <1>1, <2>1 DEF Active, IInv, TypeOK, NoEntryYet
  <2> QED
    BY <1>3, <2>1, <2>2, <2>3, Unmoved
<1>12. ASSUME NEW w \in Windows, WindowDestroyed(w) PROVE InStep(t)'
  <2>1. /\ UNCHANGED <<queue, processing, thunkState, acks, cleanup>>
        /\ body'[t] = "dead" \/ body'[t] = body[t]
    BY <1>1, <1>12 DEF WindowDestroyed, registry, queues
  <2>2. CASE body'[t] = "dead"
    BY <2>2 DEF InStep, RendererBody
  <2> QED
    BY <1>4, <2>1, <2>2
<1>13. ASSUME NEW s \in Thunks, ScheduleCleanup(s) \/ UpdatesAcknowledged(s)
       PROVE  InStep(t)'
  <2>1. /\ UNCHANGED <<queue, processing, thunkState, acks, body>>
        /\ \A u \in cleanup' : u \in cleanup \/ thunkState[u] = "completed"
    BY <1>13 DEF ScheduleCleanup, UpdatesAcknowledged, queues, programs
  <2> QED
    BY <1>3, <2>1, Unmoved DEF Waiting, InProcess, Active
<1>14. ASSUME NEW s \in Thunks, RendererGivesUpWaiting(s) PROVE InStep(t)'
  <2>1. UNCHANGED <<queue, processing, thunkState, acks, cleanup>> /\ body'[t] = body[t]
    BY <1>1, <1>14 DEF RendererGivesUpWaiting, registry, queues, IInv, TypeOK
  <2> QED
    BY <1>4, <2>1
<1>15. CASE ForgetRoot \/ UNCHANGED vars \/ \E q \in Queues : NothingToStart(q)
  <2>1. UNCHANGED <<queue, processing, thunkState, acks, cleanup, body>>
    BY <1>15 DEF ForgetRoot, NothingToStart, vars, registry, queues, programs
  <2> QED
    BY <1>4, <2>1
<1> QED
  BY <1>5, <1>6, <1>7, <1>8, <1>10, <1>11, <1>12, <1>13, <1>14, <1>15
     DEF Next, Code, Program

LEMMA MainStepNext ==
    ASSUME IInv, QueuedOnce, Repeats, MainStep, [Next]_vars,
           NEW t \in MainThunks \ Stray
    PROVE  t \in Active' => body'[t] = "running"
<1>1. t \in Thunks /\ t \notin RendererThunks /\ t \notin redispatched
  BY ThunkAssumption DEF RendererThunks, Stray, IInv, TypeOK
<1>2. t \in Active => body[t] = "running"
  BY DEF MainStep
<1>3. ASSUME t \in Active' => t \in Active, body'[t] = body[t]
      PROVE  t \in Active' => body'[t] = "running"
  BY <1>2, <1>3
<1>4. ASSUME NEW q \in Queues, StartHead(q)
      PROVE  t \in Active' => body'[t] = "running"
  <2> DEFINE r == Head(queue[q])
             s == r.thunk
  <2>1. /\ 1 \in DOMAIN queue[q] /\ r = queue[q][1]
        /\ r \in Registration
    BY <1>4, HeadTaken
  <2>2. s \in Thunks /\ (t = s => r.first)
    BY <1>1, <2>1 DEF Repeats, Registration
  <2>3. /\ thunkState' = [thunkState EXCEPT ![s] = "executing"]
        /\ body' = IF HasCallback(r) THEN [body EXCEPT ![s] = "running"] ELSE body
    BY <1>4 DEF StartHead, RegisterThunk
  <2>4. t = s => HasCallback(r)
    BY <2>2 DEF HasCallback
  <2> HIDE DEF r
  <2>5. CASE t = s
    BY <1>1, <2>3, <2>4, <2>5 DEF IInv, TypeOK
  <2>6. CASE t # s
    BY <1>1, <1>3, <2>2, <2>3, <2>6 DEF IInv, TypeOK, Active
  <2> QED
    BY <2>5, <2>6
<1>5. ASSUME NEW s \in Thunks, MainReturns(s) \/ RendererReturns(s)
      PROVE  t \in Active' => body'[t] = "running"
  <2>1. /\ body[s] = "running" /\ body' = [body EXCEPT ![s] = "done"]
        /\ \/ thunkState' = thunkState /\ thunkState[s] \in {"absent", "completed"}
           \/ thunkState' = [thunkState EXCEPT ![s] = "completed"]
    BY <1>5 DEF MainReturns, RendererReturns, CompleteThunk
  <2>2. CASE t = s
    BY <1>1, <2>1, <2>2 DEF IInv, TypeOK, Active
  <2>3. CASE t # s
    BY <1>1, <1>3, <2>1, <2>3 DEF IInv, TypeOK, Active
  <2> QED
    BY <2>2, <2>3
<1>6. ASSUME NEW s \in Thunks, MainThrows(s) \/ MainRejected(s)
      PROVE  t \in Active' => body'[t] = "running"
  <2>1. /\ \E b \in {"thrown", "done"} : body' = [body EXCEPT ![s] = b]
        /\ \/ thunkState' = thunkState /\ thunkState[s] = "absent"
           \/ thunkState' = [thunkState EXCEPT ![s] = "failed"]
    BY <1>6 DEF MainThrows, MainRejected, FailThunk
  <2>2. CASE t = s
    BY <1>1, <2>1, <2>2 DEF IInv, TypeOK, Active
  <2>3. CASE t # s
    BY <1>1, <1>3, <2>1, <2>3 DEF IInv, TypeOK, Active
  <2> QED
    BY <2>2, <2>3
<1>7. ASSUME NEW s \in Thunks, MainExecute(s)
      PROVE  t \in Active' => body'[t] = "running"
  <2>1. /\ body[s] = "idle" /\ body' = [body EXCEPT ![s] = "queued"]
        /\ thunkState' = thunkState
    BY <1>7 DEF MainExecute, Dispatchable, registry
  <2> QED
    BY <1>1, <1>2, <2>1 DEF IInv, TypeOK, Active
<1>8. ASSUME NEW s \in RendererThunks,
             RendererExecute(s) \/ RendererAcked(s) \/ RendererGivesUpWaiting(s)
      PROVE  t \in Active' => body'[t] = "running"
  <2>1. /\ \E b : body' = [body EXCEPT ![s] = b]
        /\ thunkState' = thunkState
    BY <1>8 DEF RendererExecute, RendererAcked, RendererGivesUpWaiting, registry
  <2> QED
    BY <1>1, <1>3, <2>1 DEF IInv, TypeOK, Active
<1>9. ASSUME NEW s \in Thunks, CleanupThunk(s)
      PROVE  t \in Active' => body'[t] = "running"
  <2>1. /\ body' = body
        /\ \/ thunkState' = thunkState
           \/ thunkState' = [thunkState EXCEPT ![s] = "absent"]
    BY <1>9 DEF CleanupThunk, programs
  <2> QED
    BY <1>1, <1>3, <2>1 DEF IInv, TypeOK, Active
<1>10. ASSUME NEW w \in Windows, WindowDestroyed(w)
       PROVE  t \in Active' => body'[t] = "running"
  BY <1>1, <1>3, <1>10 DEF WindowDestroyed, registry, Active
<1>11. ASSUME UNCHANGED <<thunkState, body>>
       PROVE  t \in Active' => body'[t] = "running"
  BY <1>3, <1>11 DEF Active
<1>12. \A s \in Thunks :
          RendererExecute(s) \/ RendererAcked(s) \/ RendererGivesUpWaiting(s) =>
             s \in RendererThunks
  BY ThunkAssumption
     DEF RendererExecute, RendererAcked, RendererGivesUpWaiting, IInv, TypeOK
<1> QED
  BY <1>4, <1>5, <1>6, <1>7, <1>8, <1>9, <1>10, <1>11, <1>12
     DEF Next, Code, Program, NothingToStart, Settle, ScheduleCleanup, ForgetRoot,
         DispatchUnknown, UpdatesAcknowledged, vars, registry, programs

StepInv ==
    IInv /\ NoEntryYet /\ QueuedOnce /\ Repeats /\ RendererStep /\ MainStep

LEMMA StepInit == Init => StepInv
<1> SUFFICES ASSUME Init PROVE StepInv
  OBVIOUS
<1>1. \A q \in Queues : queue[q] = <<>> /\ DOMAIN queue[q] = {} /\ processing[q] = None
  BY DEF Init
<1>2. NoEntryYet /\ QueuedOnce
  BY <1>1 DEF Init, NoEntryYet, QueuedOnce, Waiting, RegisteredOnce
<1>3. Repeats
  BY <1>1 DEF Repeats
<1>4. RendererStep /\ MainStep
  BY <1>1, ThunkAssumption
     DEF Init, RendererStep, InStep, MainStep, RendererBody, InProcess, Queues, Active,
         RendererThunks
<1> QED
  BY <1>2, <1>3, <1>4, InitInv DEF StepInv

LEMMA StepNext == StepInv /\ [Next]_vars => StepInv'
<1> SUFFICES ASSUME StepInv, [Next]_vars PROVE StepInv'
  OBVIOUS
<1>1. IInv' /\ NoEntryYet' /\ QueuedOnce' /\ Repeats'
  BY NextInv, NoEntryNext, RepeatsNext DEF StepInv
<1>2. RendererStep'
  BY InStepNext DEF StepInv, RendererStep
<1>3. MainStep'
  BY MainStepNext DEF StepInv, MainStep
<1> QED
  BY <1>1, <1>2, <1>3 DEF StepInv

(* A body runs only while the main process counts its thunk as executing, and
   a thunk executes only while there is a program that will end it, for any
   thunks, windows and faults, those of the strays excepted. *)
THEOREM StepsKept == Spec => []ProgramsKeepStep
<1>1. StepInv => ProgramsKeepStep
  <2> SUFFICES ASSUME StepInv, NEW t \in Thunks \ Stray
               PROVE  /\ body[t] = "running" => t \in Active
                      /\ t \in Active =>
                            body[t] \in {"queued", "registering", "running", "dead"}
    BY DEF ProgramsKeepStep
  <2>1. CASE t \in MainThunks
    BY <2>1 DEF StepInv, MainStep, IInv, MainLifecycle, Active
  <2>2. CASE t \notin MainThunks
    <3>1. InStep(t) /\ (body[t] = "idle" => thunkState[t] = "absent")
      BY <2>2
         DEF StepInv, RendererStep, RendererThunks, NoEntryYet, RegisteredOnce, Stray,
             IInv, TypeOK
    <3> QED
      BY <3>1 DEF InStep, RendererBody, Active
  <2> QED
    BY <2>1, <2>2
<1> QED
  BY <1>1, StepInit, StepNext, PTL DEF Spec
-----------------------------------------------------------------------------
(* No wakeup is lost. *)

(* Only main thunks fail, and a body that threw is that of a failed thunk. *)
Failures ==
    /\ \A t \in RendererThunks : thunkState[t] # "failed"
    /\ \A t \in MainThunks : body[t] = "thrown" => thunkState[t] = "failed"

(* A registration in process is about to be settled, or its body has yet to
   end. *)
Processed ==
    /\ processing["ipc"] # None => Pending(HandleSettled("ipc"))
    /\ processing["main"] # None =>
          /\ processing["main"].thunk \in MainThunks
          /\ \/ Pending(HandleSettled("main"))
             \/ body[processing["main"].thunk] \in {"running", "thrown"}

(* The root is the only thunk that executes. *)
RootAlone == Ordinary => root \in Active \cup {None} /\ Active \subseteq {root}

(* A queue with registrations is about to look for the next one. *)
Awake ==
    Ordinary /\ Active = {} =>
        \A q \in Queues :
            queue[q] # <<>> => Pending(ProcessNext(q)) \/ Pending(HandleSettled(q))

LEMMA FramesDiffer ==
    /\ \A p, q \in Queues : ProcessNext(p) # HandleSettled(q)
    /\ \A p, q \in Queues :
          p # q => ProcessNext(p) # ProcessNext(q) /\ HandleSettled(p) # HandleSettled(q)
    /\ \A q \in Queues, t \in Thunks :
          ProcessNext(q) # TryFinalCleanup(t) /\ HandleSettled(q) # TryFinalCleanup(t)
    /\ \A q \in Queues : ProcessNext(q) # ClearRoot /\ HandleSettled(q) # ClearRoot
BY DEF Queues, ProcessNext, HandleSettled, TryFinalCleanup, ClearRoot

LEMMA JustOne == \A f : In(<<f>>, f)
BY DEF In

LEMMA NothingPending ==
    ASSUME calls = <<>>
    PROVE  \A f : ~Pending(f)
BY Empty DEF Pending

(* The start of the head of a queue, and what Registrations says of it. *)
LEMMA HeadStarts ==
    ASSUME IInv, NoEntryYet, QueuedOnce, NEW q \in Queues, StartHead(q)
    PROVE  \E r \in Registration :
              /\ r.thunk \in Thunks /\ Waiting(r.thunk)
              /\ r.thunk \in RegisteredOnce =>
                    body[r.thunk] # "idle" /\ thunkState[r.thunk] = "absent"
              /\ r.thunk \in MainThunks <=> q = "main"
              /\ q = "main" => body[r.thunk] \in {"queued", "done"}
              /\ (r.immediate /\ r.thunk \in Immediate) \/ Active = {}
              /\ processing' = [processing EXCEPT ![q] = r]
              /\ thunkState' = [thunkState EXCEPT ![r.thunk] = "executing"]
              /\ root' = (IF root = None THEN r.thunk ELSE root)
              /\ IF HasCallback(r)
                    THEN body' = [body EXCEPT ![r.thunk] = "running"]
                    ELSE body' = body /\ Pending(HandleSettled(q))'
              /\ UNCHANGED <<cleanup, acks, redispatched>>
<1> DEFINE r == Head(queue[q])
<1>1. /\ r \in Registration /\ Waiting(r.thunk)
      /\ 1 \in DOMAIN queue[q] /\ r = queue[q][1]
  BY HeadTaken
<1>2. /\ CanStart(q) /\ RegisterThunk(r.thunk)
      /\ processing' = [processing EXCEPT ![q] = r]
      /\ UNCHANGED <<cleanup, acks, redispatched>>
      /\ IF HasCallback(r)
            THEN body' = [body EXCEPT ![r.thunk] = "running"]
            ELSE /\ body' = body
                 /\ calls' = Listeners \o <<HandleSettled(q)>> \o Tail(calls)
      /\ r.immediate \/ Active = {}
  BY DEF StartHead, CanStart
<1>3. /\ calls \in Seq(Frames) /\ calls # <<>> /\ Once(calls)
  BY DEF StartHead, Calling, IInv, TypeOK, OneCall
<1>4. /\ Tail(calls) \in Seq(Frames) /\ Once(Tail(calls))
      /\ \A f : In(Tail(calls), f) => Pending(f)
  BY <1>3, Popped DEF Pending
<1>5. ~HasCallback(r) => Pending(HandleSettled(q))'
  BY <1>2, <1>4, SettledLater DEF Pending
<1> HIDE DEF r
<1>6. /\ r.thunk \in MainThunks <=> q = "main"
      /\ q = "main" => body[r.thunk] \in {"queued", "done"}
      /\ r.immediate => r.thunk \in Immediate
  BY <1>1 DEF IInv, Registrations
<1>7. /\ r.thunk \in Thunks
      /\ r.thunk \in RegisteredOnce =>
            body[r.thunk] # "idle" /\ thunkState[r.thunk] = "absent"
  BY <1>1 DEF Registration, NoEntryYet
<1> QED
  BY <1>1, <1>2, <1>5, <1>6, <1>7 DEF RegisterThunk

LEMMA FailuresNext ==
    ASSUME IInv, NoEntryYet, QueuedOnce, Failures, [Next]_vars
    PROVE  Failures'
<1>1. ASSUME UNCHANGED thunkState,
             \A t \in MainThunks : body'[t] = "thrown" => body[t] = "thrown"
      PROVE  Failures'
  BY <1>1 DEF Failures
<1>2. MainThunks \subseteq Thunks /\ MainThunks \cap RendererThunks = {}
      /\ RendererThunks \subseteq Thunks
  BY ThunkAssumption DEF RendererThunks
<1>3. ASSUME NEW q \in Queues, StartHead(q) PROVE Failures'
  <2>1. PICK r \in Registration :
           /\ r.thunk \in Thunks
           /\ r.thunk \in MainThunks <=> q = "main"
           /\ q = "main" => body[r.thunk] \in {"queued", "done"}
           /\ thunkState' = [thunkState EXCEPT ![r.thunk] = "executing"]
           /\ body' = body \/ body' = [body EXCEPT ![r.thunk] = "running"]
    BY <1>3, HeadStarts
  <2> QED
    BY <1>2, <2>1 DEF Failures, IInv, TypeOK
<1>4. ASSUME NEW s \in Thunks, MainReturns(s) \/ RendererReturns(s)
      PROVE  Failures'
  <2>1. /\ body[s] = "running" /\ body' = [body EXCEPT ![s] = "done"]
        /\ \/ thunkState' = thunkState
           \/ thunkState' = [thunkState EXCEPT ![s] = "completed"]
    BY <1>4 DEF MainReturns, RendererReturns, CompleteThunk
  <2> QED
    BY <1>2, <2>1 DEF Failures, IInv, TypeOK
<1>5. ASSUME NEW s \in Thunks, MainThrows(s) \/ MainRejected(s)
      PROVE  Failures'
  <2>1. /\ s \in MainThunks
        /\ body[s] \in {"running", "thrown"}
        /\ \E b \in {"thrown", "done"} : body' = [body EXCEPT ![s] = b]
        /\ \/ thunkState' = thunkState /\ thunkState[s] = "absent"
           \/ thunkState' = [thunkState EXCEPT ![s] = "failed"]
    BY <1>5, ThunkAssumption DEF MainThrows, MainRejected, FailThunk
  <2> QED
    BY <1>2, <2>1 DEF Failures, IInv, TypeOK, MainLifecycle
<1>6. ASSUME NEW s \in Thunks,
             \/ MainExecute(s) \/ RendererExecute(s) \/ RendererAcked(s)
             \/ RendererGivesUpWaiting(s)
      PROVE  Failures'
  <2>1. /\ thunkState' = thunkState
        /\ \/ \E b \in {"queued", "registering", "running"} :
                 body' = [body EXCEPT ![s] = b]
           \/ body' = [body EXCEPT ![s] = body[s]]
    BY <1>6
       DEF MainExecute, RendererExecute, RendererAcked, RendererGivesUpWaiting, registry
  <2> QED
    BY <1>1, <1>2, <2>1 DEF IInv, TypeOK
<1>7. ASSUME NEW s \in Thunks, CleanupThunk(s) PROVE Failures'
  <2>1. /\ body' = body /\ s \in cleanup
        /\ \/ thunkState' = thunkState
           \/ thunkState' = [thunkState EXCEPT ![s] = "absent"]
    BY <1>7 DEF CleanupThunk, programs
  <2> QED
    BY <1>2, <2>1 DEF Failures, IInv, TypeOK, MainLifecycle
<1>8. ASSUME NEW w \in Windows, WindowDestroyed(w) PROVE Failures'
  BY <1>1, <1>2, <1>8 DEF WindowDestroyed, registry
<1>9. ASSUME UNCHANGED <<thunkState, body>> PROVE Failures'
  BY <1>1, <1>9
<1> QED
  BY <1>3, <1>4, <1>5, <1>6, <1>7, <1>8, <1>9
     DEF Next, Code, Program, NothingToStart, Settle, ScheduleCleanup, ForgetRoot,
         DispatchUnknown, UpdatesAcknowledged, vars, registry, programs

LEMMA ProcessedNext ==
    ASSUME IInv, NoEntryYet, QueuedOnce, Processed, [Next]_vars
    PROVE  Processed'
<1>1. MainThunks \subseteq Thunks /\ MainThunks \cap RendererThunks = {}
  BY ThunkAssumption DEF RendererThunks
<1>2. calls = <<>> => \A f : ~Pending(f)
  BY NothingPending
<1>3. "main" \in Queues /\ "ipc" \in Queues
  BY DEF Queues
<1>4. ASSUME NEW q \in Queues, StartHead(q) PROVE Processed'
  <2>1. PICK r \in Registration :
           /\ r.thunk \in Thunks
           /\ r.thunk \in MainThunks <=> q = "main"
           /\ processing' = [processing EXCEPT ![q] = r]
           /\ IF HasCallback(r)
                 THEN body' = [body EXCEPT ![r.thunk] = "running"]
                 ELSE body' = body /\ Pending(HandleSettled(q))'
    BY <1>4, HeadStarts
  <2>2. \A p \in Queues : Pending(HandleSettled(p)) => Pending(HandleSettled(p))'
    <3>1. Code /\ Head(calls) = ProcessNext(q)
      BY <1>4 DEF Code, StartHead, Calling
    <3> QED
      BY <3>1, CodeKeeps, FramesDiffer
  <2>3. CASE q = "ipc"
    <3>1. body' = body /\ Pending(HandleSettled("ipc"))'
      BY <2>1, <2>3 DEF HasCallback
    <3>2. processing'["main"] = processing["main"]
      BY <2>1, <2>3 DEF IInv, TypeOK, Queues
    <3> QED
      BY <1>3, <2>2, <3>1, <3>2 DEF Processed
  <2>4. CASE q = "main"
    <3>1. /\ r.thunk \in MainThunks /\ processing'["main"] = r
          /\ processing'["ipc"] = processing["ipc"]
      BY <2>1, <2>4 DEF IInv, TypeOK, Queues
    <3>2. Pending(HandleSettled("main"))' \/ body'[r.thunk] = "running"
      BY <2>1, <2>4 DEF IInv, TypeOK
    <3> QED
      BY <1>3, <2>2, <3>1, <3>2 DEF Processed
  <2> QED
    BY <2>3, <2>4 DEF Queues
<1>5. ASSUME NEW q \in Queues, Settle(q) PROVE Processed'
  <2>1. Code /\ Head(calls) = HandleSettled(q) /\ body' = body
        /\ processing' = [processing EXCEPT ![q] = None]
    BY <1>5 DEF Code, Settle, Calling
  <2>2. \A p \in Queues :
           p # q /\ Pending(HandleSettled(p)) => Pending(HandleSettled(p))'
    BY <2>1, CodeKeeps, FramesDiffer
  <2> QED
    BY <1>3, <2>1, <2>2 DEF Processed, IInv, TypeOK
<1>6. ASSUME Code, UNCHANGED <<processing, body>>,
             \A p \in Queues : Head(calls) # HandleSettled(p)
      PROVE  Processed'
  BY <1>3, <1>6, CodeKeeps DEF Processed
<1>7. ASSUME NEW q \in Queues, NothingToStart(q) PROVE Processed'
  <2>1. /\ Code /\ Head(calls) = ProcessNext(q) /\ UNCHANGED <<processing, body>>
    BY <1>7 DEF Code, NothingToStart, Calling, queues, programs
  <2> QED
    BY <1>6, <2>1, FramesDiffer
<1>8. ASSUME NEW s \in Thunks, ScheduleCleanup(s) PROVE Processed'
  <2>1. /\ Code /\ Head(calls) = TryFinalCleanup(s) /\ UNCHANGED <<processing, body>>
    BY <1>8 DEF Code, ScheduleCleanup, Calling, queues, programs
  <2> QED
    BY <1>6, <2>1, FramesDiffer
<1>9. CASE ForgetRoot
  <2>1. /\ Code /\ Head(calls) = ClearRoot /\ UNCHANGED <<processing, body>>
    BY <1>9 DEF Code, ForgetRoot, Calling, queues, programs
  <2> QED
    BY <1>6, <2>1, FramesDiffer
<1>10. ASSUME calls = <<>>, processing' = processing,
              \A t \in MainThunks :
                 body[t] \in {"running", "thrown"} => body'[t] \in {"running", "thrown"}
       PROVE  Processed'
  BY <1>2, <1>10 DEF Processed
<1>11. ASSUME NEW s \in Thunks, NEW b, body' = [body EXCEPT ![s] = b],
              b \in {"running", "thrown"} \/ body[s] \notin {"running", "thrown"}
                 \/ s \notin MainThunks,
              calls = <<>>, processing' = processing
       PROVE  Processed'
  BY <1>1, <1>10, <1>11 DEF IInv, TypeOK
<1>12. ASSUME NEW s \in Thunks, RendererAcked(s) PROVE Processed'
  <2>1. s \notin MainThunks
    BY <1>1, <1>12 DEF RendererAcked, IInv, TypeOK
  <2> QED
    BY <1>11, <1>12, <2>1 DEF RendererAcked, Idle, queues
<1>13. ASSUME NEW s \in Thunks, MainExecute(s) PROVE Processed'
  BY <1>11, <1>13 DEF MainExecute, Dispatchable, Idle
<1>14. ASSUME NEW s \in Thunks, RendererExecute(s) PROVE Processed'
  BY <1>11, <1>14 DEF RendererExecute, Dispatchable, Idle
<1>15. ASSUME NEW s \in Thunks, RendererGivesUpWaiting(s) PROVE Processed'
  BY <1>11, <1>15 DEF RendererGivesUpWaiting, Idle, queues
<1>16. ASSUME NEW s \in Thunks, RendererReturns(s) PROVE Processed'
  <2>1. s \notin MainThunks
    BY <1>1, <1>16 DEF RendererReturns
  <2> QED
    BY <1>11, <1>16, <2>1 DEF RendererReturns, Idle, queues
<1>17. ASSUME NEW s \in Thunks, MainThrows(s) PROVE Processed'
  BY <1>11, <1>17 DEF MainThrows, Idle, queues
<1>18. ASSUME NEW s \in Thunks, MainReturns(s) \/ MainRejected(s) PROVE Processed'
  <2> DEFINE rest == <<HandleSettled("main")>>
  <2>1. /\ calls = <<>> /\ processing' = processing
        /\ CompleteThunk(s, rest) \/ FailThunk(s, rest)
    BY <1>18 DEF MainReturns, MainRejected, Idle, queues
  <2>2. /\ rest \in Seq(Frames) /\ Once(rest) /\ ~In(rest, ClearRoot)
        /\ In(rest, HandleSettled("main"))
    BY AfterBody, OtherFrames, JustOne
  <2>3. Pending(HandleSettled("main"))'
    BY <2>1, <2>2, CompleteCalls, FailCalls DEF Pending
  <2> QED
    BY <1>2, <2>1, <2>3 DEF Processed
<1>19. ASSUME NEW w \in Windows, WindowDestroyed(w) PROVE Processed'
  BY <1>1, <1>10, <1>19 DEF WindowDestroyed, Idle, queues
<1>20. ASSUME NEW s \in Thunks,
              DispatchUnknown(s) \/ UpdatesAcknowledged(s) \/ CleanupThunk(s)
       PROVE  Processed'
  BY <1>10, <1>20
     DEF DispatchUnknown, UpdatesAcknowledged, CleanupThunk, Idle, queues, programs
<1>21. CASE UNCHANGED vars
  BY <1>21 DEF Processed, vars, queues, programs, Pending
<1> QED
  BY <1>4, <1>5, <1>7, <1>8, <1>9, <1>12, <1>13, <1>14, <1>15, <1>16, <1>17, <1>18,
     <1>19, <1>20, <1>21
     DEF Next, Code, Program

(* What ended ordinary operation is never undone. *)
LEMMA OrdinaryBefore ==
    ASSUME IInv, NoEntryYet, QueuedOnce, Failures, [Next]_vars, Ordinary'
    PROVE  Ordinary
<1>1. /\ MainThunks \subseteq Thunks /\ Immediate \subseteq Thunks
      /\ RendererThunks = Thunks \ MainThunks
  BY ThunkAssumption DEF RendererThunks
<1>2. ASSUME redispatched \subseteq redispatched',
             \A t \in Thunks : thunkState[t] = "failed" => thunkState'[t] = "failed",
             \A t \in Thunks : body'[t] = "idle" => body[t] = "idle"
      PROVE  Ordinary
  BY <1>1, <1>2 DEF Ordinary, IInv, TypeOK
<1>3. ASSUME NEW s \in Thunks, NEW b \in (MainBody \cup RendererBody) \ {"idle"},
             body' = [body EXCEPT ![s] = b]
      PROVE  \A t \in Thunks : body'[t] = "idle" => body[t] = "idle"
  BY <1>3 DEF IInv, TypeOK
<1>4. ASSUME NEW q \in Queues, StartHead(q) PROVE Ordinary
  <2>1. PICK r \in Registration :
           /\ r.thunk \in Thunks
           /\ r.thunk \in RegisteredOnce => thunkState[r.thunk] = "absent"
           /\ thunkState' = [thunkState EXCEPT ![r.thunk] = "executing"]
           /\ body' = body \/ body' = [body EXCEPT ![r.thunk] = "running"]
           /\ redispatched' = redispatched
    BY <1>4, HeadStarts
  <2>2. thunkState[r.thunk] = "absent"
    BY <2>1 DEF Ordinary, RegisteredOnce
  <2> QED
    BY <1>2, <2>1, <2>2 DEF IInv, TypeOK
<1>5. ASSUME NEW s \in Thunks, MainReturns(s) \/ RendererReturns(s) PROVE Ordinary
  <2>1. /\ body[s] = "running" /\ body' = [body EXCEPT ![s] = "done"]
        /\ \/ thunkState' = thunkState
           \/ thunkState' = [thunkState EXCEPT ![s] = "completed"]
        /\ redispatched' = redispatched
        /\ s \in MainThunks \/ s \in RendererThunks
    BY <1>5 DEF MainReturns, RendererReturns, CompleteThunk
  <2>2. thunkState[s] # "failed"
    BY <2>1 DEF Failures, IInv, MainLifecycle
  <2> QED
    BY <1>2, <2>1, <2>2 DEF IInv, TypeOK
<1>6. ASSUME NEW s \in Thunks, MainThrows(s) \/ MainRejected(s) PROVE Ordinary
  <2>1. /\ \E b \in {"thrown", "done"} : body' = [body EXCEPT ![s] = b]
        /\ \/ thunkState' = thunkState
           \/ thunkState' = [thunkState EXCEPT ![s] = "failed"]
        /\ redispatched' = redispatched
    BY <1>6 DEF MainThrows, MainRejected, FailThunk
  <2> QED
    BY <1>2, <2>1 DEF IInv, TypeOK
<1>7. ASSUME NEW s \in Thunks,
             \/ MainExecute(s) \/ RendererExecute(s) \/ RendererAcked(s)
             \/ RendererGivesUpWaiting(s)
      PROVE  Ordinary
  <2>1. /\ UNCHANGED <<thunkState, redispatched>>
        /\ \/ \E b \in {"queued", "registering", "running"} :
                 body' = [body EXCEPT ![s] = b]
           \/ body' = [body EXCEPT ![s] = body[s]]
    BY <1>7
       DEF MainExecute, RendererExecute, RendererAcked, RendererGivesUpWaiting, registry
  <2> QED
    BY <1>2, <2>1 DEF IInv, TypeOK
<1>8. ASSUME NEW s \in Thunks, CleanupThunk(s) PROVE Ordinary
  <2>1. /\ UNCHANGED <<body, redispatched>> /\ s \in cleanup
        /\ \/ thunkState' = thunkState
           \/ thunkState' = [thunkState EXCEPT ![s] = "absent"]
    BY <1>8 DEF CleanupThunk, programs
  <2>2. thunkState[s] = "completed"
    BY <2>1 DEF Ordinary, NoEntryYet, RegisteredOnce
  <2> QED
    BY <1>2, <2>1, <2>2 DEF IInv, TypeOK
<1>9. ASSUME NEW w \in Windows, WindowDestroyed(w) PROVE Ordinary
  BY <1>2, <1>9 DEF WindowDestroyed, registry
<1>10. ASSUME NEW s \in Thunks, DispatchUnknown(s) PROVE Ordinary
  BY <1>2, <1>10 DEF DispatchUnknown, registry
<1>11. ASSUME UNCHANGED <<thunkState, body, redispatched>> PROVE Ordinary
  BY <1>2, <1>11
<1> QED
  BY <1>4, <1>5, <1>6, <1>7, <1>8, <1>9, <1>10, <1>11
     DEF Next, Code, Program, NothingToStart, Settle, ScheduleCleanup, ForgetRoot,
         UpdatesAcknowledged, vars, registry, programs

(* In ordinary operation the root does not fail. *)
LEMMA OrdinaryEnds ==
    ASSUME IInv, Failures, Ordinary, Ordinary'
    PROVE  /\ ~ForgetRoot
           /\ \A s \in Thunks : ~MainThrows(s) /\ ~MainRejected(s)
<1>1. MainThunks \subseteq Thunks
  BY ThunkAssumption
<1>2. ASSUME ForgetRoot PROVE FALSE
  <2>1. Pending(ClearRoot)
    BY <1>2 DEF ForgetRoot, Calling, Pending, In, IInv, TypeOK
  <2> QED
    BY <2>1 DEF IInv, FailedRoot, Ordinary
<1>3. ASSUME NEW s \in Thunks, MainThrows(s) \/ MainRejected(s) PROVE FALSE
  <2>1. /\ s \in MainThunks /\ body[s] \in {"running", "thrown"}
        /\ \/ thunkState[s] = "absent"
           \/ thunkState' = [thunkState EXCEPT ![s] = "failed"]
    BY <1>3, ThunkAssumption DEF MainThrows, MainRejected, FailThunk
  <2>2. thunkState'[s] = "failed"
    BY <2>1 DEF IInv, TypeOK, MainLifecycle, Failures
  <2> QED
    BY <2>2 DEF Ordinary
<1> QED
  BY <1>2, <1>3

LEMMA RootAloneNext ==
    ASSUME IInv, NoEntryYet, QueuedOnce, Failures, RootAlone, [Next]_vars
    PROVE  RootAlone'
<1> SUFFICES ASSUME Ordinary'
             PROVE  root' \in Active' \cup {None} /\ Active' \subseteq {root'}
  BY DEF RootAlone
<1>1. Ordinary /\ root \in Active \cup {None} /\ Active \subseteq {root}
  BY OrdinaryBefore DEF RootAlone
<1>2. None \notin Thunks
  BY ThunkAssumption
<1>3. ASSUME UNCHANGED <<thunkState, root>>
      PROVE  root' \in Active' \cup {None} /\ Active' \subseteq {root'}
  BY <1>1, <1>3 DEF Active
<1>4. ASSUME NEW q \in Queues, StartHead(q)
      PROVE  root' \in Active' \cup {None} /\ Active' \subseteq {root'}
  <2>1. PICK r \in Registration :
           /\ r.thunk \in Thunks
           /\ r.thunk \in RegisteredOnce => body[r.thunk] # "idle"
           /\ r.thunk \in Immediate \/ Active = {}
           /\ thunkState' = [thunkState EXCEPT ![r.thunk] = "executing"]
           /\ root' = (IF root = None THEN r.thunk ELSE root)
    BY <1>4, HeadStarts
  <2>2. r.thunk \notin Immediate
    BY <1>1, <2>1 DEF Ordinary, RegisteredOnce
  <2>3. Active = {} /\ root = None
    BY <1>1, <2>1, <2>2
  <2>4. Active' = {r.thunk}
    BY <2>1, <2>3 DEF Active, IInv, TypeOK
  <2> QED
    BY <2>1, <2>3, <2>4
<1>5. ASSUME NEW s \in Thunks, NEW rest, CompleteThunk(s, rest)
      PROVE  root' \in Active' \cup {None} /\ Active' \subseteq {root'}
  <2>1. CASE thunkState[s] \in {"absent", "completed"}
    BY <1>3, <1>5, <2>1 DEF CompleteThunk
  <2>2. CASE thunkState[s] \notin {"absent", "completed"}
    <3>1. thunkState[s] = "executing"
      BY <1>1, <2>2 DEF Ordinary, IInv, TypeOK
    <3>2. root = s /\ root' = None /\ Active' = {}
      BY <1>1, <1>2, <1>5, <2>2, <3>1 DEF CompleteThunk, Active, IInv, TypeOK
    <3> QED
      BY <3>2
  <2> QED
    BY <2>1, <2>2
<1>6. ASSUME NEW s \in Thunks, CleanupThunk(s)
      PROVE  root' \in Active' \cup {None} /\ Active' \subseteq {root'}
  <2>1. thunkState[s] # "executing"
    BY <1>1, <1>6 DEF CleanupThunk, Ordinary, NoEntryYet, RegisteredOnce
  <2>2. Active' = Active /\ root' = root
    BY <1>6, <2>1 DEF CleanupThunk, Active, IInv, TypeOK
  <2> QED
    BY <1>1, <2>2
<1>7. /\ ~ForgetRoot
      /\ \A s \in Thunks : ~MainThrows(s) /\ ~MainRejected(s)
  BY <1>1, OrdinaryEnds
<1> QED
  BY <1>3, <1>4, <1>5, <1>6, <1>7
     DEF Next, Code, Program, NothingToStart, Settle, ScheduleCleanup, MainReturns,
         RendererReturns, MainExecute, RendererExecute, RendererAcked,
         RendererGivesUpWaiting, DispatchUnknown, UpdatesAcknowledged, WindowDestroyed,
         vars, registry

LEMMA AwakeNext ==
    ASSUME IInv, NoEntryYet, QueuedOnce, Failures, Processed, RootAlone, Awake,
           [Next]_vars
    PROVE  Awake'
<1> SUFFICES ASSUME Ordinary', Active' = {}, NEW p \in Queues, queue'[p] # <<>>
             PROVE  Pending(ProcessNext(p))' \/ Pending(HandleSettled(p))'
  BY DEF Awake
<1>1. Ordinary /\ Active \subseteq {root}
  BY OrdinaryBefore DEF RootAlone
<1>2. ASSUME Active = {}, queue[p] # <<>>
      PROVE  Pending(ProcessNext(p)) \/ Pending(HandleSettled(p))
  BY <1>1, <1>2 DEF Awake
<1>3. ASSUME calls = <<>>, Active = {}, queue'[p] = queue[p] PROVE FALSE
  BY <1>2, <1>3, NothingPending
<1>4. ASSUME Code, UNCHANGED <<thunkState, queue>>,
             Head(calls) # ProcessNext(p), Head(calls) # HandleSettled(p)
      PROVE  Pending(ProcessNext(p))' \/ Pending(HandleSettled(p))'
  BY <1>2, <1>4, CodeKeeps DEF Active
<1>5. ASSUME NEW q \in Queues, StartHead(q) PROVE FALSE
  <2>1. PICK t \in Thunks : thunkState' = [thunkState EXCEPT ![t] = "executing"]
    BY <1>5, HeadStarts
  <2> QED
    BY <2>1 DEF Active, IInv, TypeOK
<1>6. ASSUME NEW q \in Queues, NothingToStart(q)
      PROVE  Pending(ProcessNext(p))' \/ Pending(HandleSettled(p))'
  <2>1. /\ Code /\ Head(calls) = ProcessNext(q) /\ ~CanStart(q)
        /\ UNCHANGED <<thunkState, queue>>
    BY <1>6 DEF Code, NothingToStart, Calling, registry, queues
  <2>2. CASE p # q
    BY <1>4, <2>1, <2>2, FramesDiffer
  <2>3. CASE p = q
    <3>1. Active = {} /\ queue[q] # <<>> /\ processing[q] # None
      BY <2>1, <2>3 DEF Active, CanStart
    <3>2. Pending(HandleSettled(q))
      <4>1. CASE q = "ipc"
        BY <3>1, <4>1 DEF Processed
      <4>2. CASE q = "main"
        <5> DEFINE t == processing["main"].thunk
        <5>1. /\ t \in MainThunks /\ t \in Thunks
              /\ Pending(HandleSettled("main")) \/ body[t] \in {"running", "thrown"}
          BY <3>1, <4>2, ThunkAssumption DEF Processed
        <5>2. body[t] # "running" /\ body[t] # "thrown"
          BY <1>1, <3>1, <5>1 DEF IInv, MainLifecycle, Active, Failures, Ordinary
        <5> QED
          BY <4>2, <5>1, <5>2
      <4> QED
        BY <4>1, <4>2 DEF Queues
    <3> QED
      BY <2>1, <2>3, <3>2, CodeKeeps, FramesDiffer
  <2> QED
    BY <2>2, <2>3
<1>7. ASSUME NEW q \in Queues, Settle(q)
      PROVE  Pending(ProcessNext(p))' \/ Pending(HandleSettled(p))'
  <2>1. /\ Code /\ calls # <<>> /\ Head(calls) = HandleSettled(q)
        /\ UNCHANGED <<thunkState, queue>>
        /\ calls' = <<ProcessNext(q)>> \o Tail(calls)
    BY <1>7 DEF Code, Settle, Calling, registry
  <2>2. CASE p # q
    BY <1>4, <2>1, <2>2, FramesDiffer
  <2>3. CASE p = q
    <3>1. Tail(calls) \in Seq(Frames) /\ Once(Tail(calls))
      BY <2>1, Popped DEF IInv, TypeOK, OneCall
    <3> QED
      BY <2>1, <2>3, <3>1, FrameTypes, Pushed DEF Pending
  <2> QED
    BY <2>2, <2>3
<1>8. ASSUME NEW s \in Thunks, ScheduleCleanup(s)
      PROVE  Pending(ProcessNext(p))' \/ Pending(HandleSettled(p))'
  <2>1. /\ Code /\ Head(calls) = TryFinalCleanup(s) /\ UNCHANGED <<thunkState, queue>>
    BY <1>8 DEF Code, ScheduleCleanup, Calling, queues
  <2> QED
    BY <1>4, <2>1, FramesDiffer
<1>9. ASSUME NEW s \in Thunks, NEW rest \in {<<>>, <<HandleSettled("main")>>},
             CompleteThunk(s, rest), calls = <<>>, queue' = queue
      PROVE  Pending(ProcessNext(p))' \/ Pending(HandleSettled(p))'
  <2>1. Active # {}
    BY <1>3, <1>9
  <2>2. root \in Active /\ thunkState[root] = "executing" /\ thunkState'[root] # "executing"
    BY <1>1, <2>1 DEF Active
  <2>3. root = s
    BY <1>9, <2>2 DEF CompleteThunk, IInv, TypeOK, Active
  <2>4. rest \in Seq(Frames) /\ Once(rest)
    BY <1>9, AfterBody
  <2>5. In(calls', ProcessNext(p))
    BY <1>9, <2>2, <2>3, <2>4, CompleteCalls
  <2> QED
    BY <2>5 DEF Pending
<1>10. ASSUME NEW s \in Thunks, MainReturns(s) \/ RendererReturns(s)
       PROVE  Pending(ProcessNext(p))' \/ Pending(HandleSettled(p))'
  BY <1>9, <1>10 DEF MainReturns, RendererReturns, Idle, queues
<1>11. ASSUME NEW s \in Thunks,
              RendererExecute(s) \/ MainExecute(s) \/ DispatchUnknown(s)
       PROVE  Pending(ProcessNext(p))' \/ Pending(HandleSettled(p))'
  <2>1. PICK q \in Queues, r \in Registration : Enqueue(q, r) /\ calls' = <<ProcessNext(q)>>
    <3> DEFINE first == [thunk |-> s, immediate |-> s \in Immediate, first |-> TRUE]
               again == [thunk |-> s, first |-> FALSE,
                         immediate |-> s \in MainThunks \cap Immediate]
    <3>1. first \in Registration /\ again \in Registration
      BY DEF Registration
    <3>2. \E q \in Queues :
             /\ Enqueue(q, first) \/ Enqueue(q, again)
             /\ calls' = <<ProcessNext(q)>>
      BY <1>11 DEF RendererExecute, MainExecute, DispatchUnknown, Queues, QueueOf
    <3> HIDE DEF first, again
    <3> QED
      BY <3>1, <3>2
  <2>2. calls = <<>> /\ thunkState' = thunkState
    BY <1>11 DEF RendererExecute, MainExecute, DispatchUnknown, Idle, registry
  <2>3. p = q
    BY <1>3, <2>1, <2>2, Enqueued DEF Active
  <2> QED
    BY <2>1, <2>3, JustOne DEF Pending
<1>12. ASSUME NEW s \in Thunks, CleanupThunk(s) PROVE FALSE
  <2>1. /\ calls = <<>> /\ queue' = queue /\ s \in cleanup
        /\ \/ thunkState' = thunkState
           \/ thunkState' = [thunkState EXCEPT ![s] = "absent"]
    BY <1>12 DEF CleanupThunk, Idle, queues
  <2>2. thunkState[s] # "executing"
    BY <1>1, <2>1 DEF Ordinary, NoEntryYet, RegisteredOnce
  <2>3. Active = {}
    BY <2>1, <2>2 DEF Active, IInv, TypeOK
  <2> QED
    BY <1>3, <2>1, <2>3
<1>13. ASSUME calls = <<>>, UNCHANGED <<thunkState, queue>> PROVE FALSE
  BY <1>3, <1>13 DEF Active
<1>14. /\ ~ForgetRoot
       /\ \A s \in Thunks : ~MainThrows(s) /\ ~MainRejected(s)
  BY <1>1, OrdinaryEnds
<1>15. ASSUME NEW s \in Thunks,
              RendererAcked(s) \/ RendererGivesUpWaiting(s) \/ UpdatesAcknowledged(s)
       PROVE  FALSE
  BY <1>13, <1>15
     DEF RendererAcked, RendererGivesUpWaiting, UpdatesAcknowledged, Idle, registry,
         queues
<1>16. ASSUME NEW w \in Windows, WindowDestroyed(w) PROVE FALSE
  BY <1>13, <1>16 DEF WindowDestroyed, Idle, registry, queues
<1>17. CASE UNCHANGED vars
  BY <1>2, <1>17 DEF vars, registry, queues, Active, Pending
<1> QED
  BY <1>5, <1>6, <1>7, <1>8, <1>10, <1>11, <1>12, <1>14, <1>15, <1>16, <1>17
     DEF Next, Code, Program

WInv ==
    /\ StepInv
    /\ Failures
    /\ Processed
    /\ RootAlone
    /\ Awake

(* In ordinary operation, no registration waits in a queue for an event that
   nobody will emit: any thunks, windows and programs, through either queue. *)
THEOREM WakeupsKept == Spec => []NoLostWakeup
<1>1. Init => WInv
  <2> SUFFICES ASSUME Init PROVE WInv
    OBVIOUS
  <2>1. Failures /\ Processed /\ RootAlone /\ Awake
    BY ThunkAssumption
       DEF Init, Failures, Processed, RootAlone, Awake, Active, Queues, RendererThunks
  <2> QED
    BY <2>1, StepInit DEF WInv
<1>2. WInv /\ [Next]_vars => WInv'
  BY StepNext, FailuresNext, ProcessedNext, RootAloneNext, AwakeNext DEF WInv, StepInv
<1>3. WInv => NoLostWakeup
  <2> SUFFICES ASSUME WInv, calls = <<>>, Active = {}, Ordinary, NEW q \in Queues
               PROVE  queue[q] = <<>>
    BY DEF NoLostWakeup, Idle
  <2> QED
    BY NothingPending DEF WInv, Awake
<1> QED
  BY <1>1, <1>2, <1>3, PTL DEF Spec
=============================================================================
