--------------------------- MODULE ActionBatcher ----------------------------
(***************************************************************************)
(* The ActionBatcher of the preload script, with the function that sends a *)
(* batch to the main process and waits for its acknowledgment or for a     *)
(* timeout, and what IpcHandler.handleBatchDispatch answers.               *)
(*                                                                         *)
(* flush runs synchronously up to its await of sendBatch, so a call of it  *)
(* is part of the step that calls it; the code after the await, with its   *)
(* finally block, is one more step.                                        *)
(***************************************************************************)
EXTENDS Naturals, Sequences, SequencesExt, FiniteSets

CONSTANTS
    Actions,        \* the actions, each dispatched once
    High,           \* those of a priority that flushes at once
    Flushers,       \* the callers of flushWithResult
    MaxBatchSize,
    HardLimit       \* HARD_QUEUE_LIMIT

ASSUME BatcherAssumption ==
    /\ High \subseteq Actions
    /\ MaxBatchSize \in Nat \ {0}
    /\ HardLimit \in Nat /\ HardLimit >= MaxBatchSize

VARIABLES
    queue,
    activeBatch,
    isFlushing,
    timer,              \* flushTimeoutId is set
    pendingForceFlush,
    flushResultWaiters,
    isDestroyed,
    pendingBatch,       \* pendingBatches: the batch that awaits its ack, or 0
    sent,               \* the batches sent; a batch's id is its place
    handling,           \* the ids that the main process has yet to answer
    acks,               \* the ids of the BATCH_ACK messages on their way
    arrived,            \* ghost: the actions enqueued, in order
    settled,            \* ghost: how often each action was settled
    flusher             \* where each caller of flushWithResult is

schedule == <<isFlushing, timer, pendingForceFlush>>
batches == <<activeBatch, pendingBatch, sent>>
wire == <<handling, acks>>
callers == <<flushResultWaiters, flusher>>
vars == <<queue, batches, schedule, isDestroyed, wire, callers, arrived, settled>>

(* resolve or reject of each of the items: which of the two does not matter
   to the batcher. *)
SettleEach(items) ==
    settled' = [a \in Actions |-> IF a \in items THEN settled[a] + 1 ELSE settled[a]]

-----------------------------------------------------------------------------
(* flush, if no other is in progress: the head of q becomes the active batch
   and is sent, the rest stays, and the actions of late are added to it. *)

Batch(q) == SubSeq(q, 1, IF Len(q) < MaxBatchSize THEN Len(q) ELSE MaxBatchSize)
Rest(q) == SubSeq(q, Len(Batch(q)) + 1, Len(q))

Flush(q, late) ==
    /\ queue' = Rest(q) \o late
    /\ activeBatch' = Batch(q)
    /\ sent' = Append(sent, Batch(q))
    /\ pendingBatch' = Len(sent) + 1
    /\ handling' = handling \cup {Len(sent) + 1}
    /\ isFlushing' = TRUE
    /\ timer' = FALSE

(* Mutation: a late action overtakes the queue. *)
ForceFlushToFront(q, late) ==
    IF isFlushing
    THEN /\ pendingForceFlush' = TRUE
         /\ queue' = late \o q
         /\ UNCHANGED <<batches, handling, isFlushing, timer>>
    ELSE /\ Flush(q, late)
         /\ UNCHANGED pendingForceFlush

(* flush(true), that is deferred while another flush is in progress *)
ForceFlush(q, late) ==
    IF isFlushing
    THEN /\ pendingForceFlush' = TRUE
         /\ queue' = q \o late
         /\ UNCHANGED <<batches, handling, isFlushing, timer>>
    ELSE /\ Flush(q, late)
         /\ UNCHANGED pendingForceFlush

(* enqueue: after destroy, at the hard limit, with a high priority, onto a
   full queue, or onto one with room. *)
Enqueue(a) ==
    /\ a \notin ToSet(arrived)
    /\ arrived' = Append(arrived, a)
    /\ IF isDestroyed \/ Len(queue) >= HardLimit
       THEN /\ SettleEach({a})
            /\ UNCHANGED <<queue, batches, schedule, handling>>
       ELSE /\ UNCHANGED settled
            /\ CASE a \in High ->
                      ForceFlush(<<a>> \o queue, <<>>)
                 [] a \notin High /\ Len(queue) >= MaxBatchSize ->
                      ForceFlush(queue, <<a>>)
                 [] OTHER ->
                      /\ queue' = Append(queue, a)
                      /\ timer' = (timer \/ ~isFlushing)
                      /\ UNCHANGED <<batches, handling, isFlushing, pendingForceFlush>>
    /\ UNCHANGED <<isDestroyed, acks, callers>>

(* The callback of scheduleFlush *)
TimerFires ==
    /\ timer
    /\ IF queue = <<>> \/ isFlushing
       THEN timer' = FALSE /\ UNCHANGED <<queue, batches, isFlushing, handling>>
       ELSE Flush(queue, <<>>)
    /\ UNCHANGED <<pendingForceFlush, isDestroyed, acks, callers, arrived, settled>>

(* Mutation: the caller waits when there is nothing to flush. *)
FlushWithResultAlwaysWaits(f) ==
    /\ flusher[f] = "idle"
    /\ flusher' = [flusher EXCEPT ![f] = "waiting"]
    /\ flushResultWaiters' = flushResultWaiters \cup {f}
    /\ IF isDestroyed \/ isFlushing \/ queue = <<>>
       THEN UNCHANGED <<queue, batches, isFlushing, timer, handling>>
       ELSE Flush(queue, <<>>)
    /\ UNCHANGED pendingForceFlush
    /\ UNCHANGED <<isDestroyed, acks, arrived, settled>>

(* A caller of flushWithResult waits for the flush in progress, or for the
   one it starts. *)
FlushWithResult(f) ==
    /\ flusher[f] = "idle"
    /\ IF isDestroyed \/ (~isFlushing /\ queue = <<>>)
       THEN /\ flusher' = [flusher EXCEPT ![f] = "answered"]
            /\ UNCHANGED <<flushResultWaiters, queue, batches, schedule, handling>>
       ELSE /\ flusher' = [flusher EXCEPT ![f] = "waiting"]
            /\ flushResultWaiters' = flushResultWaiters \cup {f}
            /\ IF isFlushing
               THEN UNCHANGED <<queue, batches, isFlushing, timer, handling>>
               ELSE Flush(queue, <<>>)
            /\ UNCHANGED pendingForceFlush
    /\ UNCHANGED <<isDestroyed, acks, arrived, settled>>

(* removeAction *)
Cancel(a) ==
    /\ \E i \in DOMAIN queue : queue[i] = a /\ queue' = RemoveAt(queue, i)
    /\ SettleEach({a})
    /\ UNCHANGED <<batches, schedule, isDestroyed, wire, callers, arrived>>

AnswerWaiters ==
    /\ flushResultWaiters' = {}
    /\ flusher' = [f \in Flushers |->
                     IF f \in flushResultWaiters THEN "answered" ELSE flusher[f]]

(* Mutation: what is left in the queue is not scheduled. *)
FinishFlushUnscheduled ==
    /\ SettleEach(ToSet(activeBatch))
    /\ AnswerWaiters
    /\ IF pendingForceFlush /\ queue # <<>>
       THEN Flush(queue, <<>>)
       ELSE /\ activeBatch' = <<>>
            /\ pendingBatch' = 0
            /\ isFlushing' = FALSE
            /\ UNCHANGED <<queue, sent, handling, timer>>
    /\ pendingForceFlush' = FALSE
    /\ UNCHANGED <<isDestroyed, arrived>>

(* doFlush after its await: the items are settled, the waiters answered, and
   what has come meanwhile is flushed or scheduled.  After destroy, which has
   settled the items and dropped the queue, nothing more is done. *)
FinishFlush ==
    /\ SettleEach(ToSet(activeBatch))
    /\ AnswerWaiters
    /\ IF pendingForceFlush /\ queue # <<>>
       THEN Flush(queue, <<>>)
       ELSE /\ activeBatch' = <<>>
            /\ pendingBatch' = 0
            /\ isFlushing' = FALSE
            /\ timer' = (timer \/ (~pendingForceFlush /\ queue # <<>>))
            /\ UNCHANGED <<queue, sent, handling>>
    /\ pendingForceFlush' = FALSE
    /\ UNCHANGED <<isDestroyed, arrived>>

(* BATCH_ACK: one for a batch that has timed out finds nothing pending. *)
AckArrives(id) ==
    /\ id \in acks
    /\ acks' = acks \ {id}
    /\ IF id = pendingBatch
       THEN FinishFlush
       ELSE UNCHANGED <<queue, batches, schedule, isDestroyed, handling, callers,
                        arrived, settled>>

BatchTimesOut ==
    /\ pendingBatch # 0
    /\ FinishFlush
    /\ UNCHANGED acks

(* Mutation: the active batch is rejected and kept. *)
DestroyKeepsActiveBatch ==
    /\ ~isDestroyed
    /\ isDestroyed' = TRUE
    /\ timer' = FALSE
    /\ pendingForceFlush' = FALSE
    /\ SettleEach(ToSet(queue) \cup ToSet(activeBatch))
    /\ queue' = <<>>
    /\ AnswerWaiters
    /\ UNCHANGED <<isFlushing, batches, wire, arrived>>

(* Mutation: the queue is dropped without rejecting it. *)
DestroyForgetsQueue ==
    /\ ~isDestroyed
    /\ isDestroyed' = TRUE
    /\ timer' = FALSE
    /\ pendingForceFlush' = FALSE
    /\ SettleEach(ToSet(activeBatch))
    /\ queue' = <<>>
    /\ activeBatch' = <<>>
    /\ AnswerWaiters
    /\ UNCHANGED <<isFlushing, pendingBatch, sent, wire, arrived>>

Destroy ==
    /\ ~isDestroyed
    /\ isDestroyed' = TRUE
    /\ timer' = FALSE
    /\ pendingForceFlush' = FALSE
    /\ SettleEach(ToSet(queue) \cup ToSet(activeBatch))
    /\ queue' = <<>>
    /\ activeBatch' = <<>>
    /\ AnswerWaiters
    /\ UNCHANGED <<isFlushing, pendingBatch, sent, wire, arrived>>

-----------------------------------------------------------------------------
(* handleBatchDispatch answers when every action of the batch has completed,
   whatever became of them; it may be late, and it never answers if it loses
   one of them. *)

MainAnswers(id) ==
    /\ id \in handling
    /\ handling' = handling \ {id}
    /\ acks' = acks \cup {id}
    /\ UNCHANGED <<queue, batches, schedule, isDestroyed, callers, arrived, settled>>

-----------------------------------------------------------------------------

Init ==
    /\ queue = <<>> /\ activeBatch = <<>> /\ sent = <<>>
    /\ isFlushing = FALSE /\ timer = FALSE /\ pendingForceFlush = FALSE
    /\ isDestroyed = FALSE /\ pendingBatch = 0 /\ handling = {} /\ acks = {}
    /\ flushResultWaiters = {} /\ flusher = [f \in Flushers |-> "idle"]
    /\ arrived = <<>> /\ settled = [a \in Actions |-> 0]

Next ==
    \/ \E a \in Actions : Enqueue(a) \/ Cancel(a)
    \/ TimerFires
    \/ \E f \in Flushers : FlushWithResult(f)
    \/ \E id \in acks : AckArrives(id)
    \/ BatchTimesOut
    \/ Destroy
    \/ \E id \in handling : MainAnswers(id)

Spec == Init /\ [][Next]_vars

(* Timers fire: the one of the batching window and the one of a batch. *)
FairSpec == Spec /\ WF_vars(TimerFires) /\ WF_vars(BatchTimesOut)

-----------------------------------------------------------------------------

TypeOK ==
    /\ queue \in Seq(Actions) /\ Len(queue) <= HardLimit
    /\ activeBatch \in Seq(Actions) /\ Len(activeBatch) <= MaxBatchSize
    /\ sent \in Seq(Seq(Actions))
    /\ isFlushing \in BOOLEAN /\ timer \in BOOLEAN /\ isDestroyed \in BOOLEAN
    /\ pendingForceFlush \in BOOLEAN
    /\ pendingBatch \in 0..Len(sent)
    /\ handling \subseteq 1..Len(sent) /\ acks \subseteq 1..Len(sent)
    /\ flushResultWaiters \subseteq Flushers
    /\ flusher \in [Flushers -> {"idle", "waiting", "answered"}]
    /\ arrived \in Seq(Actions)
    /\ settled \in [Actions -> Nat]

(* An action is settled once: as long as it is queued or in the active batch
   it is not, in no other place it waits, and the late acknowledgment of a
   batch that has timed out, a cancellation or a destroy while the batch is on
   its way never settles it again. (ActionBatcher.ts:181-217, 354-384) *)
SettledOnce ==
    \A a \in Actions :
        LET waiting == Cardinality({i \in DOMAIN queue : queue[i] = a})
                         + Cardinality({i \in DOMAIN activeBatch : activeBatch[i] = a})
        IN  waiting + settled[a] = (IF a \in ToSet(arrived) THEN 1 ELSE 0)

(* A queue is never left behind: while actions wait a flush is in progress or
   the timer runs, and never both, so that no batch is sent while another is
   on its way. (ActionBatcher.ts:113-115, 151-156, 235-245) *)
NoStrandedQueue ==
    /\ queue # <<>> => isFlushing \/ timer
    /\ ~(isFlushing /\ timer)
    /\ isFlushing <=> pendingBatch # 0

(* A caller of flushWithResult waits only while a flush is in progress whose
   end answers it. (ActionBatcher.ts:269-298) *)
WaitersAreServed ==
    \A f \in Flushers : flusher[f] = "waiting" => f \in flushResultWaiters /\ isFlushing

(* Normal actions are sent in the order they were dispatched in, whatever was
   cancelled, overtaken by a high priority or left for a later batch, and none
   is sent twice. (ActionBatcher.ts:301-308) *)
Place(arrivals, a) == CHOOSE i \in DOMAIN arrivals : arrivals[i] = a
Precedes(a, b) == {a, b} \cap High = {} => Place(arrived, a) < Place(arrived, b)
SentInOrder ==
    LET rows == Append(sent, queue)
    IN  \A k, l \in DOMAIN rows : \A i \in DOMAIN rows[k], j \in DOMAIN rows[l] :
            k < l \/ (k = l /\ i < j) => Precedes(rows[k][i], rows[l][j])

(* Every dispatch is settled in the end. (ActionBatcher.ts:178-245) *)
EverySettled == \A a \in Actions : a \in ToSet(arrived) ~> settled[a] > 0
=============================================================================
