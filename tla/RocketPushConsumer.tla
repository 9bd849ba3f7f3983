------------------------- MODULE RocketPushConsumer -------------------------
(* rocketmq/sub.go: a PushConsumer and the RocketMQ client below it.         *)
(*                                                                           *)
(* Goroutines: the client's callback threads (cbpc), SyncSubscribe (mainpc), *)
(* the start of the client it spawns, and a caller of Close (closepc).  A    *)
(* message is named by one delivery of it.  Unsubscribe does not stop the    *)
(* deliveries that are under way, so it has no effect here.                  *)
EXTENDS Naturals, Sequences, FiniteSets, LockedRingBuffer, RocketConsumer

CONSTANTS
  Callbacks,       \* threads of the client that run the callback
  MaxBatch         \* MessageBatchMaxSize: messages of one delivery

ASSUME PushConsumerAssumption ==
  /\ IsFiniteSet(Callbacks)
  /\ ChanSize \in Nat \ {0} /\ MaxBatch \in Nat \ {0} /\ MaxMessages \in Nat

VARIABLES
  cbpc,            \* the callback of each thread, which holds hand[c]
  got,             \* messages of its delivery
  wasClosed,       \* the queue was closed when remainLen was read
  numDelivered,    \* number of messages the broker delivered
  confirmed,       \* messages the broker was told are consumed
  refused          \* messages the broker was asked to deliver later

cbVars       == <<cbpc, hand, got>>
pushMainVars == <<mainpc, batch, remainLen, wasClosed>>
brokerVars   == <<numDelivered, confirmed, refused>>
pushVars == <<draining, ctxDone, mq, queue, qclosed, cbVars, pushMainVars, closepc, brokerVars,
              handled>>

PushInit ==
  /\ draining = FALSE /\ ctxDone = FALSE /\ mq = "new"
  /\ queue = << >> /\ qclosed = FALSE
  /\ cbpc = [c \in Callbacks |-> "idle"]
  /\ hand = [c \in Callbacks |-> << >>] /\ got = [c \in Callbacks |-> {}]
  /\ mainpc = "spawned" /\ batch = << >> /\ remainLen = 0 /\ wasClosed = FALSE
  /\ closepc = "idle"
  /\ numDelivered = 0 /\ confirmed = {} /\ refused = {} /\ handled = {}
-----------------------------------------------------------------------------
(* The callback                                                              *)

\* The client calls it with up to MaxBatch messages.
Deliver(c, n) ==
  /\ mq = "running" /\ cbpc[c] = "idle" /\ numDelivered + n <= MaxMessages
  /\ numDelivered' = numDelivered + n
  /\ cbpc' = [cbpc EXCEPT ![c] = "check"]
  /\ hand' = [hand EXCEPT ![c] = [i \in 1 .. n |-> numDelivered + i]]
  /\ got' = [got EXCEPT ![c] = numDelivered + 1 .. numDelivered + n]
  /\ UNCHANGED <<draining, ctxDone, mq, queue, qclosed, pushMainVars, closepc, confirmed,
                 refused, handled>>

\* A draining consumer refuses the whole delivery (ConsumeRetryLater).
Refuse(c) ==
  /\ cbpc' = [cbpc EXCEPT ![c] = "idle"]
  /\ hand' = [hand EXCEPT ![c] = << >>]
  /\ refused' = refused \cup got[c]
  /\ UNCHANGED <<queue, got, confirmed>>

CallbackCheck(c) ==
  /\ cbpc[c] = "check"
  /\ \/ draining /\ Refuse(c)
     \/ /\ ~draining
        /\ cbpc' = [cbpc EXCEPT ![c] = "enqueue"]
        /\ UNCHANGED <<queue, hand, got, confirmed, refused>>
  /\ UNCHANGED <<draining, ctxDone, mq, qclosed, pushMainVars, closepc, numDelivered, handled>>

\* Enqueue waits while the queue is full; its refusal by a closed queue is
\* ignored.
PushRoom == Accepts(queue, qclosed, ChanSize)

Bug_Enqueue(c) ==
  /\ \/ PushRoom /\ queue' = Append(queue, Head(hand[c]))
     \/ ~PushRoom /\ UNCHANGED queue
  /\ hand' = [hand EXCEPT ![c] = Tail(@)]
Enqueue(c) ==
  /\ \/ PushRoom /\ queue' = Append(queue, Head(hand[c]))
     \/ qclosed /\ UNCHANGED queue
  /\ hand' = [hand EXCEPT ![c] = Tail(@)]

CallbackEnqueue(c) ==
  /\ cbpc[c] = "enqueue" /\ hand[c] # << >>
  /\ Enqueue(c)
  /\ UNCHANGED <<draining, ctxDone, mq, qclosed, cbpc, got, pushMainVars, closepc, brokerVars,
                 handled>>

\* ConsumeSuccess: the broker will not deliver these messages again.
CallbackReturn(c) ==
  /\ cbpc[c] = "enqueue" /\ hand[c] = << >>
  /\ cbpc' = [cbpc EXCEPT ![c] = "idle"]
  /\ confirmed' = confirmed \cup got[c]
  /\ UNCHANGED <<draining, ctxDone, mq, queue, qclosed, hand, got, pushMainVars, closepc,
                 numDelivered, refused, handled>>
-----------------------------------------------------------------------------
(* SyncSubscribe                                                             *)

\* It registers with the WaitGroup and spawns the start of the client...
PushMainStart ==
  /\ mainpc = "spawned"
  /\ mainpc' = "loop"
  /\ UNCHANGED <<draining, ctxDone, mq, queue, qclosed, cbVars, batch, remainLen, wasClosed,
                 closepc, brokerVars, handled>>

\* ...which works, or fails and sends its error to the loop.
PushClientStart ==
  /\ mq = "new" /\ mainpc # "spawned"
  /\ mq' \in {"running", "failed"}
  /\ UNCHANGED <<draining, ctxDone, queue, qclosed, cbVars, pushMainVars, closepc, brokerVars,
                 handled>>

LeaveLoop ==
  /\ mainpc' = "unsubscribe"
  /\ UNCHANGED <<queue, batch>>

\* The select of the loop takes a ready case: the context is cancelled, or
\* the client failed.
PushLoopStop ==
  /\ mainpc = "loop"
  /\ ctxDone \/ mq = "failed"
  /\ LeaveLoop
  /\ UNCHANGED <<draining, ctxDone, mq, qclosed, cbVars, remainLen, wasClosed, closepc,
                 brokerVars, handled>>

PushLoopTurn ==
  /\ mainpc = "loop" /\ ~ctxDone /\ mq # "failed"
  /\ mainpc' = "look"
  /\ UNCHANGED <<draining, ctxDone, mq, queue, qclosed, cbVars, batch, remainLen, wasClosed,
                 closepc, brokerVars, handled>>

\* Without one it looks into the queue: a message, or the end of the queue,
\* or nothing yet, and it sleeps.
Bug_QueueEndedNever == FALSE
QueueEnded == Drained(queue, qclosed)

PushLoopTake ==
  /\ mainpc = "look"
  /\ \/ /\ queue # << >> /\ ~QueueEnded
        /\ batch' = Taken(queue, 1) /\ queue' = Left(queue, 1)
        /\ mainpc' = "handle"
     \/ QueueEnded /\ LeaveLoop
     \/ /\ queue = << >> /\ ~QueueEnded
        /\ mainpc' = "loop"
        /\ UNCHANGED <<queue, batch>>
  /\ UNCHANGED <<draining, ctxDone, mq, qclosed, cbVars, remainLen, wasClosed, closepc,
                 brokerVars, handled>>

PushHandle ==
  /\ handled' = handled \cup {Head(batch)}
  /\ batch' = Tail(batch)
  /\ UNCHANGED <<draining, ctxDone, mq, queue, qclosed, cbVars, remainLen, wasClosed, closepc,
                 brokerVars>>

PushLoopHandle == mainpc = "handle" /\ mainpc' = "loop" /\ PushHandle

\* After the loop: the length of the queue is read...
PushMainRemain ==
  /\ mainpc = "unsubscribe"
  /\ mainpc' = "drain" /\ remainLen' = Len(queue) /\ wasClosed' = qclosed
  /\ UNCHANGED <<draining, ctxDone, mq, queue, qclosed, cbVars, batch, closepc, brokerVars,
                 handled>>

\* ...that many messages are taken...
Bug_PushMainDrain ==
  /\ mainpc = "drain"
  /\ mainpc' = "finish"
  /\ UNCHANGED <<draining, ctxDone, mq, queue, qclosed, cbVars, batch, remainLen, wasClosed,
                 closepc, brokerVars, handled>>
PushMainDrain ==
  /\ mainpc = "drain"
  /\ mainpc' = "finish"
  /\ batch' = Taken(queue, remainLen) /\ queue' = Left(queue, remainLen)
  /\ UNCHANGED <<draining, ctxDone, mq, qclosed, cbVars, remainLen, wasClosed, closepc,
                 brokerVars, handled>>

\* ...and handled.  SyncSubscribe calls OnExit and returns.
PushMainHandle == mainpc = "finish" /\ batch # << >> /\ UNCHANGED mainpc /\ PushHandle

PushMainReturn ==
  /\ mainpc = "finish" /\ batch = << >>
  /\ mainpc' = "returned"
  /\ UNCHANGED <<draining, ctxDone, mq, queue, qclosed, cbVars, batch, remainLen, wasClosed,
                 closepc, brokerVars, handled>>
-----------------------------------------------------------------------------
(* Close                                                                     *)

\* The first caller goes on.
PushCloseCall ==
  /\ closepc = "idle"
  /\ closepc' = "queue" /\ draining' = TRUE
  /\ UNCHANGED <<ctxDone, mq, queue, qclosed, cbVars, pushMainVars, brokerVars,
                 handled>>

Bug_PushCloseQueue ==
  /\ closepc = "queue"
  /\ closepc' = "shutdown"
  /\ UNCHANGED <<draining, ctxDone, mq, queue, qclosed, cbVars, pushMainVars, brokerVars,
                 handled>>
PushCloseQueue ==
  /\ closepc = "queue"
  /\ closepc' = "shutdown" /\ qclosed' = TRUE
  /\ UNCHANGED <<draining, ctxDone, mq, queue, cbVars, pushMainVars, brokerVars,
                 handled>>

\* Shutdown delivers nothing more and does not wait for the callbacks.
PushCloseShutdown ==
  /\ closepc = "shutdown"
  /\ closepc' = "wait"
  /\ mq' = IF mq = "running" THEN "shutdown" ELSE mq
  /\ UNCHANGED <<draining, ctxDone, queue, qclosed, cbVars, pushMainVars, brokerVars,
                 handled>>

\* wg.Wait, then the context is cancelled.
PushCloseReturn ==
  /\ closepc = "wait" /\ mainpc \in {"spawned", "returned"}
  /\ closepc' = "returned" /\ ctxDone' = TRUE
  /\ UNCHANGED <<draining, mq, queue, qclosed, cbVars, pushMainVars, brokerVars,
                 handled>>

\* The owner of the parent context cancels it.
PushParentCancel ==
  /\ ~ctxDone
  /\ ctxDone' = TRUE
  /\ UNCHANGED <<draining, mq, queue, qclosed, cbVars, pushMainVars, closepc, brokerVars,
                 handled>>

PushTerminating ==
  /\ mainpc = "returned" /\ closepc = "returned"
  /\ \A c \in Callbacks : cbpc[c] = "idle"
  /\ UNCHANGED pushVars

Callback(c) == CallbackCheck(c) \/ CallbackEnqueue(c) \/ CallbackReturn(c)
PushMain ==
  \/ PushMainStart \/ PushLoopStop \/ PushLoopTurn \/ PushLoopTake \/ PushLoopHandle
  \/ PushMainRemain \/ PushMainDrain \/ PushMainHandle \/ PushMainReturn
PushCloser == PushCloseQueue \/ PushCloseShutdown \/ PushCloseReturn

PushNext ==
  \/ PushMain \/ PushClientStart \/ PushCloser \/ PushCloseCall \/ PushParentCancel
  \/ PushTerminating
  \/ \E c \in Callbacks : Callback(c)
  \/ \E c \in Callbacks, n \in 1 .. MaxBatch : Deliver(c, n)

PushSpec == PushInit /\ [][PushNext]_pushVars

(* The goroutines and the callback threads run; nobody has to close, cancel  *)
(* or deliver.                                                               *)
PushFairSpec ==
  /\ PushSpec /\ WF_pushVars(PushMain) /\ WF_pushVars(PushCloser)
  /\ \A c \in Callbacks : WF_pushVars(Callback(c))
-----------------------------------------------------------------------------
PushTypeOK ==
  /\ {draining, ctxDone, qclosed, wasClosed} \subseteq BOOLEAN
  /\ mq \in {"new", "running", "failed", "shutdown"}
  /\ numDelivered \in 0 .. MaxMessages
  /\ queue \in Seq(1 .. numDelivered) /\ Len(queue) <= ChanSize
  /\ batch \in Seq(1 .. numDelivered) /\ Len(batch) <= ChanSize
  /\ cbpc \in [Callbacks -> {"idle", "check", "enqueue"}]
  /\ \A c \in Callbacks : hand[c] \in Seq(got[c]) /\ got[c] \subseteq 1 .. numDelivered
  /\ confirmed \cup refused \cup handled \subseteq 1 .. numDelivered
  /\ mainpc \in {"spawned", "loop", "look", "handle", "unsubscribe", "drain", "finish",
                "returned"}
  /\ remainLen \in 0 .. ChanSize
  /\ closepc \in {"idle", "queue", "shutdown", "wait", "returned"}

(* The broker and the consumer agree: until Close closes the queue, what the *)
(* broker was told is consumed has been handled or is on its way; and a      *)
(* delivery given back to it leaves no message here that its redelivery      *)
(* would repeat, since draining is looked at before the first Enqueue only   *)
(* (sub.go:120-134).                                                         *)
BrokerAgrees ==
  /\ ~qclosed => confirmed \subseteq handled \cup InFlight
  /\ refused \cap (handled \cup InFlight) = {}

(* SyncSubscribe has handled all that was in the queue when it returns, if   *)
(* the queue was closed before its length was read, whether the end of the   *)
(* queue, the context or a failure ended the loop (sub.go:181-204).          *)
HandledBeforeExit == mainpc = "returned" /\ wasClosed => InFlight = {}

(* Close ends every callback, even one that waits on a full queue nobody     *)
(* empties any more (sub.go:220-223).                                        *)
CallbacksFinish == \A c \in Callbacks : draining ~> (cbpc[c] = "idle")

(* Close does not wait for ever for SyncSubscribe (sub.go:183, 230).         *)
PushCloseReturns == (closepc = "wait") ~> (closepc = "returned")
=============================================================================
