--------------------------- MODULE RabbitProducer ---------------------------
(* rabbitmq/pub.go: a Producer, its callers and the go-rabbitmq publisher.   *)
(*                                                                           *)
(* Goroutines: the caller of Start (startpc), the sender it spawns (wpc),    *)
(* the caller of Close (closepc), and callers of Publish, whose messages are *)
(* numbered in the order in which the queue takes them.                      *)
EXTENDS Naturals, Sequences, LockedRingBuffer

CONSTANTS
  QueueSize,     \* capacity of the queue and length of the sender's buffer
  MaxMessages,   \* bound on the accepted messages
  MaxEchoes      \* bound on the sends that reach the broker and still fail

ASSUME RabbitProducerAssumption ==
  QueueSize \in Nat \ {0} /\ MaxMessages \in Nat /\ MaxEchoes \in Nat

VARIABLES
  draining,      \* set by Close
  ctxDone,       \* the producer's context is cancelled
  queue,
  qclosed,
  accepted,      \* number of messages Publish accepted
  startpc,       \* Start
  wpc,           \* the sender
  batch,         \* what it dequeued and has not sent yet
  closepc,       \* Close
  released,      \* publisher and connection are closed
  sent,          \* messages the publisher took, in order
  gaveUp,        \* the sender left because a send failed while draining
  echoes         \* sends that reached the broker and failed

vars == <<draining, ctxDone, queue, qclosed, accepted, startpc, wpc, batch, closepc,
          released, sent, gaveUp, echoes>>

Init ==
  /\ draining = FALSE /\ ctxDone = FALSE
  /\ queue = << >> /\ qclosed = FALSE /\ accepted = 0
  /\ startpc = "idle" /\ wpc = "off" /\ batch = << >>
  /\ closepc = "idle" /\ released = FALSE
  /\ sent = << >> /\ gaveUp = FALSE /\ echoes = 0
-----------------------------------------------------------------------------
(* Callers                                                                   *)

\* Publish blocks on a full queue, and is refused by a closed one only: it
\* does not look at draining.
Room == Accepts(queue, qclosed, QueueSize)

Publish ==
  /\ accepted < MaxMessages /\ Room
  /\ accepted' = accepted + 1
  /\ queue' = Append(queue, accepted + 1)
  /\ UNCHANGED <<draining, ctxDone, qclosed, startpc, wpc, batch, closepc, released,
                 sent, gaveUp, echoes>>

\* Start: the first caller goes on...
StartCall ==
  /\ startpc = "idle"
  /\ startpc' = "spawn"
  /\ UNCHANGED <<draining, ctxDone, queue, qclosed, accepted, wpc, batch, closepc,
                 released, sent, gaveUp, echoes>>

\* ...registers the sender with the WaitGroup and spawns it...
StartSpawn ==
  /\ startpc = "spawn"
  /\ startpc' = "wait" /\ wpc' = "take"
  /\ UNCHANGED <<draining, ctxDone, queue, qclosed, accepted, batch, closepc, released,
                 sent, gaveUp, echoes>>

\* ...and, once the context is cancelled, closes the queue and returns.
StartCancelled ==
  /\ startpc = "wait" /\ ctxDone
  /\ startpc' = "returned" /\ qclosed' = TRUE
  /\ UNCHANGED <<draining, ctxDone, queue, accepted, wpc, batch, closepc, released,
                 sent, gaveUp, echoes>>

CloseCall ==
  /\ closepc = "idle"
  /\ closepc' = "cancel" /\ draining' = TRUE
  /\ UNCHANGED <<ctxDone, queue, qclosed, accepted, startpc, wpc, batch, released, sent,
                 gaveUp, echoes>>

CloseCancel ==
  /\ closepc = "cancel"
  /\ closepc' = "wait" /\ ctxDone' = TRUE
  /\ UNCHANGED <<draining, queue, qclosed, accepted, startpc, wpc, batch, released, sent,
                 gaveUp, echoes>>

SenderRuns == wpc \notin {"off", "exited"}

\* wg.Wait returns, or twenty seconds have passed.
CloseWait ==
  /\ closepc = "wait"
  /\ closepc' = "release"
  /\ UNCHANGED <<draining, ctxDone, queue, qclosed, accepted, startpc, wpc, batch,
                 released, sent, gaveUp, echoes>>

CloseRelease ==
  /\ closepc = "release"
  /\ closepc' = "returned" /\ released' = TRUE
  /\ UNCHANGED <<draining, ctxDone, queue, qclosed, accepted, startpc, wpc, batch, sent,
                 gaveUp, echoes>>

\* The owner of the parent context cancels it without calling Close.
ParentCancel ==
  /\ ~ctxDone
  /\ ctxDone' = TRUE
  /\ UNCHANGED <<draining, queue, qclosed, accepted, startpc, wpc, batch, closepc,
                 released, sent, gaveUp, echoes>>
-----------------------------------------------------------------------------
(* The sender                                                                *)

\* DequeueTo sleeps until there are messages, or none will come.
Bug_SenderTake ==
  /\ wpc = "take"
  /\ \/ /\ queue # << >>
        /\ batch' = Taken(queue, QueueSize) /\ queue' = Left(queue, QueueSize)
        /\ wpc' = "send"
     \/ /\ qclosed
        /\ wpc' = "exited"
        /\ UNCHANGED <<queue, batch>>
  /\ UNCHANGED <<draining, ctxDone, qclosed, accepted, startpc, closepc, released, sent,
                 gaveUp, echoes>>
SenderTake ==
  /\ wpc = "take"
  /\ \/ /\ queue # << >>
        /\ batch' = Taken(queue, QueueSize) /\ queue' = Left(queue, QueueSize)
        /\ wpc' = "send"
     \/ /\ Drained(queue, qclosed)
        /\ wpc' = "exited"
        /\ UNCHANGED <<queue, batch>>
  /\ UNCHANGED <<draining, ctxDone, qclosed, accepted, startpc, closepc, released, sent,
                 gaveUp, echoes>>

Sent ==
  /\ sent' = Append(sent, Head(batch))
  /\ batch' = Tail(batch)
  /\ wpc' = IF Len(batch) = 1 THEN "take" ELSE "send"

\* A send succeeds, fails, or fails although the broker has the message.
SenderSend ==
  /\ wpc = "send"
  /\ \/ ~released /\ Sent /\ UNCHANGED echoes
     \/ wpc' = "failed" /\ UNCHANGED <<sent, batch, echoes>>
     \/ /\ ~released /\ echoes < MaxEchoes
        /\ sent' = Append(sent, Head(batch))
        /\ echoes' = echoes + 1 /\ wpc' = "failed"
        /\ UNCHANGED batch
  /\ UNCHANGED <<draining, ctxDone, queue, qclosed, accepted, startpc, closepc, released,
                 gaveUp>>

\* After a failure the sender leaves if the producer is draining, and else
\* pauses and sends the same message again.
Bug_SkipFailed ==
  /\ wpc = "failed"
  /\ batch' = Tail(batch)
  /\ wpc' = IF Len(batch) = 1 THEN "take" ELSE "send"
  /\ UNCHANGED <<draining, ctxDone, queue, qclosed, accepted, startpc, closepc, released,
                 sent, echoes, gaveUp>>
Bug_RetryForever ==
  /\ wpc = "failed"
  /\ wpc' = "send"
  /\ UNCHANGED <<draining, ctxDone, queue, qclosed, accepted, startpc, batch, closepc,
                 released, sent, echoes, gaveUp>>
SenderFailed ==
  /\ wpc = "failed"
  /\ wpc' = IF draining THEN "exited" ELSE "send"
  /\ gaveUp' = draining
  /\ UNCHANGED <<draining, ctxDone, queue, qclosed, accepted, startpc, batch, closepc,
                 released, sent, echoes>>

Terminating ==
  /\ startpc = "returned" /\ closepc = "returned" /\ wpc = "exited"
  /\ UNCHANGED vars

Sender == SenderTake \/ SenderSend \/ SenderFailed
Starter == StartSpawn \/ StartCancelled
Closer == CloseCancel \/ CloseWait \/ CloseRelease

Next == Publish \/ StartCall \/ CloseCall \/ ParentCancel \/ Sender \/ Starter \/ Closer
          \/ Terminating

Spec == Init /\ [][Next]_vars

(* The goroutines run.  A send returns: it has a timeout of five seconds.    *)
FairSpec == Spec /\ WF_vars(Sender) /\ WF_vars(Starter) /\ WF_vars(Closer)
-----------------------------------------------------------------------------
TypeOK ==
  /\ {draining, ctxDone, qclosed, released, gaveUp} \subseteq BOOLEAN
  /\ accepted \in 0 .. MaxMessages /\ echoes \in 0 .. MaxEchoes
  /\ queue \in Seq(1 .. accepted) /\ Len(queue) <= QueueSize
  /\ batch \in Seq(1 .. accepted) /\ Len(batch) <= QueueSize
  /\ sent \in Seq(1 .. accepted)
  /\ startpc \in {"idle", "spawn", "wait", "returned"}
  /\ wpc \in {"off", "take", "send", "failed", "exited"}
  /\ closepc \in {"idle", "cancel", "wait", "release", "returned"}

(* The producer keeps the promise of Outbox, one message at a time           *)
(* (pub.go:104-124).                                                         *)
Promise == INSTANCE Outbox WITH
  Window  <- 1,
  settled <- accepted - Len(queue) - Len(batch),
  closing <- draining
KeepsPromise == Promise!Spec

(* The sender that left without giving up has sent every accepted message,   *)
(* however Publish and the shutdown interleaved: the queue closes before the *)
(* sender can find it drained (pub.go:98-101, 133-136).                      *)
DrainsBeforeExit ==
  wpc = "exited" /\ ~gaveUp => \A k \in 1 .. accepted : k \in Elements(sent)

(* Once Close waits for it, a running sender leaves: the failure of a send   *)
(* while draining ends it (pub.go:117-119), and Start closes the queue.      *)
SenderLeaves == (closepc = "wait" /\ SenderRuns) ~> wpc = "exited"
=============================================================================
