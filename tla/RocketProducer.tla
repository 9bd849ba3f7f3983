--------------------------- MODULE RocketProducer ---------------------------
(* rocketmq/pub.go: a Producer, its callers and the RocketMQ client.         *)
(*                                                                           *)
(* Goroutines: Start, which becomes the sender (wpc), the start of the       *)
(* client it spawns, the caller of Close (closepc), callers of Publish, and  *)
(* the callbacks of asynchronous sends.                                      *)
EXTENDS Naturals, Sequences, LockedRingBuffer, RocketClient

CONSTANTS
  QueueSize,     \* capacity of the queue and length of the sender's buffer
  AsyncSend,     \* Producer.AsyncSend
  MaxEchoes      \* bound on the sends that reach the broker and still fail

ASSUME RocketProducerAssumption ==
  /\ QueueSize \in Nat \ {0} /\ AsyncSend \in BOOLEAN
  /\ MaxMessages \in Nat /\ MaxEchoes \in Nat

VARIABLES
  accepted,      \* number of messages Publish accepted
  wpc,           \* Start and its sending loop
  gaveUp,        \* the sender left because a send failed
  sent,          \* messages the client took, in order
  pending,       \* asynchronous sends without an answer
  delivered,     \* messages the broker confirmed
  reported,      \* messages whose failure went to OnError
  echoes         \* sends that reached the broker and failed

ctrlVars == <<draining, ctxDone, qclosed, mq, closepc>>
dataVars == <<queue, accepted, batch>>
outVars  == <<sent, pending, delivered, reported, echoes>>
vars == <<ctrlVars, dataVars, wpc, gaveUp, outVars>>

Init ==
  /\ draining = FALSE /\ ctxDone = FALSE /\ qclosed = FALSE
  /\ queue = << >> /\ accepted = 0 /\ batch = << >>
  /\ wpc = "off" /\ mq = "new" /\ closepc = "idle"
  /\ gaveUp = FALSE
  /\ sent = << >> /\ pending = {} /\ delivered = {} /\ reported = {} /\ echoes = 0
-----------------------------------------------------------------------------
(* Callers                                                                   *)

\* Publish blocks on a full queue and is refused by a closed one.
Room == Accepts(queue, qclosed, QueueSize)

Publish ==
  /\ accepted < MaxMessages /\ Room
  /\ accepted' = accepted + 1
  /\ queue' = Append(queue, accepted + 1)
  /\ UNCHANGED <<ctrlVars, batch, wpc, gaveUp, outVars>>

\* The first Start spawns the start of the client, reports readiness and
\* sleeps half a second...
StartCall ==
  /\ wpc = "off"
  /\ wpc' = "sleep"
  /\ UNCHANGED <<ctrlVars, dataVars, gaveUp, outVars>>

ClientStart ==
  /\ mq = "new" /\ wpc # "off"
  /\ mq' = "running"
  /\ UNCHANGED <<draining, ctxDone, qclosed, closepc, dataVars, wpc, gaveUp, outVars>>

\* ...before it registers with the WaitGroup.
StartRegister ==
  /\ wpc = "sleep"
  /\ wpc' = "take"
  /\ UNCHANGED <<ctrlVars, dataVars, gaveUp, outVars>>

Registered == wpc \in {"take", "send", "failed"}

CloseCall ==
  /\ closepc = "idle"
  /\ closepc' = "queue" /\ draining' = TRUE
  /\ UNCHANGED <<ctxDone, qclosed, mq, dataVars, wpc, gaveUp, outVars>>

Bug_CloseQueue ==
  /\ closepc = "queue"
  /\ closepc' = "wait"
  /\ UNCHANGED <<draining, ctxDone, qclosed, mq, dataVars, wpc, gaveUp, outVars>>
CloseQueue ==
  /\ closepc = "queue"
  /\ closepc' = "wait" /\ qclosed' = TRUE
  /\ UNCHANGED <<draining, ctxDone, mq, dataVars, wpc, gaveUp, outVars>>

\* wg.Wait returns, or twenty seconds have passed.
CloseWait ==
  /\ closepc = "wait"
  /\ closepc' = "shutdown"
  /\ UNCHANGED <<draining, ctxDone, qclosed, mq, dataVars, wpc, gaveUp, outVars>>

CloseShutdown ==
  /\ closepc = "shutdown"
  /\ closepc' = "cancel" /\ mq' = "shutdown"
  /\ UNCHANGED <<draining, ctxDone, qclosed, dataVars, wpc, gaveUp, outVars>>

CloseCancel ==
  /\ closepc = "cancel"
  /\ closepc' = "returned" /\ ctxDone' = TRUE
  /\ UNCHANGED <<draining, qclosed, mq, dataVars, wpc, gaveUp, outVars>>

ParentCancel ==
  /\ ~ctxDone
  /\ ctxDone' = TRUE
  /\ UNCHANGED <<draining, qclosed, mq, closepc, dataVars, wpc, gaveUp, outVars>>
-----------------------------------------------------------------------------
(* The sender                                                                *)

\* DequeueTo sleeps until there are messages, or none will come.
SenderTake ==
  /\ wpc = "take"
  /\ \/ /\ queue # << >>
        /\ batch' = Taken(queue, QueueSize) /\ queue' = Left(queue, QueueSize)
        /\ wpc' = "send"
     \/ /\ Drained(queue, qclosed)
        /\ wpc' = "exited"
        /\ UNCHANGED <<queue, batch>>
  /\ UNCHANGED <<ctrlVars, accepted, gaveUp, outVars>>

\* The client works: it is started, not shut down, its context is alive.
Able == mq = "running" /\ ~ctxDone

Taking ==
  /\ sent' = Append(sent, Head(batch))
  /\ batch' = Tail(batch)
  /\ wpc' = IF Len(batch) = 1 THEN "take" ELSE "send"

\* SendSync waits for the broker's answer; a failure goes to OnError.
SendSync ==
  \/ /\ Able /\ Taking
     /\ delivered' = delivered \cup {Head(batch)}
     /\ UNCHANGED <<pending, reported, echoes>>
  \/ /\ wpc' = "failed"
     /\ reported' = reported \cup {Head(batch)}
     /\ UNCHANGED <<batch, sent, pending, delivered, echoes>>
  \/ /\ Able /\ echoes < MaxEchoes /\ echoes' = echoes + 1
     /\ wpc' = "failed"
     /\ sent' = Append(sent, Head(batch))
     /\ reported' = reported \cup {Head(batch)}
     /\ delivered' = delivered \cup {Head(batch)}
     /\ UNCHANGED <<batch, pending>>

\* SendAsync only reports whether the client took the message.
SendAsync ==
  \/ /\ Able /\ Taking
     /\ pending' = pending \cup {Head(batch)}
     /\ UNCHANGED <<delivered, reported, echoes>>
  \/ /\ wpc' = "failed"
     /\ UNCHANGED <<batch, outVars>>

\* A draining producer sends synchronously, whatever its configuration.
SenderSend ==
  /\ wpc = "send"
  /\ IF draining \/ ~AsyncSend THEN SendSync ELSE SendAsync
  /\ UNCHANGED <<ctrlVars, queue, accepted, gaveUp>>

\* The callback of an asynchronous send.
Bug_AsyncAnswer(k) ==
  /\ pending' = pending \ {k}
  /\ delivered' = delivered \cup {k} \/ UNCHANGED delivered
  /\ UNCHANGED <<ctrlVars, dataVars, wpc, gaveUp, sent, reported, echoes>>
AsyncAnswer(k) ==
  /\ pending' = pending \ {k}
  /\ \/ delivered' = delivered \cup {k} /\ UNCHANGED reported
     \/ reported' = reported \cup {k} /\ UNCHANGED delivered
  /\ UNCHANGED <<ctrlVars, dataVars, wpc, gaveUp, sent, echoes>>

\* After a failure: leave if the context is cancelled or the producer is
\* draining, else pause and send the same message again.
Bug_SkipFailed ==
  /\ wpc = "failed"
  /\ batch' = Tail(batch)
  /\ wpc' = IF Len(batch) = 1 THEN "take" ELSE "send"
  /\ UNCHANGED <<ctrlVars, queue, accepted, gaveUp, outVars>>
SenderFailed ==
  /\ wpc = "failed"
  /\ gaveUp' = (ctxDone \/ draining)
  /\ wpc' = IF gaveUp' THEN "exited" ELSE "send"
  /\ UNCHANGED <<ctrlVars, dataVars, outVars>>

Terminating ==
  /\ wpc = "exited" /\ closepc = "returned"
  /\ UNCHANGED vars

Sender == StartRegister \/ SenderTake \/ SenderSend \/ SenderFailed
Closer == CloseQueue \/ CloseWait \/ CloseShutdown \/ CloseCancel

Next ==
  \/ Publish \/ StartCall \/ ClientStart \/ CloseCall \/ ParentCancel
  \/ Sender \/ Closer \/ Terminating
  \/ \E k \in pending : AsyncAnswer(k)

Spec == Init /\ [][Next]_vars

(* The goroutines run, and a synchronous send returns within its timeout.    *)
FairSpec == Spec /\ WF_vars(Sender) /\ WF_vars(Closer)
-----------------------------------------------------------------------------
TypeOK ==
  /\ {draining, ctxDone, qclosed, gaveUp} \subseteq BOOLEAN
  /\ accepted \in 0 .. MaxMessages /\ echoes \in 0 .. MaxEchoes
  /\ queue \in Seq(1 .. accepted) /\ Len(queue) <= QueueSize
  /\ batch \in Seq(1 .. accepted) /\ Len(batch) <= QueueSize
  /\ sent \in Seq(1 .. accepted)
  /\ pending \cup delivered \cup reported \subseteq 1 .. accepted
  /\ wpc \in {"off", "sleep", "take", "send", "failed", "exited"}
  /\ mq \in {"new", "running", "shutdown"}
  /\ closepc \in {"idle", "queue", "wait", "shutdown", "cancel", "returned"}

Settled == accepted - Len(queue) - Len(batch)

(* The producer keeps the promise of Outbox, one message at a time, in both  *)
(* sending modes and when the mode changes under way (pub.go:140-167).       *)
Promise == INSTANCE Outbox WITH
  Window  <- 1,
  settled <- Settled,
  closing <- draining
KeepsPromise == Promise!Spec

(* No message is dropped in silence: one the sender is done with is at the   *)
(* broker, has its answer outstanding, or was reported to OnError, and a     *)
(* sender that leaves without having given up is done with every accepted    *)
(* message (pub.go:133-138, 235-241, 252-265).                               *)
NoSilentDrop ==
  /\ \A k \in 1 .. Settled : k \in delivered \cup pending \cup reported
  /\ wpc = "exited" /\ ~gaveUp => Settled = accepted

(* Once Close waits for it, a registered sender leaves (pub.go:155-163).     *)
SenderLeaves == (closepc = "wait" /\ Registered) ~> wpc = "exited"
=============================================================================
