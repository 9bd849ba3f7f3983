---------------------------- MODULE KafkaProducer ----------------------------
(* kafkamq/pub.go: an AsyncProducer, its callers and sarama's producer.      *)
(*                                                                           *)
(* Goroutines: Start (startpc), the sender (wpc) and the reader of the       *)
(* results (rpc) it spawns, the caller of Close (closepc), callers of        *)
(* Publish and PublishArray.  sarama takes messages from Input while it has  *)
(* room, and needs somebody to read the results it is told to return.        *)
EXTENDS Naturals, Sequences, FiniteSets, LockedRingBuffer

CONSTANTS
  QueueSize,      \* capacity of the queue and length of the sender's buffer
  ChannelSize,    \* ChannelBufferSize: room for messages, and for results
  ReturnAck,      \* Producer.Return.Successes
  ReturnError,    \* Producer.Return.Errors
  MaxMessages     \* bound on the accepted messages

ASSUME KafkaProducerAssumption ==
  /\ QueueSize \in Nat \ {0} /\ ChannelSize \in Nat \ {0} /\ MaxMessages \in Nat
  /\ ReturnAck \in BOOLEAN /\ ReturnError \in BOOLEAN

VARIABLES
  ctxDone,        \* the producer's context is cancelled
  queue,
  qclosed,
  accepted,       \* number of messages accepted
  startpc,        \* Start
  wpc,            \* the sender
  batch,          \* what it dequeued and has not put into Input yet
  subDone,        \* subCancel was called
  rpc,            \* the reader of the results
  closepc,        \* Close
  input,          \* sarama's Input channel: "open" or "closed"
  inflight,       \* messages inside sarama
  results,        \* results waiting to be read
  sent,           \* messages put into Input, in order
  delivered,      \* messages the broker has
  failed          \* messages sarama gave up

callVars == <<ctxDone, queue, qclosed, accepted, startpc, closepc>>
workVars == <<wpc, batch, subDone, rpc>>
libVars  == <<input, inflight, results, sent, delivered, failed>>
vars == <<callVars, workVars, libVars>>

Init ==
  /\ ctxDone = FALSE /\ queue = << >> /\ qclosed = FALSE /\ accepted = 0
  /\ startpc = "idle" /\ closepc = "idle"
  /\ wpc = "off" /\ batch = << >> /\ subDone = FALSE /\ rpc = "off"
  /\ input = "open" /\ inflight = {} /\ results = 0
  /\ sent = << >> /\ delivered = {} /\ failed = {}
-----------------------------------------------------------------------------
(* Callers                                                                   *)

\* Publish blocks on a full queue and is refused by a closed one.
Room == Accepts(queue, qclosed, QueueSize)

Publish ==
  /\ accepted < MaxMessages /\ Room
  /\ accepted' = accepted + 1
  /\ queue' = Append(queue, accepted + 1)
  /\ UNCHANGED <<ctxDone, qclosed, startpc, closepc, workVars, libVars>>

\* PublishArray enqueues as many messages of the array as there is room for;
\* it answers TRUE when that is at least one.
PublishArray(n) ==
  /\ accepted + n <= MaxMessages /\ ~qclosed
  /\ LET room == QueueSize - Len(queue)
         k    == IF n < room THEN n ELSE room
     IN  /\ k > 0
         /\ accepted' = accepted + k
         /\ queue' = queue \o [i \in 1 .. k |-> accepted + i]
  /\ UNCHANGED <<ctxDone, qclosed, startpc, closepc, workVars, libVars>>

\* Start registers with the WaitGroup when it runs, and spawns its goroutines.
StartCall ==
  /\ startpc = "idle"
  /\ startpc' = "wait" /\ wpc' = "take" /\ rpc' = "read"
  /\ UNCHANGED <<ctxDone, queue, qclosed, accepted, closepc, batch, subDone, libVars>>

\* It returns when the context is cancelled and both goroutines are done.
StartReturn ==
  /\ startpc = "wait" /\ ctxDone /\ wpc = "exited" /\ rpc = "exited"
  /\ startpc' = "returned"
  /\ UNCHANGED <<ctxDone, queue, qclosed, accepted, closepc, workVars, libVars>>

CloseCall ==
  /\ closepc = "idle"
  /\ closepc' = "queue" /\ ctxDone' = TRUE
  /\ UNCHANGED <<queue, qclosed, accepted, startpc, workVars, libVars>>

CloseQueue ==
  /\ closepc = "queue"
  /\ closepc' = "wait" /\ qclosed' = TRUE
  /\ UNCHANGED <<ctxDone, queue, accepted, startpc, workVars, libVars>>

\* wg.Wait: Start has returned, or has not been reached yet.
CloseWait ==
  /\ closepc = "wait" /\ startpc # "wait"
  /\ closepc' = "producer"
  /\ UNCHANGED <<ctxDone, queue, qclosed, accepted, startpc, workVars, libVars>>

\* Producer.Close closes Input...
CloseProducer ==
  /\ closepc = "producer"
  /\ closepc' = "flush" /\ input' = "closed"
  /\ UNCHANGED <<ctxDone, queue, qclosed, accepted, startpc, workVars,
                 inflight, results, sent, delivered, failed>>

\* ...reads the results itself, and returns when nothing is in flight.
CloseReads ==
  /\ closepc = "flush" /\ results > 0
  /\ results' = results - 1
  /\ UNCHANGED <<callVars, workVars, input, inflight, sent, delivered, failed>>

CloseReturn ==
  /\ closepc = "flush" /\ inflight = {} /\ results = 0
  /\ closepc' = "returned"
  /\ UNCHANGED <<ctxDone, queue, qclosed, accepted, startpc, workVars, libVars>>

ParentCancel ==
  /\ ~ctxDone
  /\ ctxDone' = TRUE
  /\ UNCHANGED <<queue, qclosed, accepted, startpc, closepc, workVars, libVars>>
-----------------------------------------------------------------------------
(* The sender                                                                *)

\* DequeueTo sleeps until there are messages, or none will come.
Bug_SenderTake ==
  /\ wpc = "take"
  /\ \/ /\ queue # << >>
        /\ batch' = Taken(queue, QueueSize) /\ queue' = Left(queue, QueueSize)
        /\ wpc' = "send"
     \/ /\ qclosed
        /\ wpc' = "cancel"
        /\ UNCHANGED <<queue, batch>>
  /\ UNCHANGED <<ctxDone, qclosed, accepted, startpc, closepc, subDone, rpc, libVars>>
SenderTake ==
  /\ wpc = "take"
  /\ \/ /\ queue # << >>
        /\ batch' = Taken(queue, QueueSize) /\ queue' = Left(queue, QueueSize)
        /\ wpc' = "send"
     \/ /\ Drained(queue, qclosed)
        /\ wpc' = "cancel"
        /\ UNCHANGED <<queue, batch>>
  /\ UNCHANGED <<ctxDone, qclosed, accepted, startpc, closepc, subDone, rpc, libVars>>

\* Input blocks while sarama has no room; when it is closed, the process
\* panics.
Bug_NextMessage == batch[Len(batch)]
NextMessage == Head(batch)

SenderSend ==
  /\ wpc = "send"
  /\ \/ /\ input = "open" /\ Cardinality(inflight) < ChannelSize
        /\ inflight' = inflight \cup {NextMessage}
        /\ sent' = Append(sent, NextMessage)
        /\ batch' = Tail(batch)
        /\ wpc' = IF Len(batch) = 1 THEN "take" ELSE "send"
     \/ /\ input = "closed"
        /\ wpc' = "panicked"
        /\ UNCHANGED <<inflight, sent, batch>>
  /\ UNCHANGED <<callVars, subDone, rpc, input, results, delivered, failed>>

\* subCancel tells the reader that nothing more will be sent.
SenderExit ==
  /\ wpc = "cancel"
  /\ wpc' = "exited" /\ subDone' = TRUE
  /\ UNCHANGED <<callVars, batch, rpc, libVars>>
-----------------------------------------------------------------------------
(* sarama and the reader of its results                                      *)

Result(returned) ==
  IF returned THEN results < ChannelSize /\ results' = results + 1
  ELSE UNCHANGED results

Deliver(m) ==
  /\ inflight' = inflight \ {m} /\ delivered' = delivered \cup {m}
  /\ Result(ReturnAck)
  /\ UNCHANGED <<callVars, workVars, input, sent, failed>>

Fail(m) ==
  /\ inflight' = inflight \ {m} /\ failed' = failed \cup {m}
  /\ Result(ReturnError)
  /\ UNCHANGED <<callVars, workVars, input, sent, delivered>>

\* The select of the reader: a result, or the end of the sender.
ReaderResult ==
  /\ rpc = "read" /\ results > 0
  /\ results' = results - 1
  /\ UNCHANGED <<callVars, workVars, input, inflight, sent, delivered, failed>>

Bug_ReaderStop == ctxDone
ReaderStop == subDone

\* The channels of the results close with the producer.
ReaderExit ==
  /\ rpc = "read" /\ (ReaderStop \/ closepc = "returned")
  /\ rpc' = "exited"
  /\ UNCHANGED <<callVars, wpc, batch, subDone, libVars>>

Terminating ==
  /\ closepc = "returned" /\ wpc \in {"exited", "panicked"} /\ rpc = "exited"
  /\ wpc = "exited" => startpc = "returned"
  /\ UNCHANGED vars

Sender == SenderTake \/ SenderSend \/ SenderExit
Closer == CloseQueue \/ CloseWait \/ CloseProducer \/ CloseReads \/ CloseReturn
Sarama == \E m \in inflight : Deliver(m) \/ Fail(m)

Next ==
  \/ Publish \/ StartCall \/ StartReturn \/ CloseCall \/ ParentCancel
  \/ Sender \/ Closer \/ Sarama \/ ReaderResult \/ ReaderExit \/ Terminating
  \/ \E n \in 1 .. MaxMessages : PublishArray(n)

Spec == Init /\ [][Next]_vars

(* The goroutines run, and sarama answers every message in the end: its      *)
(* retries are bounded.                                                      *)
FairSpec ==
  /\ Spec
  /\ WF_vars(Sender) /\ WF_vars(Closer) /\ WF_vars(StartReturn)
  /\ WF_vars(ReaderResult) /\ WF_vars(ReaderExit) /\ WF_vars(Sarama)
-----------------------------------------------------------------------------
TypeOK ==
  /\ {ctxDone, qclosed, subDone} \subseteq BOOLEAN
  /\ accepted \in 0 .. MaxMessages /\ results \in 0 .. ChannelSize
  /\ queue \in Seq(1 .. accepted) /\ Len(queue) <= QueueSize
  /\ batch \in Seq(1 .. accepted) /\ Len(batch) <= QueueSize
  /\ sent \in Seq(1 .. accepted)
  /\ inflight \subseteq 1 .. accepted /\ Cardinality(inflight) <= ChannelSize
  /\ delivered \cup failed \subseteq 1 .. accepted
  /\ startpc \in {"idle", "wait", "returned"}
  /\ wpc \in {"off", "take", "send", "cancel", "exited", "panicked"}
  /\ rpc \in {"off", "read", "exited"}
  /\ closepc \in {"idle", "queue", "wait", "producer", "flush", "returned"}
  /\ input \in {"open", "closed"}

(* Messages enter sarama in the order of Publish, each once: the promise of  *)
(* Outbox (pub.go:147-165).                                                  *)
Promise == INSTANCE Outbox WITH
  Window  <- 1,
  settled <- accepted - Len(queue) - Len(batch),
  closing <- ctxDone
KeepsPromise == Promise!Spec

(* When Close has returned and the sender has left in the regular way, every *)
(* accepted message has been delivered or has failed: the queue is drained   *)
(* before sarama is closed, and sarama is flushed (pub.go:235-250).          *)
DrainedAtClose ==
  closepc = "returned" /\ wpc = "exited" => delivered \cup failed = 1 .. accepted

(* Close returns: neither the sender, nor sarama, nor the reader of the      *)
(* results waits for another for ever (pub.go:114-166).                      *)
CloseReturns == (closepc = "wait") ~> (closepc = "returned")
=============================================================================
