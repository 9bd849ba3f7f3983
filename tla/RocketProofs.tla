---------------------------- MODULE RocketProofs ----------------------------
(* RocketProducer, for every queue size and both sending modes: its types,   *)
(* NoSilentDrop, and that it keeps the promise of Outbox.                    *)
(*                                                                           *)
(* RocketPushConsumer, for every set of callback threads, every size of the  *)
(* queue and of a delivery and any number of messages: its types,            *)
(* BrokerAgrees and HandledBeforeExit.                                       *)
(*                                                                           *)
(* RocketPullConsumer, for every set of pull loops, every size of the queue  *)
(* and of a pull and any number of messages: its types, LoopOrder and        *)
(* LeftoverBounded.                                                          *)
EXTENDS RocketProducer, RocketPushConsumer, RocketPullConsumer,
  LockedRingBufferProofs, FiniteSetTheorems

(* RocketProducer                                                            *)

(* Batch and queue together are the accepted messages that are not settled   *)
(* yet, in the order of Publish.                                             *)
InOrder ==
  /\ Settled \in 0 .. accepted
  /\ Numbered(batch, Settled)
  /\ Numbered(queue, Settled + Len(batch))

(* What left the batch is at the broker, has its answer outstanding or was   *)
(* reported.                                                                 *)
Answered == 1 .. Settled \subseteq delivered \cup pending \cup reported

(* The sender has a batch while it sends, and leaves with nothing left       *)
(* unless it gave up.                                                        *)
Positions ==
  /\ wpc \in {"off", "sleep", "take"} => batch = << >>
  /\ wpc \in {"send", "failed"} => batch # << >>
  /\ wpc = "exited" /\ ~gaveUp => batch = << >> /\ queue = << >> /\ qclosed

IInv == TypeOK /\ InOrder /\ Answered /\ Positions

(* NewProducer makes an empty queue and starts nothing (pub.go:29-102).      *)
LEMMA InitInv == Init => IInv /\ Settled = 0
<1> SUFFICES ASSUME Init PROVE IInv /\ Settled = 0
  OBVIOUS
<1>1. /\ queue = << >> /\ batch = << >> /\ sent = << >> /\ accepted = 0 /\ echoes = 0
      /\ pending = {} /\ delivered = {} /\ reported = {}
      /\ MaxMessages \in Nat /\ MaxEchoes \in Nat /\ QueueSize \in Nat
  BY RocketProducerAssumption DEF Init, RocketProducerAssumption
<1>2. Len(<< >>) = 0 /\ << >> \in Seq(1 .. 0)
  OBVIOUS
<1>3. /\ accepted \in 0 .. MaxMessages /\ echoes \in 0 .. MaxEchoes
      /\ queue \in Seq(1 .. accepted) /\ Len(queue) <= QueueSize
      /\ batch \in Seq(1 .. accepted) /\ Len(batch) <= QueueSize
      /\ sent \in Seq(1 .. accepted)
  BY <1>1, <1>2
<1>4. TypeOK
  BY <1>1, <1>3 DEF Init, TypeOK
<1>5. Settled = 0
  <2>1. Len(queue) = 0 /\ Len(batch) = 0
    BY <1>1, <1>2
  <2>2. accepted = 0
    BY <1>1
  <2>3. QED
    BY <2>1, <2>2 DEF Settled
<1>6. InOrder /\ Answered
  BY <1>1, <1>2, <1>5 DEF InOrder, Answered, Numbered
<1>7. Positions
  BY DEF Init, Positions
<1>8. QED
  BY <1>4, <1>5, <1>6, <1>7 DEF IInv

(* What the arithmetic of the steps needs of the types.                      *)
LEMMA Lengths ==
  ASSUME IInv
  PROVE  /\ accepted \in Nat /\ Len(queue) \in Nat /\ Len(batch) \in Nat
         /\ Settled \in Nat /\ Settled + Len(batch) + Len(queue) = accepted
         /\ QueueSize \in Nat \ {0} /\ MaxMessages \in Nat /\ MaxEchoes \in Nat
<1>1. /\ accepted \in 0 .. MaxMessages /\ QueueSize \in Nat \ {0}
      /\ MaxMessages \in Nat /\ MaxEchoes \in Nat
      /\ queue \in Seq(1 .. accepted) /\ batch \in Seq(1 .. accepted)
  BY RocketProducerAssumption DEF IInv, TypeOK, RocketProducerAssumption
<1>2. Len(queue) \in Nat /\ Len(batch) \in Nat /\ Settled \in 0 .. accepted
  BY <1>1 DEF IInv, InOrder
<1>3. QED
  BY <1>1, <1>2 DEF Settled

(* Publish appends the next number (pub.go:205-210).                         *)
LEMMA PublishStep ==
  ASSUME IInv, Publish
  PROVE  IInv' /\ accepted' = accepted + 1 /\ UNCHANGED <<Settled, sent, draining>>
<1> DEFINE m == accepted + 1
<1>1. /\ accepted < MaxMessages /\ ~qclosed /\ Len(queue) < QueueSize
      /\ accepted' = m /\ queue' = Append(queue, m)
      /\ UNCHANGED <<draining, ctxDone, qclosed, mq, closepc, batch, wpc, gaveUp,
                     sent, pending, delivered, reported, echoes>>
  BY DEF Publish, Room, Accepts, ctrlVars, outVars
<1>2. /\ accepted \in Nat /\ Len(queue) \in Nat /\ Len(batch) \in Nat /\ Settled \in Nat
      /\ Settled + Len(batch) + Len(queue) = accepted
      /\ QueueSize \in Nat /\ MaxMessages \in Nat
  BY Lengths
<1>3. 1 .. accepted \subseteq 1 .. m /\ m \in 1 .. m
  BY <1>2
<1>4. /\ queue \in Seq(1 .. m) /\ batch \in Seq(1 .. m) /\ sent \in Seq(1 .. m)
      /\ pending \cup delivered \cup reported \subseteq 1 .. m
  <2>1. /\ queue \in Seq(1 .. accepted) /\ batch \in Seq(1 .. accepted)
        /\ sent \in Seq(1 .. accepted)
        /\ pending \cup delivered \cup reported \subseteq 1 .. accepted
    BY DEF IInv, TypeOK
  <2> HIDE DEF m
  <2>2. QED
    BY <1>3, <2>1, WiderSeq
<1>5. /\ queue' \in Seq(1 .. m) /\ Len(queue') = Len(queue) + 1
      /\ Numbered(queue', Settled + Len(batch))
  <2>1. Numbered(queue, Settled + Len(batch)) /\ Settled + Len(batch) \in Nat
    BY <1>2 DEF IInv, InOrder
  <2>2. m = Settled + Len(batch) + Len(queue) + 1
    BY <1>2
  <2> HIDE DEF m
  <2>3. QED
    BY <1>1, <1>3, <1>4, <2>1, <2>2, NumberedAppend
<1>6. Settled' = Settled
  BY <1>1, <1>2, <1>5 DEF Settled
<1>7. TypeOK'
  <2>1. accepted' \in 0 .. MaxMessages /\ Len(queue') <= QueueSize
    BY <1>1, <1>2, <1>5
  <2>2. /\ queue' \in Seq(1 .. accepted') /\ batch' \in Seq(1 .. accepted')
        /\ sent' \in Seq(1 .. accepted')
        /\ pending' \cup delivered' \cup reported' \subseteq 1 .. accepted'
    BY <1>1, <1>4, <1>5
  <2> HIDE DEF m
  <2>3. QED
    BY <1>1, <2>1, <2>2 DEF IInv, TypeOK
<1>8. InOrder'
  <2>1. Settled' \in 0 .. accepted'
    BY <1>1, <1>2, <1>6
  <2>2. QED
    BY <1>1, <1>5, <1>6, <2>1 DEF IInv, InOrder
<1>9. Answered' /\ Positions'
  BY <1>1, <1>6 DEF IInv, Answered, Positions
<1>10. QED
  BY <1>1, <1>6, <1>7, <1>8, <1>9 DEF IInv

(* DequeueTo moves messages from the queue to the empty buffer, or lets the  *)
(* sender leave a queue that is closed and empty (pub.go:133-138).           *)
LEMMA TakeStep ==
  ASSUME IInv, SenderTake
  PROVE  IInv' /\ UNCHANGED <<accepted, Settled, sent, draining>>
<1>1. /\ wpc = "take" /\ batch = << >>
      /\ UNCHANGED <<draining, ctxDone, qclosed, mq, closepc, accepted, gaveUp,
                     sent, pending, delivered, reported, echoes>>
  BY DEF SenderTake, IInv, Positions, ctrlVars, outVars
<1>2. CASE Drained(queue, qclosed) /\ wpc' = "exited" /\ UNCHANGED <<queue, batch>>
  <2>1. Settled' = Settled
    BY <1>1, <1>2 DEF Settled
  <2>2. TypeOK' /\ InOrder' /\ Answered'
    BY <1>1, <1>2, <2>1 DEF IInv, TypeOK, InOrder, Answered
  <2>3. Positions'
    BY <1>1, <1>2 DEF Positions, Drained
  <2>4. QED
    BY <1>1, <2>1, <2>2, <2>3 DEF IInv
<1>3. CASE /\ queue # << >> /\ wpc' = "send"
           /\ batch' = Taken(queue, QueueSize) /\ queue' = Left(queue, QueueSize)
  <2> DEFINE a == Taken(queue, QueueSize)
             b == Left(queue, QueueSize)
  <2>1. /\ accepted \in Nat /\ Len(queue) \in Nat /\ Settled \in Nat
        /\ Settled + Len(batch) + Len(queue) = accepted
        /\ QueueSize \in Nat /\ QueueSize # 0 /\ Len(batch) = 0
    BY <1>1, Lengths
  <2>2. queue \in Seq(1 .. accepted) /\ Len(queue) <= QueueSize /\ Numbered(queue, Settled)
    BY <2>1 DEF IInv, TypeOK, InOrder
  <2>3. /\ a \in Seq(1 .. accepted) /\ b \in Seq(1 .. accepted)
        /\ Len(a) <= QueueSize /\ Len(b) <= Len(queue)
    BY <2>1, <2>2, TakenAndLeft
  <2>4. /\ Len(a) \in Nat /\ Len(b) \in Nat /\ Len(a) + Len(b) = Len(queue)
        /\ a # << >> /\ batch' = a /\ queue' = b
    BY <1>3, <2>1, <2>2, TakenThenLeft
  <2>5. Numbered(a, Settled) /\ Numbered(b, Settled + Len(a))
    BY <2>1, <2>2, NumberedTaken
  <2> HIDE DEF a, b
  <2>6. Settled' = Settled
    BY <1>1, <2>1, <2>4 DEF Settled
  <2>7. TypeOK'
    <3>1. Len(b) <= QueueSize
      BY <2>1, <2>2, <2>3, <2>4
    <3>2. QED
      BY <1>1, <1>3, <2>3, <2>4, <3>1 DEF IInv, TypeOK
  <2>8. InOrder' /\ Answered'
    BY <1>1, <2>4, <2>5, <2>6 DEF IInv, InOrder, Answered
  <2>9. Positions'
    BY <1>1, <1>3, <2>4 DEF Positions
  <2>10. QED
    BY <1>1, <2>6, <2>7, <2>8, <2>9 DEF IInv
<1>4. QED
  BY <1>2, <1>3 DEF SenderTake

(* A send in either mode takes the head of the batch, whose number is the    *)
(* next one, and accounts for it; or fails, after which the message stays    *)
(* at the head (pub.go:140-167, 229-270).                                    *)
LEMMA SendStep ==
  ASSUME IInv, SenderSend
  PROVE  /\ IInv'
         /\ UNCHANGED <<accepted, draining>>
         /\ \/ UNCHANGED <<Settled, sent>>
            \/ /\ Settled + 1 \in 1 .. accepted
               /\ sent' = Append(sent, Settled + 1)
               /\ Settled' \in {Settled, Settled + 1}
<1> DEFINE k == Settled + 1
           S == 1 .. accepted
<1>1. /\ wpc = "send" /\ batch # << >>
      /\ UNCHANGED <<draining, ctxDone, qclosed, mq, closepc, queue, accepted, gaveUp>>
  BY DEF SenderSend, IInv, Positions, ctrlVars
<1>2. /\ accepted \in Nat /\ Len(queue) \in Nat /\ Len(batch) \in Nat /\ Settled \in Nat
      /\ Settled + Len(batch) + Len(queue) = accepted
      /\ QueueSize \in Nat /\ MaxEchoes \in Nat
  BY Lengths
<1>3. /\ batch \in Seq(S) /\ Len(batch) <= QueueSize /\ sent \in Seq(S)
      /\ pending \cup delivered \cup reported \subseteq S
      /\ echoes \in 0 .. MaxEchoes /\ Numbered(batch, Settled)
  BY DEF IInv, TypeOK, InOrder
<1>4. /\ Head(batch) = k /\ Head(batch) \in S
      /\ Tail(batch) \in Seq(S) /\ Len(Tail(batch)) = Len(batch) - 1
      /\ Len(batch) >= 1 /\ Numbered(Tail(batch), k)
      /\ Tail(batch) = << >> <=> Len(batch) = 1
  <2> HIDE DEF S
  <2>1. QED
    BY <1>1, <1>2, <1>3, NumberedTail
<1>5. Append(sent, k) \in Seq(S)
  <2> HIDE DEF k, S
  <2>1. QED
    BY <1>3, <1>4, AppendProperties
<1>6. pending' \cup delivered' \cup reported' \subseteq S
  <2> HIDE DEF k, S
  <2>1. QED
    BY <1>3, <1>4 DEF SenderSend, SendSync, SendAsync, Taking, outVars
<1>7. echoes' \in 0 .. MaxEchoes
  <2>1. echoes' = echoes \/ (echoes < MaxEchoes /\ echoes' = echoes + 1)
    BY DEF SenderSend, SendSync, SendAsync, Taking, outVars
  <2>2. QED
    BY <1>2, <1>3, <2>1
<1>8. pending \cup delivered \cup reported \subseteq pending' \cup delivered' \cup reported'
  BY DEF SenderSend, SendSync, SendAsync, Taking, outVars
<1>9. CASE Taking
  <2>1. /\ sent' = Append(sent, k) /\ batch' = Tail(batch)
        /\ wpc' = IF Len(batch) = 1 THEN "take" ELSE "send"
    BY <1>4, <1>9 DEF Taking
  <2>2. k \in pending' \cup delivered' \cup reported'
    <3> HIDE DEF k, S
    <3>1. wpc' # "failed"
      BY <2>1
    <3>2. QED
      BY <1>4, <3>1 DEF SenderSend, SendSync, SendAsync
  <2>3. Settled' = k
    BY <1>1, <1>2, <1>4, <2>1 DEF Settled
  <2>4. TypeOK'
    <3>1. Len(batch') <= QueueSize
      BY <1>2, <1>3, <1>4, <2>1
    <3>2. wpc' \in {"off", "sleep", "take", "send", "failed", "exited"}
      BY <2>1
    <3>3. QED
      BY <1>1, <1>4, <1>5, <1>6, <1>7, <2>1, <3>1, <3>2 DEF IInv, TypeOK
  <2>5. InOrder'
    <3>1. k + Len(Tail(batch)) = Settled + Len(batch)
      BY <1>2, <1>4
    <3>2. Settled' \in 0 .. accepted'
      BY <1>1, <1>2, <1>4, <2>3
    <3>3. QED
      BY <1>1, <1>4, <2>1, <2>3, <3>1, <3>2 DEF IInv, InOrder
  <2>6. Answered'
    <3>1. 1 .. k \subseteq 1 .. Settled \cup {k}
      BY <1>2
    <3>2. QED
      BY <1>8, <2>2, <2>3, <3>1 DEF IInv, Answered
  <2>7. Positions'
    BY <1>1, <1>4, <2>1 DEF Positions
  <2>8. QED
    BY <1>1, <1>4, <2>1, <2>3, <2>4, <2>5, <2>6, <2>7 DEF IInv
<1>10. CASE wpc' = "failed" /\ batch' = batch /\ sent' \in {sent, Append(sent, Head(batch))}
  <2>1. Settled' = Settled
    BY <1>1, <1>10 DEF Settled
  <2>2. sent' \in {sent, Append(sent, k)}
    BY <1>4, <1>10
  <2>3. TypeOK'
    BY <1>1, <1>3, <1>5, <1>6, <1>7, <1>10, <2>2 DEF IInv, TypeOK
  <2>4. InOrder' /\ Answered'
    BY <1>1, <1>8, <1>10, <2>1 DEF IInv, InOrder, Answered
  <2>5. Positions'
    BY <1>1, <1>10 DEF Positions
  <2>6. QED
    BY <1>1, <1>4, <2>1, <2>2, <2>3, <2>4, <2>5 DEF IInv
<1>11. QED
  <2>1. Taking \/ (wpc' = "failed" /\ batch' = batch /\ sent' \in {sent, Append(sent, Head(batch))})
    BY DEF SenderSend, SendSync, SendAsync, outVars
  <2>2. QED
    BY <1>9, <1>10, <2>1

(* The other steps take no message from the batch: the callers of Start and  *)
(* of Close, the answer of an asynchronous send, and the sender's decision   *)
(* after a failure (pub.go:104-131, 155-201, 252-259).                       *)
LEMMA ControlStep ==
  ASSUME IInv, \/ StartCall \/ ClientStart \/ StartRegister \/ CloseCall \/ Closer
               \/ ParentCancel \/ SenderFailed \/ (\E k \in pending : AsyncAnswer(k))
               \/ UNCHANGED vars
  PROVE  /\ IInv'
         /\ UNCHANGED <<accepted, Settled, sent>>
         /\ draining' = draining \/ draining' = TRUE
<1> USE DEF StartCall, ClientStart, StartRegister, CloseCall, Closer, CloseQueue, CloseWait,
            CloseShutdown, CloseCancel, ParentCancel, SenderFailed, AsyncAnswer,
            vars, ctrlVars, dataVars, outVars
<1>1. /\ UNCHANGED <<accepted, queue, batch, sent, echoes>>
      /\ draining' = draining \/ draining' = TRUE
  OBVIOUS
<1>2. pending' \cup delivered' \cup reported' = pending \cup delivered \cup reported
  OBVIOUS
<1>3. Settled' = Settled
  BY <1>1 DEF Settled
<1>4. InOrder' /\ Answered'
  BY <1>1, <1>2, <1>3 DEF IInv, InOrder, Answered
<1>5. TypeOK'
  <2>1. /\ draining \in BOOLEAN /\ ctxDone \in BOOLEAN /\ qclosed \in BOOLEAN /\ gaveUp \in BOOLEAN
        /\ wpc \in {"off", "sleep", "take", "send", "failed", "exited"}
        /\ mq \in {"new", "running", "shutdown"}
        /\ closepc \in {"idle", "queue", "wait", "shutdown", "cancel", "returned"}
    BY DEF IInv, TypeOK
  <2>2. /\ draining' \in BOOLEAN /\ ctxDone' \in BOOLEAN /\ qclosed' \in BOOLEAN
        /\ gaveUp' \in BOOLEAN
    BY <2>1
  <2>3. /\ wpc' \in {"off", "sleep", "take", "send", "failed", "exited"}
        /\ mq' \in {"new", "running", "shutdown"}
        /\ closepc' \in {"idle", "queue", "wait", "shutdown", "cancel", "returned"}
    BY <2>1
  <2>4. {draining, ctxDone, qclosed, gaveUp}' \subseteq BOOLEAN
    BY <2>2
  <2>5. pending' \cup delivered' \cup reported' \subseteq 1 .. accepted'
    BY <1>1, <1>2 DEF IInv, TypeOK
  <2>6. QED
    BY <1>1, <2>3, <2>4, <2>5 DEF IInv, TypeOK
<1>6. Positions'
  BY <1>1 DEF IInv, TypeOK, Positions
<1>7. QED
  BY <1>1, <1>3, <1>4, <1>5, <1>6 DEF IInv

(* The invariant holds in every reachable state.                             *)
THEOREM Invariance == Spec => []IInv
<1>1. Init => IInv
  BY InitInv
<1>2. IInv /\ [Next]_vars => IInv'
  BY PublishStep, TakeStep, SendStep, ControlStep DEF Next, Sender, Terminating
<1>3. QED
  BY <1>1, <1>2, PTL DEF Spec

(* The queue, the sender's buffer and the answers are about accepted         *)
(* messages only, within their bounds (pub.go:74, 132).                      *)
THEOREM TypeCorrect == Spec => []TypeOK
<1>1. IInv => TypeOK
  BY DEF IInv
<1>2. QED
  BY <1>1, Invariance, PTL

(* No message is dropped in silence, in either sending mode                  *)
(* (pub.go:133-138, 235-241, 252-265).                                       *)
THEOREM NoSilentDropHolds == Spec => []NoSilentDrop
<1>1. ASSUME IInv PROVE NoSilentDrop
  <2>1. ASSUME wpc = "exited", ~gaveUp
        PROVE  Settled = accepted
    <3>1. batch = << >> /\ queue = << >>
      BY <1>1, <2>1 DEF IInv, Positions
    <3>2. Len(batch) = 0 /\ Len(queue) = 0
      BY <3>1
    <3>3. QED
      BY <1>1, <3>2, Lengths
  <2>2. QED
    BY <1>1, <2>1 DEF NoSilentDrop, IInv, Answered
<1>2. QED
  BY <1>1, Invariance, PTL

(* One message is a batch.                                                   *)
LEMMA BatchOfOne ==
  ASSUME NEW k \in Promise!Current
  PROVE  <<k>> \in Promise!Batches /\ k \in Promise!Range(<<k>>)
<1>1. <<k>> \in [1 .. 1 -> Promise!Current] /\ <<k>>[1] = k /\ DOMAIN <<k>> = 1 .. 1
  OBVIOUS
<1>2. 1 \in 0 .. 1 /\ 1 \in 1 .. 1 /\ \A i, j \in 1 .. 1 : ~ i < j
  OBVIOUS
<1>3. <<k>> \in UNION {[1 .. n -> Promise!Current] : n \in 0 .. 1}
  BY <1>1, <1>2
<1>4. QED
  BY <1>1, <1>2, <1>3 DEF Promise!Batches, Promise!Range

(* The producer keeps the promise of Outbox, one message at a time, also     *)
(* when Close changes the sending mode under way (pub.go:140-167).           *)
THEOREM KeepsPromiseHolds == Spec => KeepsPromise
<1>1. Init => Promise!Init
  BY InitInv DEF Init, Promise!Init
<1>2. ASSUME IInv, [Next]_vars
      PROVE  [Promise!Next]_(Promise!outVars)
  <2>1. CASE Publish
    <3>1. accepted \in Nat /\ accepted' = accepted + 1 /\ UNCHANGED <<Settled, sent, draining>>
      BY <1>2, <2>1, PublishStep, Lengths
    <3>2. Promise!Accept
      BY <3>1 DEF Promise!Accept
    <3>3. QED
      BY <3>2 DEF Promise!Next
  <2>2. CASE SenderTake
    <3>1. UNCHANGED <<accepted, Settled, sent, draining>>
      BY <1>2, <2>2, TakeStep
    <3>2. QED
      BY <3>1 DEF Promise!outVars
  <2>3. CASE SenderSend
    <3>1. UNCHANGED <<accepted, draining>>
      BY <1>2, <2>3, SendStep
    <3>2. CASE UNCHANGED <<Settled, sent>>
      BY <3>1, <3>2 DEF Promise!outVars
    <3>3. CASE /\ Settled + 1 \in 1 .. accepted /\ sent' = Append(sent, Settled + 1)
               /\ Settled' \in {Settled, Settled + 1}
      <4> DEFINE k == Settled + 1
      <4>1. accepted \in Nat /\ Settled \in Nat /\ sent \in Seq(1 .. accepted)
        BY <1>2, Lengths DEF IInv, TypeOK
      <4>2. k \in Promise!Current
        BY <3>3, <4>1 DEF Promise!Current
      <4>3. Settled + 1 .. Settled' \subseteq {k}
        BY <3>3, <4>1
      <4>4. sent' = sent \o <<k>>
        BY <3>3, <4>1
      <4>5. Promise!Attempt(<<k>>, Settled')
        BY <3>1, <4>2, <4>3, <4>4, BatchOfOne DEF Promise!Attempt
      <4>6. Settled' \in {Settled} \cup Promise!Current
        BY <3>3, <4>2
      <4>7. QED
        BY <4>2, <4>5, <4>6, BatchOfOne DEF Promise!Next
    <3>4. QED
      BY <1>2, <2>3, <3>2, <3>3, SendStep
  <2>4. CASE \/ StartCall \/ ClientStart \/ StartRegister \/ CloseCall \/ Closer
             \/ ParentCancel \/ SenderFailed \/ (\E k \in pending : AsyncAnswer(k))
             \/ UNCHANGED vars
    <3>1. UNCHANGED <<accepted, Settled, sent>> /\ (draining' = draining \/ draining' = TRUE)
      BY <1>2, <2>4, ControlStep
    <3>2. QED
      BY <3>1 DEF Promise!Next, Promise!Close, Promise!outVars
  <2>5. QED
    BY <1>2, <2>1, <2>2, <2>3, <2>4 DEF Next, Sender, Terminating
<1>3. QED
  BY <1>1, <1>2, Invariance, PTL DEF Spec, KeepsPromise, Promise!Spec

-----------------------------------------------------------------------------
(* RocketPushConsumer                                                        *)

\* Messages the consumer has taken charge of.
Kept == handled \cup InFlight

(* A callback holds its delivery until it looks at draining; then the        *)
(* messages it has not enqueued yet.  Deliveries under way share no message, *)
(* and nothing of them has been given back.                                  *)
Deliveries ==
  /\ hand \in [Callbacks -> Seq(1 .. numDelivered)]
  /\ got \in [Callbacks -> SUBSET (1 .. numDelivered)]
  /\ \A c \in Callbacks :
       /\ cbpc[c] = "check" => Elements(hand[c]) = got[c] /\ got[c] \cap Kept = {}
       /\ cbpc[c] = "enqueue" /\ ~qclosed => got[c] \subseteq Elements(hand[c]) \cup Kept
       /\ cbpc[c] # "idle" =>
            /\ got[c] \cap refused = {}
            /\ \A d \in Callbacks \ {c} : cbpc[d] # "idle" => got[c] \cap got[d] = {}

(* SyncSubscribe has one message in its buffer while its loop handles one,   *)
(* and none when it looks at the queue.                                      *)
PushBatchHandledFirst ==
  /\ mainpc \notin {"handle", "finish"} => batch = << >>
  /\ mainpc = "handle" => Len(batch) = 1

(* A closed queue does not grow, so the drain empties it.                    *)
ClosedBeforeDrain ==
  /\ wasClosed => qclosed
  /\ wasClosed /\ mainpc = "drain" => remainLen = Len(queue)
  /\ wasClosed /\ mainpc \in {"finish", "returned"} => queue = << >>

PushIInv ==
  /\ PushTypeOK /\ Deliveries /\ PushBatchHandledFirst /\ ClosedBeforeDrain /\ BrokerAgrees
-----------------------------------------------------------------------------
(* The types, in the words the proofs use.                                   *)
LEMMA PushTypes ==
  ASSUME PushIInv
  PROVE  /\ numDelivered \in Nat /\ MaxMessages \in Nat /\ ChanSize \in Nat /\ ChanSize # 0
         /\ queue \in Seq(1 .. numDelivered) /\ Len(queue) \in Nat
         /\ batch \in Seq(1 .. numDelivered) /\ Len(batch) \in Nat
         /\ cbpc \in [Callbacks -> {"idle", "check", "enqueue"}]
         /\ Kept \subseteq 1 .. numDelivered
<1>1. /\ MaxMessages \in Nat /\ ChanSize \in Nat /\ ChanSize # 0
  BY PushConsumerAssumption DEF PushConsumerAssumption
<1>2. /\ numDelivered \in 0 .. MaxMessages
      /\ queue \in Seq(1 .. numDelivered) /\ batch \in Seq(1 .. numDelivered)
      /\ cbpc \in [Callbacks -> {"idle", "check", "enqueue"}]
      /\ handled \subseteq 1 .. numDelivered
      /\ Len(queue) \in Nat /\ Len(batch) \in Nat
  BY DEF PushIInv, PushTypeOK
<1>3. Elements(queue) \subseteq 1 .. numDelivered /\ Elements(batch) \subseteq 1 .. numDelivered
  BY <1>2, ElementsAreMessages
<1>4. numDelivered \in Nat
  BY <1>1, <1>2
<1>5. QED
  BY <1>1, <1>2, <1>3, <1>4 DEF Kept, InFlight

(* NewPushConsumer starts with nothing delivered (sub.go:34-146).            *)
LEMMA PushInitInv == PushInit => PushIInv
<1> SUFFICES ASSUME PushInit PROVE PushIInv
  OBVIOUS
<1>1. /\ MaxMessages \in Nat /\ ChanSize \in Nat
  BY PushConsumerAssumption DEF PushConsumerAssumption
<1>2. \A c \in Callbacks : hand[c] = << >> /\ got[c] = {} /\ cbpc[c] = "idle"
  BY DEF PushInit
<1>3. << >> \in Seq(1 .. 0) /\ Len(<< >>) = 0 /\ Elements(<< >>) = {} /\ << >> \in Seq({})
  BY ElementsOfEmpty
<1>4. PushTypeOK
  <2>1. cbpc \in [Callbacks -> {"idle", "check", "enqueue"}]
    BY DEF PushInit
  <2>2. \A c \in Callbacks : hand[c] \in Seq(got[c]) /\ got[c] \subseteq 1 .. numDelivered
    BY <1>2, <1>3
  <2>3. /\ numDelivered \in 0 .. MaxMessages /\ remainLen \in 0 .. ChanSize
        /\ Len(queue) <= ChanSize /\ Len(batch) <= ChanSize
    BY <1>1, <1>3 DEF PushInit
  <2>4. queue \in Seq(1 .. numDelivered) /\ batch \in Seq(1 .. numDelivered)
    BY <1>3 DEF PushInit
  <2>5. QED
    BY <2>1, <2>2, <2>3, <2>4 DEF PushInit, PushTypeOK
<1>5. Deliveries
  <2>1. hand \in [Callbacks -> Seq(1 .. numDelivered)]
    BY <1>3 DEF PushInit
  <2>2. got \in [Callbacks -> SUBSET (1 .. numDelivered)]
    BY DEF PushInit
  <2>3. QED
    BY <1>2, <2>1, <2>2 DEF Deliveries
<1>6. BrokerAgrees /\ PushBatchHandledFirst /\ ClosedBeforeDrain
  BY DEF PushInit, BrokerAgrees, PushBatchHandledFirst, ClosedBeforeDrain
<1>7. QED
  BY <1>4, <1>5, <1>6 DEF PushIInv

(* A step that touches neither the deliveries nor what became of them.       *)
LEMMA DeliveriesStill ==
  ASSUME PushIInv, UNCHANGED <<cbVars, numDelivered, confirmed, refused>>, Kept' = Kept,
         qclosed => qclosed'
  PROVE  Deliveries' /\ BrokerAgrees'
<1>1. Deliveries'
  BY DEF PushIInv, Deliveries, cbVars
<1>2. Kept = handled \cup InFlight /\ Kept' = handled' \cup InFlight'
  BY DEF Kept
<1>3. BrokerAgrees'
  BY <1>2 DEF PushIInv, BrokerAgrees
<1>4. QED
  BY <1>1, <1>3

(* The steps of SyncSubscribe that move no message                           *)
(* (sub.go:152-188, 191-211).                                                *)
LEMMA PushMainQuietStep ==
  ASSUME PushIInv, PushMainStart \/ PushLoopStop \/ PushLoopTurn \/ PushMainRemain \/ PushMainReturn
                 \/ (PushLoopTake /\ UNCHANGED <<queue, batch>>)
  PROVE  PushIInv'
<1>1. /\ UNCHANGED <<draining, ctxDone, mq, queue, qclosed, cbVars, batch, closepc,
                     brokerVars, handled>>
  BY DEF PushMainStart, PushLoopStop, PushLoopTurn, PushLoopTake, LeaveLoop, PushMainRemain,
       PushMainReturn
<1>2. Deliveries' /\ BrokerAgrees'
  <2>1. Kept' = Kept
    BY <1>1 DEF Kept, InFlight
  <2>2. QED
    BY <1>1, <2>1, DeliveriesStill DEF brokerVars
<1>3. Len(queue) \in 0 .. ChanSize
  <2>1. Len(queue) <= ChanSize
    BY DEF PushIInv, PushTypeOK
  <2>2. QED
    BY <2>1, PushTypes
<1>4. /\ mainpc' \in {"spawned", "loop", "look", "handle", "unsubscribe", "drain", "finish",
                      "returned"}
      /\ remainLen' \in 0 .. ChanSize /\ wasClosed' \in BOOLEAN
  BY <1>3 DEF PushIInv, PushTypeOK, PushMainStart, PushLoopStop, PushLoopTurn, PushLoopTake,
       LeaveLoop, PushMainRemain, PushMainReturn
<1>5. PushTypeOK'
  BY <1>1, <1>4 DEF PushIInv, PushTypeOK, cbVars, brokerVars
<1>6. PushBatchHandledFirst'
  <2>1. CASE PushLoopTake
    <3>1. batch = << >>
      BY <2>1 DEF PushIInv, PushBatchHandledFirst, PushLoopTake
    <3>2. mainpc' # "handle"
      <4>1. ASSUME batch' = Taken(queue, 1), queue # << >>
            PROVE  FALSE
        <5>1. batch' # << >>
          BY <4>1, PushTypes, TakenThenLeft
        <5>2. QED
          BY <1>1, <3>1, <5>1
      <4>2. QED
        BY <2>1, <4>1 DEF PushLoopTake, LeaveLoop
    <3>3. QED
      BY <1>1, <3>1, <3>2 DEF PushBatchHandledFirst
  <2>2. CASE ~PushLoopTake
    BY <1>1, <2>2 DEF PushIInv, PushBatchHandledFirst, PushMainStart, PushLoopStop,
         PushLoopTurn, LeaveLoop, PushMainRemain, PushMainReturn
  <2>3. QED
    BY <2>1, <2>2
<1>7. ClosedBeforeDrain'
  BY <1>1 DEF PushIInv, ClosedBeforeDrain, PushMainStart, PushLoopStop, PushLoopTurn,
       PushLoopTake, LeaveLoop, PushMainRemain, PushMainReturn
<1>8. QED
  BY <1>2, <1>5, <1>6, <1>7 DEF PushIInv

(* The steps of Close, of the client and of the parent                       *)
(* (sub.go:163-176, 214-234).                                                *)
LEMMA PushCloserStep ==
  ASSUME PushIInv, PushCloser \/ PushCloseCall \/ PushClientStart \/ PushParentCancel
  PROVE  PushIInv'
<1>1. UNCHANGED <<queue, cbVars, pushMainVars, brokerVars, handled>> /\ (qclosed => qclosed')
  BY DEF PushCloser, PushCloseCall, PushClientStart, PushParentCancel, PushCloseQueue,
       PushCloseShutdown, PushCloseReturn
<1>2. Deliveries' /\ BrokerAgrees'
  <2>1. Kept' = Kept
    BY <1>1 DEF Kept, InFlight, pushMainVars
  <2>2. QED
    BY <1>1, <2>1, DeliveriesStill DEF brokerVars
<1>3. PushTypeOK'
  <2>1. /\ {draining, ctxDone, qclosed}' \subseteq BOOLEAN
        /\ mq' \in {"new", "running", "failed", "shutdown"}
        /\ closepc' \in {"idle", "queue", "shutdown", "wait", "returned"}
    BY DEF PushIInv, PushTypeOK, PushCloser, PushCloseCall, PushClientStart,
         PushParentCancel, PushCloseQueue, PushCloseShutdown, PushCloseReturn
  <2>2. QED
    BY <1>1, <2>1 DEF PushIInv, PushTypeOK, cbVars, pushMainVars, brokerVars
<1>4. PushBatchHandledFirst' /\ ClosedBeforeDrain'
  BY <1>1 DEF PushIInv, PushBatchHandledFirst, ClosedBeforeDrain, pushMainVars
<1>5. QED
  BY <1>2, <1>3, <1>4 DEF PushIInv

(* The two dequeues: the loop's of one message and the drain's of as many as *)
(* it read (sub.go:181-188, 199-200).                                        *)
LEMMA PushTakeStep ==
  ASSUME PushIInv, (PushLoopTake /\ ~UNCHANGED <<queue, batch>>) \/ PushMainDrain
  PROVE  PushIInv'
<1>1. /\ UNCHANGED <<draining, ctxDone, mq, qclosed, cbVars, remainLen, wasClosed, closepc,
                     brokerVars, handled>>
      /\ batch = << >> /\ 1 \in 0 .. ChanSize /\ remainLen \in 0 .. ChanSize
  BY PushTypes DEF PushIInv, PushTypeOK, PushBatchHandledFirst, PushLoopTake, LeaveLoop,
       PushMainDrain
<1>2. PICK n \in 0 .. ChanSize :
        /\ batch' = Taken(queue, n) /\ queue' = Left(queue, n)
        /\ \/ mainpc' = "handle" /\ n = 1 /\ queue # << >>
           \/ mainpc = "drain" /\ mainpc' = "finish" /\ n = remainLen
  BY <1>1 DEF PushLoopTake, LeaveLoop, PushMainDrain
<1>3. /\ queue \in Seq(1 .. numDelivered) /\ Len(queue) \in Nat /\ Len(queue) <= ChanSize
      /\ ChanSize \in Nat /\ n \in Nat /\ n <= ChanSize
  BY PushTypes DEF PushIInv, PushTypeOK
<1>4. /\ batch' \in Seq(1 .. numDelivered) /\ queue' \in Seq(1 .. numDelivered)
      /\ Elements(queue) = Elements(batch') \cup Elements(queue')
      /\ Len(batch') <= n /\ Len(queue') <= Len(queue)
      /\ Len(batch') \in Nat /\ Len(queue') \in Nat
      /\ Len(batch') + Len(queue') = Len(queue)
      /\ queue # << >> /\ n # 0 => batch' # << >>
  BY <1>2, <1>3, TakenAndLeft, TakenThenLeft
<1>5. PushTypeOK'
  <2>1. /\ Len(batch') <= ChanSize /\ Len(queue') <= ChanSize
        /\ batch' \in Seq(1 .. numDelivered') /\ queue' \in Seq(1 .. numDelivered')
    BY <1>1, <1>3, <1>4 DEF brokerVars
  <2>2. mainpc' \in {"handle", "finish"}
    BY <1>2
  <2>3. QED
    BY <1>1, <2>1, <2>2 DEF PushIInv, PushTypeOK, cbVars, brokerVars
<1>6. Deliveries' /\ BrokerAgrees'
  <2>1. Kept' = Kept
    BY <1>1, <1>4, ElementsOfEmpty DEF Kept, InFlight
  <2>2. QED
    BY <1>1, <2>1, DeliveriesStill DEF brokerVars
<1>7. PushBatchHandledFirst'
  <2>1. mainpc' = "handle" => Len(batch') = 1
    <3>1. batch' # << >> => Len(batch') # 0
      BY <1>4, EmptySeq
    <3>2. ASSUME n = 1, queue # << >>
          PROVE  Len(batch') = 1
      <4>1. Len(batch') <= 1 /\ Len(batch') \in Nat /\ Len(batch') # 0
        BY <1>4, <3>1, <3>2
      <4>2. \A k \in Nat : k <= 1 /\ k # 0 => k = 1
        OBVIOUS
      <4>3. QED
        BY <4>1, <4>2
    <3>3. mainpc' = "handle" => n = 1 /\ queue # << >>
      BY <1>2
    <3>4. QED
      BY <3>2, <3>3
  <2>2. QED
    BY <1>2, <2>1 DEF PushBatchHandledFirst
<1>8. ClosedBeforeDrain'
  <2>1. mainpc' = "handle" => ClosedBeforeDrain'
    BY <1>1 DEF PushIInv, ClosedBeforeDrain
  <2>2. ASSUME wasClosed, mainpc = "drain", n = remainLen
        PROVE  queue' = << >>
    <3>1. n = Len(queue)
      BY <2>2 DEF PushIInv, ClosedBeforeDrain
    <3>2. Left(queue, n) = SubSeq(queue, Len(queue) + 1, Len(queue))
      BY <1>3, <3>1 DEF Left
    <3>3. Len(queue') = 0
      BY <1>2, <1>3, <3>2
    <3>4. QED
      BY <1>4, <3>3, EmptySeq
  <2>3. mainpc' = "finish" => ClosedBeforeDrain'
    BY <1>1, <1>2, <2>2 DEF PushIInv, ClosedBeforeDrain
  <2>4. QED
    BY <1>2, <2>1, <2>3
<1>9. QED
  BY <1>5, <1>6, <1>7, <1>8 DEF PushIInv

(* The application gets the oldest message (sub.go:181-182, 202-204).        *)
LEMMA PushHandleStep ==
  ASSUME PushIInv, PushLoopHandle \/ PushMainHandle
  PROVE  PushIInv'
<1>1. /\ UNCHANGED <<draining, ctxDone, mq, queue, qclosed, cbVars, remainLen, wasClosed,
                     closepc, brokerVars>>
      /\ handled' = handled \cup {Head(batch)} /\ batch' = Tail(batch)
      /\ \/ mainpc = "handle" /\ mainpc' = "loop" /\ Len(batch) = 1
         \/ mainpc = "finish" /\ mainpc' = "finish" /\ batch # << >>
  BY DEF PushIInv, PushBatchHandledFirst, PushLoopHandle, PushMainHandle, PushHandle
<1>2. /\ batch \in Seq(1 .. numDelivered) /\ Len(batch) <= ChanSize /\ Len(batch) \in Nat
      /\ ChanSize \in Nat /\ handled \subseteq 1 .. numDelivered
  BY PushTypes DEF PushIInv, PushTypeOK
<1>3. batch # << >>
  BY <1>1, <1>2
<1>4. /\ Head(batch) \in 1 .. numDelivered /\ Tail(batch) \in Seq(1 .. numDelivered)
      /\ Elements(batch) = Elements(Tail(batch)) \cup {Head(batch)}
      /\ Len(Tail(batch)) = Len(batch) - 1
  BY <1>2, <1>3, HeadAndTail
<1>5. PushTypeOK'
  <2>1. batch' \in Seq(1 .. numDelivered) /\ Len(batch') <= ChanSize
    BY <1>1, <1>2, <1>4
  <2>2. handled' \subseteq 1 .. numDelivered /\ mainpc' \in {"loop", "finish"}
    BY <1>1, <1>2, <1>4
  <2>3. QED
    BY <1>1, <2>1, <2>2 DEF PushIInv, PushTypeOK, cbVars, brokerVars
<1>6. Deliveries' /\ BrokerAgrees'
  <2>1. Kept' = Kept
    BY <1>1, <1>4 DEF Kept, InFlight
  <2>2. QED
    BY <1>1, <2>1, DeliveriesStill DEF brokerVars
<1>7. PushBatchHandledFirst'
  <2>1. Len(batch) = 1 => batch' = << >>
    <3>1. Len(batch) = 1 => Len(batch') = 0
      BY <1>1, <1>4
    <3>2. QED
      BY <1>1, <1>4, <3>1, EmptySeq
  <2>2. QED
    BY <1>1, <2>1 DEF PushBatchHandledFirst
<1>8. ClosedBeforeDrain'
  BY <1>1 DEF PushIInv, ClosedBeforeDrain
<1>9. QED
  BY <1>5, <1>6, <1>7, <1>8 DEF PushIInv

\* Everything but the callbacks and what they fill.
pushOtherVars == <<draining, ctxDone, mq, qclosed, pushMainVars, closepc, handled>>

(* What the callback of one thread may do to its delivery without the others *)
(* noticing.                                                                 *)
LEMMA CallbackStep ==
  ASSUME PushIInv, NEW c \in Callbacks, NEW p \in {"idle", "check", "enqueue"},
         NEW D \in Nat, numDelivered <= D, D <= MaxMessages, numDelivered' = D,
         NEW h \in Seq(1 .. D), NEW g \in SUBSET (1 .. D), h \in Seq(g),
         cbpc' = [cbpc EXCEPT ![c] = p], hand' = [hand EXCEPT ![c] = h],
         got' = [got EXCEPT ![c] = g], UNCHANGED pushOtherVars,
         queue' \in Seq(1 .. D), Len(queue') <= ChanSize,
         confirmed' \cup refused' \subseteq 1 .. D,
         p = "check" => Elements(h) = g /\ g \cap Kept' = {},
         p = "enqueue" /\ ~qclosed => g \subseteq Elements(h) \cup Kept',
         p # "idle" => g \cap refused' = {},
         \A d \in Callbacks \ {c} : cbpc[d] # "idle" =>
           /\ p # "idle" => g \cap got[d] = {}
           /\ got[d] \cap refused' = {}
           /\ got[d] \cap Kept' \subseteq got[d] \cap Kept,
         Kept \subseteq Kept', BrokerAgrees',
         qclosed => queue' = queue
  PROVE  PushIInv'
<1>1. /\ hand \in [Callbacks -> Seq(1 .. numDelivered)]
      /\ got \in [Callbacks -> SUBSET (1 .. numDelivered)]
      /\ cbpc \in [Callbacks -> {"idle", "check", "enqueue"}]
      /\ numDelivered \in Nat /\ MaxMessages \in Nat
  BY PushTypes DEF PushIInv, Deliveries
<1>2. /\ cbpc[c]' = p /\ hand[c]' = h /\ got[c]' = g
      /\ \A d \in Callbacks \ {c} :
           cbpc[d]' = cbpc[d] /\ hand[d]' = hand[d] /\ got[d]' = got[d]
  BY <1>1
<1>3. 1 .. numDelivered \subseteq 1 .. D
  BY <1>1
<1>4. \A d \in Callbacks \ {c} : hand[d] \in Seq(1 .. D) /\ got[d] \subseteq 1 .. D
  BY <1>1, <1>3, WiderSeq
<1>5. hand' \in [Callbacks -> Seq(1 .. D)] /\ got' \in [Callbacks -> SUBSET (1 .. D)]
  <2>1. \A d \in Callbacks : hand'[d] \in Seq(1 .. D) /\ got'[d] \in SUBSET (1 .. D)
    BY <1>2, <1>4
  <2>2. hand' = [d \in Callbacks |-> hand'[d]] /\ got' = [d \in Callbacks |-> got'[d]]
    BY <1>1
  <2>3. QED
    BY <2>1, <2>2
<1>6. PushTypeOK'
  <2>1. cbpc' \in [Callbacks -> {"idle", "check", "enqueue"}]
    BY <1>1
  <2>2. \A d \in Callbacks : hand'[d] \in Seq(got'[d]) /\ got'[d] \subseteq 1 .. D
    BY <1>2, <1>4 DEF PushIInv, PushTypeOK
  <2>3. batch' \in Seq(1 .. D) /\ Len(batch') <= ChanSize
    BY <1>3, WiderSeq DEF PushIInv, PushTypeOK, pushOtherVars, pushMainVars
  <2>4. confirmed' \cup refused' \cup handled' \subseteq 1 .. D
    BY <1>3 DEF PushIInv, PushTypeOK, pushOtherVars
  <2>5. numDelivered' \in 0 .. MaxMessages
    BY <1>1
  <2>6. QED
    BY <2>1, <2>2, <2>3, <2>4, <2>5 DEF PushIInv, PushTypeOK, pushOtherVars, pushMainVars
<1>7. Deliveries'
  <2>1. qclosed' = qclosed
    BY DEF pushOtherVars
  <2>2. \A d \in Callbacks \ {c} :
          /\ cbpc[d] = "check" => Elements(hand[d]) = got[d] /\ got[d] \cap Kept' = {}
          /\ cbpc[d] = "enqueue" /\ ~qclosed => got[d] \subseteq Elements(hand[d]) \cup Kept'
          /\ cbpc[d] # "idle" =>
               /\ got[d] \cap refused' = {}
               /\ \A e \in Callbacks \ {d} : cbpc[e] # "idle" => got[d] \cap got[e] = {}
    BY DEF PushIInv, Deliveries
  <2>3. ASSUME NEW d \in Callbacks
        PROVE  /\ cbpc'[d] = "check" => Elements(hand'[d]) = got'[d] /\ got'[d] \cap Kept' = {}
               /\ cbpc'[d] = "enqueue" /\ ~qclosed' =>
                    got'[d] \subseteq Elements(hand'[d]) \cup Kept'
               /\ cbpc'[d] # "idle" =>
                    /\ got'[d] \cap refused' = {}
                    /\ \A e \in Callbacks \ {d} : cbpc'[e] # "idle" => got'[d] \cap got'[e] = {}
    <3>1. CASE d = c
      <4>1. /\ p = "check" => Elements(h) = g /\ g \cap Kept' = {}
            /\ p = "enqueue" /\ ~qclosed' => g \subseteq Elements(h) \cup Kept'
            /\ p # "idle" =>
                 /\ g \cap refused' = {}
                 /\ \A e \in Callbacks \ {c} : cbpc'[e] # "idle" => g \cap got'[e] = {}
        BY <1>2, <2>1
      <4>2. QED
        BY <1>2, <3>1, <4>1
    <3>2. CASE d # c
      <4>1. ASSUME NEW e \in Callbacks \ {d}, cbpc'[d] # "idle", cbpc'[e] # "idle"
            PROVE  got'[d] \cap got'[e] = {}
        <5>1. CASE e = c
          <6>1. g \cap got[d] = {}
            BY <1>2, <3>2, <4>1, <5>1
          <6>2. QED
            BY <1>2, <3>2, <5>1, <6>1
        <5>2. CASE e # c
          BY <1>2, <2>2, <3>2, <4>1, <5>2
        <5>3. QED
          BY <5>1, <5>2
      <4>2. cbpc'[d] = cbpc[d] /\ hand'[d] = hand[d] /\ got'[d] = got[d]
        BY <1>2, <3>2
      <4>3. /\ cbpc[d] = "check" => Elements(hand[d]) = got[d] /\ got[d] \cap Kept' = {}
            /\ cbpc[d] = "enqueue" /\ ~qclosed => got[d] \subseteq Elements(hand[d]) \cup Kept'
            /\ cbpc[d] # "idle" => got[d] \cap refused' = {}
        BY <2>2, <3>2
      <4>4. QED
        BY <2>1, <4>1, <4>2, <4>3
    <3>3. QED
      BY <3>1, <3>2
  <2>4. QED
    BY <1>5, <2>3 DEF Deliveries
<1>8. PushBatchHandledFirst' /\ ClosedBeforeDrain'
  BY DEF PushIInv, PushBatchHandledFirst, ClosedBeforeDrain, pushOtherVars, pushMainVars
<1>9. QED
  BY <1>6, <1>7, <1>8 DEF PushIInv

(* What a callback thread knows of its delivery.                             *)
LEMMA CallbackTypes ==
  ASSUME PushIInv, NEW c \in Callbacks
  PROVE  /\ hand[c] \in Seq(got[c]) /\ hand[c] \in Seq(1 .. numDelivered)
         /\ got[c] \in SUBSET (1 .. numDelivered)
         /\ Elements(hand[c]) \subseteq got[c]
         /\ hand \in [Callbacks -> Seq(1 .. numDelivered)]
         /\ got \in [Callbacks -> SUBSET (1 .. numDelivered)]
         /\ confirmed \cup refused \subseteq 1 .. numDelivered
         /\ numDelivered \in Nat /\ numDelivered <= numDelivered /\ numDelivered <= MaxMessages
         /\ Len(queue) <= ChanSize
<1>1. /\ hand[c] \in Seq(got[c]) /\ numDelivered \in 0 .. MaxMessages
      /\ confirmed \cup refused \subseteq 1 .. numDelivered /\ Len(queue) <= ChanSize
  BY DEF PushIInv, PushTypeOK
<1>2. /\ hand \in [Callbacks -> Seq(1 .. numDelivered)]
      /\ got \in [Callbacks -> SUBSET (1 .. numDelivered)]
  BY DEF PushIInv, Deliveries
<1>3. Elements(hand[c]) \subseteq got[c]
  BY <1>1, ElementsAreMessages
<1>4. MaxMessages \in Nat
  BY PushTypes
<1>5. numDelivered \in Nat /\ numDelivered <= numDelivered /\ numDelivered <= MaxMessages
  BY <1>1, <1>4
<1>6. hand[c] \in Seq(1 .. numDelivered) /\ got[c] \in SUBSET (1 .. numDelivered)
  BY <1>2
<1>7. QED
  BY <1>1, <1>2, <1>3, <1>5, <1>6

(* BrokerAgrees, in the words of the proofs.                                 *)
LEMMA BrokerKept ==
  BrokerAgrees <=> (~qclosed => confirmed \subseteq Kept) /\ refused \cap Kept = {}
BY DEF BrokerAgrees, Kept

(* A delivery is new: nothing of it is known yet (sub.go:114-118).           *)
LEMMA DeliverStep ==
  ASSUME PushIInv, NEW c \in Callbacks, NEW n \in 1 .. MaxBatch, Deliver(c, n)
  PROVE  PushIInv'
<1> DEFINE D == numDelivered + n
           h == [i \in 1 .. n |-> numDelivered + i]
           g == numDelivered + 1 .. numDelivered + n
<1>1. /\ numDelivered' = D /\ cbpc' = [cbpc EXCEPT ![c] = "check"]
      /\ hand' = [hand EXCEPT ![c] = h] /\ got' = [got EXCEPT ![c] = g]
      /\ UNCHANGED <<pushOtherVars, queue, confirmed, refused>> /\ D <= MaxMessages
  BY DEF Deliver, pushOtherVars
<1>2. numDelivered \in Nat /\ n \in Nat /\ n >= 1
  BY PushTypes, PushConsumerAssumption DEF PushConsumerAssumption
<1>3. D \in Nat /\ numDelivered <= D /\ g \in SUBSET (1 .. D) /\ 1 .. numDelivered \subseteq 1 .. D
  BY <1>2
<1>4. h \in Seq(g) /\ Len(h) = n /\ \A i \in 1 .. n : h[i] = numDelivered + i
  <2>1. \A i \in 1 .. n : numDelivered + i \in g
    BY <1>2
  <2>2. QED
    BY <1>2, <2>1
<1>5. \A x : x \in g <=> \E i \in 1 .. n : numDelivered + i = x
  <2>1. ASSUME NEW x \in g
        PROVE  \E i \in 1 .. n : numDelivered + i = x
    <3>1. x - numDelivered \in 1 .. n /\ numDelivered + (x - numDelivered) = x
      BY <1>2
    <3>2. QED
      BY <3>1
  <2>2. QED
    BY <1>2, <2>1
<1>6. Elements(h) = g
  <2> HIDE DEF h, g
  <2>1. \A x : x \in Elements(h) <=> \E i \in 1 .. Len(h) : h[i] = x
    BY <1>4, ElementPosition
  <2>2. \A x : x \in Elements(h) <=> \E i \in 1 .. n : numDelivered + i = x
    BY <1>4, <2>1
  <2>3. QED
    BY <1>5, <2>2
<1>7. g \cap 1 .. numDelivered = {}
  BY <1>2
<1>8. /\ Kept' = Kept /\ Kept \subseteq 1 .. numDelivered /\ refused \subseteq 1 .. numDelivered
      /\ \A d \in Callbacks : got[d] \subseteq 1 .. numDelivered
      /\ confirmed \subseteq 1 .. numDelivered
  BY <1>1, PushTypes, CallbackTypes DEF Kept, InFlight, pushOtherVars, pushMainVars
<1>9. BrokerAgrees'
  BY <1>1, <1>8, BrokerKept DEF PushIInv, BrokerAgrees, Kept, pushOtherVars
<1>10. \A d \in Callbacks \ {c} : cbpc[d] # "idle" => got[d] \cap refused' = {}
  BY <1>1 DEF PushIInv, Deliveries
<1>11. queue' \in Seq(1 .. D) /\ Len(queue') <= ChanSize
  BY <1>1, <1>3, PushTypes, CallbackTypes, WiderSeq
<1> HIDE DEF D, h, g
<1>12. h \in Seq(1 .. D) /\ confirmed' \cup refused' \subseteq 1 .. D
  BY <1>1, <1>3, <1>4, <1>8, WiderSeq
<1>13. \A d \in Callbacks \ {c} : cbpc[d] # "idle" =>
           /\ g \cap got[d] = {}
           /\ got[d] \cap refused' = {}
           /\ got[d] \cap Kept' \subseteq got[d] \cap Kept
  BY <1>7, <1>8, <1>10
<1>14. g \cap Kept' = {} /\ g \cap refused' = {}
  BY <1>1, <1>7, <1>8
<1>15. (qclosed => queue' = queue) /\ Kept \subseteq Kept'
  BY <1>1, <1>8
<1>16. QED
  BY <1>1, <1>3, <1>4, <1>6, <1>9, <1>11, <1>12, <1>13, <1>14, <1>15, CallbackStep

(* The look at draining: the delivery is given back whole, or its messages   *)
(* will be enqueued (sub.go:119-122).                                        *)
LEMMA CallbackCheckStep ==
  ASSUME PushIInv, NEW c \in Callbacks, CallbackCheck(c)
  PROVE  PushIInv'
<1>1. /\ cbpc[c] = "check" /\ UNCHANGED <<pushOtherVars, queue, got, numDelivered, confirmed>>
      /\ \/ /\ cbpc' = [cbpc EXCEPT ![c] = "idle"] /\ hand' = [hand EXCEPT ![c] = << >>]
            /\ refused' = refused \cup got[c]
         \/ /\ cbpc' = [cbpc EXCEPT ![c] = "enqueue"] /\ UNCHANGED <<hand, refused>>
  BY DEF CallbackCheck, Refuse, pushOtherVars
<1>2. /\ hand[c] \in Seq(got[c]) /\ hand[c] \in Seq(1 .. numDelivered)
      /\ got[c] \in SUBSET (1 .. numDelivered)
      /\ hand \in [Callbacks -> Seq(1 .. numDelivered)]
      /\ got \in [Callbacks -> SUBSET (1 .. numDelivered)]
      /\ confirmed \cup refused \subseteq 1 .. numDelivered
      /\ numDelivered \in Nat /\ numDelivered <= numDelivered /\ numDelivered <= MaxMessages
      /\ queue \in Seq(1 .. numDelivered) /\ Len(queue) <= ChanSize
  BY CallbackTypes, PushTypes
<1>3. /\ Elements(hand[c]) = got[c] /\ got[c] \cap Kept = {} /\ got[c] \cap refused = {}
      /\ \A d \in Callbacks \ {c} : cbpc[d] # "idle" =>
           got[c] \cap got[d] = {} /\ got[d] \cap refused = {}
  BY <1>1 DEF PushIInv, Deliveries
<1>4. Kept' = Kept
  BY <1>1 DEF Kept, InFlight, pushOtherVars, pushMainVars
<1>5. got' = [got EXCEPT ![c] = got[c]]
  BY <1>1, <1>2
<1>6. qclosed' = qclosed /\ confirmed' = confirmed
  BY <1>1 DEF pushOtherVars
<1>7. (~qclosed => confirmed \subseteq Kept) /\ refused \cap Kept = {}
  BY BrokerKept DEF PushIInv
<1>8. CASE /\ cbpc' = [cbpc EXCEPT ![c] = "idle"] /\ hand' = [hand EXCEPT ![c] = << >>]
           /\ refused' = refused \cup got[c]
  <2>1. BrokerAgrees'
    BY <1>3, <1>4, <1>6, <1>7, <1>8 DEF BrokerAgrees, Kept
  <2>2. << >> \in Seq(1 .. numDelivered) /\ << >> \in Seq(got[c])
    OBVIOUS
  <2>3. \A d \in Callbacks \ {c} : cbpc[d] # "idle" => got[d] \cap refused' = {}
    BY <1>3, <1>8
  <2>4. confirmed' \cup refused' \subseteq 1 .. numDelivered
    BY <1>2, <1>6, <1>8
  <2>5. QED
    BY <1>1, <1>2, <1>4, <1>5, <1>8, <2>1, <2>2, <2>3, <2>4, CallbackStep
<1>9. CASE cbpc' = [cbpc EXCEPT ![c] = "enqueue"] /\ UNCHANGED <<hand, refused>>
  <2>1. BrokerAgrees'
    BY <1>4, <1>6, <1>7, <1>9 DEF BrokerAgrees, Kept
  <2>2. hand' = [hand EXCEPT ![c] = hand[c]]
    BY <1>2, <1>9
  <2>3. confirmed' \cup refused' \subseteq 1 .. numDelivered
    BY <1>2, <1>6, <1>9
  <2>4. \A d \in Callbacks \ {c} : cbpc[d] # "idle" =>
          /\ got[c] \cap got[d] = {} /\ got[d] \cap refused' = {}
          /\ got[d] \cap Kept' \subseteq got[d] \cap Kept
    BY <1>3, <1>4, <1>9
  <2>5. /\ got[c] \cap refused' = {} /\ got[c] \subseteq Elements(hand[c]) \cup Kept'
        /\ Kept \subseteq Kept' /\ (qclosed => queue' = queue)
        /\ queue' \in Seq(1 .. numDelivered) /\ Len(queue') <= ChanSize
        /\ numDelivered' = numDelivered /\ UNCHANGED pushOtherVars
    BY <1>1, <1>2, <1>3, <1>4, <1>9
  <2>6. QED
    BY <1>2, <1>5, <1>9, <2>1, <2>2, <2>3, <2>4, <2>5, CallbackStep
<1>10. QED
  BY <1>1, <1>8, <1>9

(* An enqueue: the consumer keeps the message, or its closed queue has       *)
(* refused it (sub.go:124-126).                                              *)
LEMMA CallbackEnqueueStep ==
  ASSUME PushIInv, NEW c \in Callbacks, CallbackEnqueue(c)
  PROVE  PushIInv'
<1>1. /\ cbpc[c] = "enqueue" /\ hand[c] # << >>
      /\ UNCHANGED <<pushOtherVars, cbpc, got, numDelivered, confirmed, refused>>
      /\ hand' = [hand EXCEPT ![c] = Tail(hand[c])]
      /\ \/ /\ ~qclosed /\ Len(queue) < ChanSize
            /\ queue' = Append(queue, Head(hand[c]))
         \/ qclosed /\ UNCHANGED queue
  BY CallbackTypes DEF CallbackEnqueue, Enqueue, PushRoom, Accepts, pushOtherVars, brokerVars
<1>2. /\ hand[c] \in Seq(got[c]) /\ hand[c] \in Seq(1 .. numDelivered)
      /\ got[c] \in SUBSET (1 .. numDelivered)
      /\ hand \in [Callbacks -> Seq(1 .. numDelivered)]
      /\ got \in [Callbacks -> SUBSET (1 .. numDelivered)]
      /\ confirmed \cup refused \subseteq 1 .. numDelivered
      /\ numDelivered \in Nat /\ numDelivered <= numDelivered /\ numDelivered <= MaxMessages
      /\ queue \in Seq(1 .. numDelivered) /\ Len(queue) <= ChanSize /\ Len(queue) \in Nat
      /\ ChanSize \in Nat
      /\ cbpc \in [Callbacks -> {"idle", "check", "enqueue"}]
  BY CallbackTypes, PushTypes
<1>3. PICK m : m = Head(hand[c])
  OBVIOUS
<1>4. /\ m \in got[c] /\ Tail(hand[c]) \in Seq(got[c])
      /\ Tail(hand[c]) \in Seq(1 .. numDelivered)
      /\ Elements(hand[c]) = Elements(Tail(hand[c])) \cup {m}
  <2>1. /\ Head(hand[c]) \in got[c] /\ Tail(hand[c]) \in Seq(got[c])
        /\ Elements(hand[c]) = Elements(Tail(hand[c])) \cup {Head(hand[c])}
    BY <1>1, <1>2, HeadAndTail
  <2>2. QED
    BY <1>2, <1>3, <2>1, WiderSeq
<1>5. /\ ~qclosed => got[c] \subseteq Elements(hand[c]) \cup Kept
      /\ got[c] \cap refused = {}
      /\ \A d \in Callbacks \ {c} : cbpc[d] # "idle" =>
           got[c] \cap got[d] = {} /\ got[d] \cap refused = {}
  BY <1>1 DEF PushIInv, Deliveries
<1>6. got' = [got EXCEPT ![c] = got[c]] /\ cbpc' = [cbpc EXCEPT ![c] = "enqueue"]
  BY <1>1, <1>2
<1>7. qclosed' = qclosed /\ confirmed' = confirmed /\ refused' = refused
  BY <1>1 DEF pushOtherVars
<1>8. (~qclosed => confirmed \subseteq Kept) /\ refused \cap Kept = {}
  BY BrokerKept DEF PushIInv
<1>9. /\ queue' \in Seq(1 .. numDelivered) /\ Len(queue') <= ChanSize
      /\ Kept' = Kept \cup (IF qclosed THEN {} ELSE {m})
  <2>1. CASE qclosed
    BY <1>1, <1>2, <2>1 DEF Kept, InFlight, pushOtherVars, pushMainVars
  <2>2. CASE ~qclosed
    <3>1. m \in 1 .. numDelivered /\ queue' = Append(queue, m) /\ Len(queue) < ChanSize
      BY <1>1, <1>2, <1>3, <1>4, <2>2
    <3>2. /\ Append(queue, m) \in Seq(1 .. numDelivered)
          /\ Len(Append(queue, m)) = Len(queue) + 1
          /\ Elements(Append(queue, m)) = Elements(queue) \cup {m}
      <4>1. queue \in Seq(1 .. numDelivered) /\ m \in 1 .. numDelivered
        BY <1>2, <3>1
      <4>2. Elements(Append(queue, m)) = Elements(queue) \cup {m}
        <5>1. \A S : \A q \in Seq(S), x \in S : Elements(Append(q, x)) = Elements(q) \cup {x}
          BY ElementsOfAppend
        <5> DEFINE S == 1 .. numDelivered
        <5>2. queue \in Seq(S) /\ m \in S
          BY <4>1
        <5> HIDE DEF S
        <5>3. QED
          BY <5>1, <5>2
      <4>3. /\ Append(queue, m) \in Seq(1 .. numDelivered)
            /\ Len(Append(queue, m)) = Len(queue) + 1
        BY <4>1, QueueAppend
      <4>4. QED
        BY <4>2, <4>3
    <3>3. QED
      BY <1>1, <1>2, <2>2, <3>1, <3>2 DEF Kept, InFlight, pushOtherVars, pushMainVars
  <2>3. QED
    BY <2>1, <2>2
<1>10. BrokerAgrees'
  <2>1. (~qclosed' => confirmed' \subseteq Kept') /\ refused' \cap Kept' = {}
    BY <1>4, <1>5, <1>7, <1>8, <1>9
  <2>2. QED
    BY <2>1 DEF BrokerAgrees, Kept
<1>11. \A d \in Callbacks \ {c} : cbpc[d] # "idle" =>
           got[d] \cap refused' = {} /\ got[d] \cap Kept' \subseteq got[d] \cap Kept
  BY <1>4, <1>5, <1>7, <1>9
<1>12. ~qclosed => got[c] \subseteq Elements(Tail(hand[c])) \cup Kept'
  BY <1>4, <1>5, <1>9
<1>13. /\ confirmed' \cup refused' \subseteq 1 .. numDelivered
       /\ Kept \subseteq Kept' /\ (qclosed => queue' = queue)
       /\ got[c] \cap refused' = {} /\ numDelivered' = numDelivered
  BY <1>1, <1>2, <1>5, <1>7, <1>9
<1>14. \A d \in Callbacks \ {c} : cbpc[d] # "idle" =>
          /\ got[c] \cap got[d] = {} /\ got[d] \cap refused' = {}
          /\ got[d] \cap Kept' \subseteq got[d] \cap Kept
  BY <1>5, <1>11
<1>15. PICK r : r = Tail(hand[c])
  OBVIOUS
<1>16. /\ r \in Seq(got[c]) /\ r \in Seq(1 .. numDelivered)
       /\ ~qclosed => got[c] \subseteq Elements(r) \cup Kept'
       /\ hand' = [hand EXCEPT ![c] = r] /\ UNCHANGED pushOtherVars
       /\ queue' \in Seq(1 .. numDelivered) /\ Len(queue') <= ChanSize
  BY <1>1, <1>4, <1>9, <1>12, <1>15
<1>17. QED
  BY <1>2, <1>6, <1>10, <1>13, <1>14, <1>16, CallbackStep

(* ConsumeSuccess: all messages of the delivery are kept, unless the queue   *)
(* was closed meanwhile (sub.go:128-136).                                    *)
LEMMA CallbackReturnStep ==
  ASSUME PushIInv, NEW c \in Callbacks, CallbackReturn(c)
  PROVE  PushIInv'
<1>1. /\ cbpc[c] = "enqueue" /\ hand[c] = << >>
      /\ UNCHANGED <<pushOtherVars, queue, hand, got, numDelivered, refused>>
      /\ cbpc' = [cbpc EXCEPT ![c] = "idle"] /\ confirmed' = confirmed \cup got[c]
  BY DEF CallbackReturn, pushOtherVars
<1>2. /\ hand[c] \in Seq(got[c]) /\ hand[c] \in Seq(1 .. numDelivered)
      /\ got[c] \in SUBSET (1 .. numDelivered)
      /\ hand \in [Callbacks -> Seq(1 .. numDelivered)]
      /\ got \in [Callbacks -> SUBSET (1 .. numDelivered)]
      /\ confirmed \cup refused \subseteq 1 .. numDelivered
      /\ numDelivered \in Nat /\ numDelivered <= numDelivered /\ numDelivered <= MaxMessages
      /\ queue \in Seq(1 .. numDelivered) /\ Len(queue) <= ChanSize
  BY CallbackTypes, PushTypes
<1>3. /\ ~qclosed => got[c] \subseteq Kept
      /\ \A d \in Callbacks \ {c} : cbpc[d] # "idle" => got[d] \cap refused = {}
  BY <1>1, ElementsOfEmpty DEF PushIInv, Deliveries
<1>4. Kept' = Kept
  BY <1>1 DEF Kept, InFlight, pushOtherVars, pushMainVars
<1>5. hand' = [hand EXCEPT ![c] = hand[c]] /\ got' = [got EXCEPT ![c] = got[c]]
  BY <1>1, <1>2
<1>6. BrokerAgrees'
  <2>1. (~qclosed => confirmed \subseteq Kept) /\ refused \cap Kept = {}
    BY BrokerKept DEF PushIInv
  <2>2. qclosed' = qclosed
    BY <1>1 DEF pushOtherVars
  <2>3. (~qclosed' => confirmed' \subseteq Kept') /\ refused' \cap Kept' = {}
    BY <1>1, <1>3, <1>4, <2>1, <2>2
  <2>4. QED
    BY <2>3 DEF BrokerAgrees, Kept
<1>7. \A d \in Callbacks \ {c} : cbpc[d] # "idle" =>
          got[d] \cap refused' = {} /\ got[d] \cap Kept' \subseteq got[d] \cap Kept
  BY <1>1, <1>3, <1>4
<1>8. /\ confirmed' \cup refused' \subseteq 1 .. numDelivered /\ numDelivered' = numDelivered
      /\ Kept \subseteq Kept' /\ (qclosed => queue' = queue)
      /\ queue' \in Seq(1 .. numDelivered) /\ Len(queue') <= ChanSize /\ UNCHANGED pushOtherVars
  BY <1>1, <1>2, <1>4
<1>9. cbpc' = [cbpc EXCEPT ![c] = "idle"]
  BY <1>1
<1>10. QED
  BY <1>2, <1>5, <1>6, <1>7, <1>8, <1>9, CallbackStep
-----------------------------------------------------------------------------
(* Every step keeps the inductive invariant.                                 *)
LEMMA PushInvariance == PushSpec => []PushIInv
<1>1. PushIInv /\ [PushNext]_pushVars => PushIInv'
  <2> SUFFICES ASSUME PushIInv, [PushNext]_pushVars PROVE PushIInv'
    OBVIOUS
  <2>1. CASE PushMain
    BY <2>1, PushMainQuietStep, PushTakeStep, PushHandleStep DEF PushMain
  <2>2. CASE PushCloser \/ PushCloseCall \/ PushClientStart \/ PushParentCancel
    BY <2>2, PushCloserStep
  <2>3. ASSUME NEW c \in Callbacks, Callback(c)
        PROVE  PushIInv'
    BY <2>3, CallbackCheckStep, CallbackEnqueueStep, CallbackReturnStep DEF Callback
  <2>4. ASSUME NEW c \in Callbacks, NEW n \in 1 .. MaxBatch, Deliver(c, n)
        PROVE  PushIInv'
    BY <2>4, DeliverStep
  <2>5. CASE UNCHANGED pushVars
    <3>1. Kept' = Kept
      BY <2>5 DEF Kept, InFlight, pushVars, pushMainVars
    <3>2. Deliveries' /\ BrokerAgrees'
      BY <2>5, <3>1, DeliveriesStill DEF pushVars, brokerVars
    <3>3. PushTypeOK' /\ PushBatchHandledFirst' /\ ClosedBeforeDrain'
      BY <2>5 DEF PushIInv, PushTypeOK, PushBatchHandledFirst, ClosedBeforeDrain, pushVars,
           cbVars, pushMainVars, brokerVars
    <3>4. QED
      BY <3>2, <3>3 DEF PushIInv
  <2>6. QED
    BY <2>1, <2>2, <2>3, <2>4, <2>5 DEF PushNext, PushTerminating
<1>2. QED
  BY <1>1, PushInitInv, PTL DEF PushSpec

(* A push consumer's queue and its buffer stay within their sizes, and hold  *)
(* delivered messages only (sub.go:34-146).                                  *)
THEOREM PushTypeCorrect == PushSpec => []PushTypeOK
<1>1. PushIInv => PushTypeOK
  BY DEF PushIInv
<1>2. QED
  BY <1>1, PushInvariance, PTL

(* Until Close closes the queue, what the broker was told is consumed is     *)
(* handled or on its way, and what was given back to it is not here          *)
(* (sub.go:120-134).                                                         *)
THEOREM BrokerAgreesHolds == PushSpec => []BrokerAgrees
<1>1. PushIInv => BrokerAgrees
  BY DEF PushIInv
<1>2. QED
  BY <1>1, PushInvariance, PTL

(* SyncSubscribe returns with nothing left when the queue was closed before  *)
(* its length was read (sub.go:181-204).                                     *)
THEOREM HandledBeforeExitHolds == PushSpec => []HandledBeforeExit
<1>1. PushIInv => HandledBeforeExit
  BY ElementsOfEmpty
     DEF PushIInv, PushBatchHandledFirst, ClosedBeforeDrain, HandledBeforeExit, InFlight
<1>2. QED
  BY <1>1, PushInvariance, PTL

-----------------------------------------------------------------------------
(* RocketPullConsumer                                                        *)

\* What is on its way to the application, the oldest first.
Pipe == batch \o queue

\* The messages of each pull loop in q are ascending.
Ascending(q) ==
  \A i, j \in 1 .. Len(q) : i < j /\ q[i].l = q[j].l => q[i].n < q[j].n

\* Messages that left the hand of pull loop l.
Passed(l) == pulled[l] - Len(hand[l])

(* A pull loop holds the last messages it pulled, in the order of the pull,  *)
(* from the pull until it has enqueued them.                                 *)
HandsNumbered ==
  /\ hand \in [Loops -> Seq(Message)]
  /\ \A l \in Loops :
       /\ ppc[l] \in {"top", "pull", "stopped"} => hand[l] = << >>
       /\ ppc[l] = "enqueue" => hand[l] # << >>
       /\ \A i \in 1 .. Len(hand[l]) : hand[l][i].l = l /\ hand[l][i].n = Passed(l) + i

(* What the consumer has got a pull loop has let go.                         *)
BehindPuller == \A m \in InFlight \cup handled : m.n <= Passed(m.l)

\* The last conjunct of LoopOrder.
NoGap == \A g \in Got : \A k \in 1 .. g[2] - 1 : <<g[1], k>> \in Got

(* All that a pull loop has let go arrived, while it can bring more: it      *)
(* passes a message over only while draining, or at a closed queue, and      *)
(* then enqueues no more.                                                    *)
NothingPassedOver ==
  /\ qclosed => draining
  /\ \A l \in Loops : ppc[l] = "enqueue" \/ ~draining
                      => \A k \in 1 .. Passed(l) : <<l, k>> \in Got

(* SyncSubscribe has one message in its buffer while its loop handles one,   *)
(* and none when it looks at the queue.                                      *)
PullBatchHandledFirst ==
  /\ mainpc \notin {"handle", "finish"} => batch = << >>
  /\ mainpc = "handle" => Len(batch) = 1

\* Pull loops that have looked at draining, and will enqueue.
Enqueuing == {l \in Loops : ppc[l] = "enqueue"}

(* Close sets draining before it cancels; from then on a pull loop enqueues  *)
(* once more at most, so that what the drain leaves behind, and what follows *)
(* it, is no more than one message of each pull loop.                        *)
DrainedFirst ==
  /\ closepc # "idle" => draining
  /\ leftBy = "cancelled" => ctxDone
  /\ ctxDone /\ ~parentDone => draining
  /\ leftBy = "cancelled" /\ ~parentDone =>
       /\ mainpc = "drain" =>
            /\ remainLen <= Len(queue)
            /\ Len(queue) - remainLen + Cardinality(Enqueuing) <= Cardinality(Loops)
       /\ mainpc \in {"finish", "returned"} =>
            Len(queue) + Cardinality(Enqueuing) <= Cardinality(Loops)

PullIInv ==
  /\ PullTypeOK /\ HandsNumbered /\ BehindPuller /\ PullBatchHandledFirst
  /\ LoopOrder /\ NothingPassedOver /\ DrainedFirst
-----------------------------------------------------------------------------
(* What is in flight is what the pipe holds.                                 *)
LEMMA PipeInFlight ==
  ASSUME PullTypeOK
  PROVE  Pipe \in Seq(Message) /\ InFlight = Elements(Pipe)
BY ElementsOfConcat DEF PullTypeOK, Pipe, InFlight

(* The order of the pipe, in the words of LoopOrder.                         *)
LEMMA OrderOfPipe ==
  LoopOrder <=> /\ Ascending(Pipe)
                /\ \A h \in handled, m \in InFlight : h.l = m.l => h.n < m.n
                /\ NoGap
BY DEF LoopOrder, Ascending, Pipe, NoGap

(* A message behind the last ones of its pull loop keeps the order.          *)
LEMMA AppendAscends ==
  ASSUME NEW w \in Seq(Message), Ascending(w), NEW m \in Message,
         \A x \in Elements(w) : x.l = m.l => x.n < m.n
  PROVE  Ascending(Append(w, m))
<1>1. /\ Len(Append(w, m)) = Len(w) + 1 /\ Len(w) \in Nat
      /\ \A i \in 1 .. Len(w) : Append(w, m)[i] = w[i]
      /\ Append(w, m)[Len(w) + 1] = m
  BY AppendProperties
<1>2. \A i \in 1 .. Len(w) : w[i].l = m.l => w[i].n < m.n
  BY ElementPosition
<1>3. ASSUME NEW i \in 1 .. Len(w) + 1, NEW j \in 1 .. Len(w) + 1, i < j,
             Append(w, m)[i].l = Append(w, m)[j].l
      PROVE  Append(w, m)[i].n < Append(w, m)[j].n
  <2>1. i \in 1 .. Len(w) /\ Append(w, m)[i] = w[i]
    BY <1>1, <1>3
  <2>2. CASE j = Len(w) + 1
    BY <1>1, <1>2, <1>3, <2>1, <2>2
  <2>3. CASE j # Len(w) + 1
    <3>1. j \in 1 .. Len(w) /\ Append(w, m)[j] = w[j]
      BY <1>1, <2>3
    <3>2. QED
      BY <1>3, <2>1, <3>1 DEF Ascending
  <2>4. QED
    BY <2>2, <2>3
<1>4. QED
  BY <1>1, <1>3 DEF Ascending

(* The oldest message of its pull loop can go first.                         *)
LEMMA TailAscends ==
  ASSUME NEW w \in Seq(Message), Ascending(w), w # << >>
  PROVE  /\ Ascending(Tail(w))
         /\ \A x \in Elements(Tail(w)) : x.l = Head(w).l => Head(w).n < x.n
<1> DEFINE l == Tail(w)
<1>1. /\ l \in Seq(Message) /\ Len(l) = Len(w) - 1 /\ Len(w) \in Nat /\ Len(w) >= 1
      /\ \A i \in 1 .. Len(l) : l[i] = w[i + 1]
      /\ Head(w) = w[1]
  BY HeadTailProperties, EmptySeq
<1> HIDE DEF l
<1>2. ASSUME NEW i \in 1 .. Len(l), NEW j \in 1 .. Len(l), i < j, l[i].l = l[j].l
      PROVE  l[i].n < l[j].n
  <2>1. /\ i + 1 \in 1 .. Len(w) /\ j + 1 \in 1 .. Len(w) /\ i + 1 < j + 1
        /\ l[i] = w[i + 1] /\ l[j] = w[j + 1]
    BY <1>1, <1>2
  <2>2. QED
    BY <1>2, <2>1 DEF Ascending
<1>3. ASSUME NEW x \in Elements(l), x.l = w[1].l
      PROVE  w[1].n < x.n
  <2>1. PICK i \in 1 .. Len(l) : l[i] = x
    BY <1>1, ElementPosition
  <2>2. 1 \in 1 .. Len(w) /\ i + 1 \in 1 .. Len(w) /\ 1 < i + 1 /\ x = w[i + 1]
    BY <1>1, <2>1
  <2>3. QED
    BY <1>3, <2>2 DEF Ascending
<1>4. QED
  BY <1>1, <1>2, <1>3 DEF Ascending, l

(* NewPullConsumer starts the pull loops with nothing in hand                *)
(* (sub.go:262-350).                                                         *)
LEMMA PullInitInv == PullInit => PullIInv
<1> SUFFICES ASSUME PullInit PROVE PullIInv
  OBVIOUS
<1>1. /\ << >> \in Seq(Message) /\ Len(<< >>) = 0 /\ Elements(<< >>) = {}
      /\ << >> \o << >> = << >>
  BY ElementsOfEmpty
<1>2. \A l \in Loops : hand[l] = << >> /\ pulled[l] = 0 /\ ppc[l] = "top"
  BY DEF PullInit
<1>3. ChanSize \in Nat /\ PullSize \in Nat /\ MaxMessages \in Nat
  BY PullConsumerAssumption DEF PullConsumerAssumption
<1>4. PullTypeOK
  <2>1. /\ ppc \in [Loops -> {"top", "pull", "check", "enqueue", "stopped"}]
        /\ pulled \in [Loops -> 0 .. MaxMessages]
    <3>1. ppc = [l \in Loops |-> "top"] /\ pulled = [l \in Loops |-> 0]
      BY DEF PullInit
    <3>2. 0 \in 0 .. MaxMessages
      BY <1>3
    <3>3. ppc \in [Loops -> {"top", "pull", "check", "enqueue", "stopped"}]
      BY <3>1
    <3>4. pulled \in [Loops -> 0 .. MaxMessages]
      BY <3>1, <3>2
    <3>5. QED
      BY <3>3, <3>4
  <2>2. \A l \in Loops : hand[l] \in Seq(Message) /\ Len(hand[l]) <= PullSize
    <3>1. 0 <= PullSize
      BY <1>3
    <3>2. Len(<< >>) <= PullSize
      BY <1>1, <3>1
    <3>3. QED
      BY <1>1, <1>2, <3>2
  <2>3. /\ queue \in Seq(Message) /\ Len(queue) <= ChanSize
        /\ batch \in Seq(Message) /\ Len(batch) <= ChanSize
        /\ remainLen \in 0 .. ChanSize
    BY <1>1, <1>3 DEF PullInit
  <2>4. /\ {draining, ctxDone, parentDone, qclosed} \subseteq BOOLEAN
        /\ handled \subseteq Message
    BY DEF PullInit
  <2>5. QED
    BY <2>1, <2>2, <2>3, <2>4 DEF PullInit, PullTypeOK
<1>5. HandsNumbered /\ PullBatchHandledFirst
  BY <1>1, <1>2 DEF PullInit, HandsNumbered, PullBatchHandledFirst
<1>6. InFlight = {} /\ handled = {}
  BY <1>1 DEF PullInit, InFlight
<1>7. BehindPuller
  BY <1>6 DEF BehindPuller
<1>8. LoopOrder
  BY <1>1, <1>6, OrderOfPipe DEF PullInit, Pipe, Ascending, NoGap, Got
<1>9. DrainedFirst
  BY DEF PullInit, DrainedFirst
<1>10. NothingPassedOver
  <2>1. \A l \in Loops : Passed(l) = 0
    BY <1>1, <1>2 DEF Passed
  <2>2. 1 .. 0 = {} /\ ~qclosed
    BY DEF PullInit
  <2>3. QED
    BY <2>1, <2>2 DEF NothingPassedOver
<1>11. QED
  BY <1>4, <1>5, <1>7, <1>8, <1>9, <1>10 DEF PullIInv

\* Everything but the pull loops and what they fill.
pullOtherVars == <<ctxVars, mq, qclosed, pullMainVars, closepc, handled>>

(* A step that leaves the buffer, the queue and the application alone, and   *)
(* moves no pull loop backwards, keeps the order.                            *)
LEMMA OrderKept ==
  ASSUME PullTypeOK, BehindPuller, LoopOrder, UNCHANGED <<batch, queue, handled>>,
         \A l \in Loops : Passed(l) \in Int /\ Passed(l)' \in Int /\ Passed(l) <= Passed(l)'
  PROVE  BehindPuller' /\ LoopOrder'
<1>1. InFlight' = InFlight /\ handled' = handled
  BY DEF InFlight
<1>2. \A m \in InFlight \cup handled : m.l \in Loops /\ m.n \in Int
  <2>1. Elements(queue) \subseteq Message /\ Elements(batch) \subseteq Message
    BY ElementsAreMessages DEF PullTypeOK
  <2>2. handled \subseteq Message
    BY DEF PullTypeOK
  <2>3. \A m \in Message : m.l \in Loops /\ m.n \in Int
    BY PullConsumerAssumption DEF PullConsumerAssumption, Message
  <2>4. QED
    BY <2>1, <2>2, <2>3 DEF InFlight
<1>3. BehindPuller'
  <2>1. ASSUME NEW m \in InFlight \cup handled
        PROVE  m.n <= Passed(m.l)'
    <3>1. m.n <= Passed(m.l) /\ m.l \in Loops /\ m.n \in Int
      BY <1>2 DEF BehindPuller
    <3>2. Passed(m.l) \in Int /\ Passed(m.l)' \in Int /\ Passed(m.l) <= Passed(m.l)'
      BY <3>1
    <3> HIDE DEF Passed
    <3>3. QED
      BY <3>1, <3>2
  <2>2. QED
    BY <1>1, <2>1 DEF BehindPuller, Passed
<1>4. LoopOrder'
  <2>1. Got' = Got
    BY <1>1 DEF Got
  <2>2. LoopOrder
    OBVIOUS
  <2>3. QED
    BY <1>1, <2>1, <2>2 DEF LoopOrder
<1>5. QED
  BY <1>3, <1>4

(* Nor does a step that passes no message over while it may not.             *)
LEMMA PassedOverKept ==
  ASSUME NothingPassedOver, (InFlight \cup handled)' = InFlight \cup handled,
         qclosed' => draining',
         \A l \in Loops :
           ppc[l]' = "enqueue" \/ ~draining'
             => (ppc[l] = "enqueue" \/ ~draining) /\ Passed(l)' = Passed(l)
  PROVE  NothingPassedOver'
<1>1. Got' = Got
  BY DEF Got
<1>2. ASSUME NEW l \in Loops, ppc[l]' = "enqueue" \/ ~draining', NEW k \in 1 .. Passed(l)'
      PROVE  <<l, k>> \in Got'
  <2>1. (ppc[l] = "enqueue" \/ ~draining) /\ Passed(l)' = Passed(l)
    BY <1>2
  <2> HIDE DEF Passed
  <2>2. k \in 1 .. Passed(l)
    BY <1>2, <2>1
  <2>3. QED
    BY <1>1, <2>1, <2>2 DEF NothingPassedOver
<1>3. QED
  BY <1>2 DEF NothingPassedOver

(* The drain's bound depends on who is about to enqueue only.                *)
LEMMA DrainKept ==
  ASSUME DrainedFirst, Enqueuing' = Enqueuing, Len(queue') = Len(queue),
         UNCHANGED <<ctxVars, leftBy, mainpc, remainLen, closepc>>
  PROVE  DrainedFirst'
BY DEF DrainedFirst, ctxVars

(* The numbers the arithmetic of the pull loops is about.                    *)
LEMMA HandNumbers ==
  ASSUME PullTypeOK, HandsNumbered, NEW l \in Loops
  PROVE  /\ hand[l] \in Seq(Message) /\ Len(hand[l]) \in Nat
         /\ pulled[l] \in 0 .. MaxMessages /\ pulled[l] \in Nat /\ MaxMessages \in Nat
         /\ Passed(l) \in Int
BY PullConsumerAssumption DEF PullTypeOK, HandsNumbered, Passed, PullConsumerAssumption

(* The pull loops that will enqueue can be counted, and one that has done so *)
(* counts no more.                                                           *)
LEMMA EnqueuingCounted ==
  /\ Cardinality(Enqueuing) \in Nat
  /\ Cardinality(Enqueuing) <= Cardinality(Loops) /\ Cardinality(Loops) \in Nat
  /\ \A l \in Enqueuing : Cardinality(Enqueuing \ {l}) = Cardinality(Enqueuing) - 1
<1>1. IsFiniteSet(Loops) /\ Enqueuing \subseteq Loops
  BY PullConsumerAssumption DEF PullConsumerAssumption, Enqueuing
<1>2. IsFiniteSet(Enqueuing) /\ Cardinality(Enqueuing) <= Cardinality(Loops)
  BY <1>1, FS_Subset
<1>3. \A l \in Enqueuing : Cardinality(Enqueuing \ {l}) = Cardinality(Enqueuing) - 1
  BY <1>2, FS_RemoveElement
<1>4. QED
  BY <1>1, <1>2, <1>3, FS_CardinalityType

(* A pull loop that does not enqueue: it goes on with the last messages it   *)
(* pulled, or with none.                                                     *)
LEMMA PullStep ==
  ASSUME PullIInv, NEW l \in Loops, ppc[l] # "enqueue",
         NEW p \in {"top", "pull", "check", "stopped"}, NEW h \in Seq(Message),
         NEW k \in 0 .. MaxMessages,
         ppc' = [ppc EXCEPT ![l] = p], hand' = [hand EXCEPT ![l] = h],
         pulled' = [pulled EXCEPT ![l] = k], UNCHANGED <<pullOtherVars, queue>>,
         Len(h) <= PullSize, p # "check" => h = << >>,
         \A i \in 1 .. Len(h) : h[i].l = l /\ h[i].n = k - Len(h) + i,
         Passed(l) <= k - Len(h), Passed(l) = k - Len(h) \/ draining
  PROVE  PullIInv'
<1> USE DEF PullIInv
<1>1. /\ Len(h) \in Nat /\ k \in Nat /\ MaxMessages \in Nat /\ PullSize \in Nat
      /\ ppc[l]' = p /\ hand[l]' = h /\ pulled[l]' = k
      /\ \A s \in Loops \ {l} :
           ppc[s]' = ppc[s] /\ hand[s]' = hand[s] /\ pulled[s]' = pulled[s]
  BY PullConsumerAssumption DEF PullConsumerAssumption, PullTypeOK, HandsNumbered
<1>2. Passed(l)' = k - Len(h) /\ \A s \in Loops \ {l} : Passed(s)' = Passed(s)
  BY <1>1 DEF Passed
<1>3. PullTypeOK'
  <2>1. /\ ppc' \in [Loops -> {"top", "pull", "check", "enqueue", "stopped"}]
        /\ pulled' \in [Loops -> 0 .. MaxMessages]
    BY DEF PullTypeOK
  <2>2. \A s \in Loops : hand'[s] \in Seq(Message) /\ Len(hand'[s]) <= PullSize
    BY <1>1 DEF PullTypeOK
  <2>3. QED
    BY <2>1, <2>2 DEF PullTypeOK, pullOtherVars, ctxVars, pullMainVars
<1>4. HandsNumbered'
  <2>1. hand' \in [Loops -> Seq(Message)]
    BY DEF HandsNumbered
  <2>2. ASSUME NEW s \in Loops
        PROVE  /\ ppc[s]' \in {"top", "pull", "stopped"} => hand[s]' = << >>
               /\ ppc[s]' = "enqueue" => hand[s]' # << >>
               /\ \A i \in 1 .. Len(hand[s]') :
                    hand[s]'[i].l = s /\ hand[s]'[i].n = Passed(s)' + i
    <3>1. CASE s = l
      BY <1>1, <1>2, <3>1
    <3>2. CASE s # l
      <4>1. /\ ppc[s]' = ppc[s] /\ hand[s]' = hand[s] /\ Passed(s)' = Passed(s)
        BY <1>1, <1>2, <3>2
      <4>2. /\ ppc[s] \in {"top", "pull", "stopped"} => hand[s] = << >>
            /\ ppc[s] = "enqueue" => hand[s] # << >>
            /\ \A i \in 1 .. Len(hand[s]) : hand[s][i].l = s /\ hand[s][i].n = Passed(s) + i
        BY DEF HandsNumbered
      <4> HIDE DEF Passed
      <4>3. QED
        BY <4>1, <4>2
    <3>3. QED
      BY <3>1, <3>2
  <2>3. QED
    BY <2>1, <2>2 DEF HandsNumbered
<1>5. BehindPuller' /\ LoopOrder'
  <2>1. \A s \in Loops : Passed(s) \in Int
    BY HandNumbers
  <2>2. Passed(l)' \in Int /\ Passed(l) <= Passed(l)'
    BY <1>1, <1>2
  <2>3. \A s \in Loops : Passed(s) \in Int /\ Passed(s)' \in Int /\ Passed(s) <= Passed(s)'
    BY <1>2, <2>1, <2>2
  <2>4. UNCHANGED <<batch, queue, handled>>
    BY DEF pullOtherVars, pullMainVars
  <2>5. QED
    BY <2>3, <2>4, OrderKept
<1>6. PullBatchHandledFirst'
  BY DEF PullBatchHandledFirst, pullOtherVars, pullMainVars
<1>7. DrainedFirst'
  <2>1. Enqueuing' = Enqueuing
    BY <1>1 DEF Enqueuing
  <2>2. QED
    BY <2>1, DrainKept DEF pullOtherVars, pullMainVars
<1>8. NothingPassedOver'
  <2>1. (InFlight \cup handled)' = InFlight \cup handled /\ draining' = draining
        /\ qclosed' = qclosed
    BY DEF InFlight, pullOtherVars, pullMainVars, ctxVars
  <2>2. ASSUME NEW s \in Loops, ppc[s]' = "enqueue" \/ ~draining'
        PROVE  (ppc[s] = "enqueue" \/ ~draining) /\ Passed(s)' = Passed(s)
    BY <1>1, <1>2, <2>1, <2>2
  <2>3. qclosed' => draining'
    BY <2>1 DEF NothingPassedOver
  <2>4. QED
    BY <2>1, <2>2, <2>3, PassedOverKept
<1>9. QED
  BY <1>3, <1>4, <1>5, <1>6, <1>7, <1>8

(* The turns of a pull loop and its pulls, which number what they bring      *)
(* (sub.go:351-359, 383-434).                                                *)
LEMMA PullerTurnStep ==
  ASSUME PullIInv, NEW l \in Loops, PullerTurn(l) \/ PullerNothing(l)
  PROVE  PullIInv'
<1>1. /\ ppc \in [Loops -> {"top", "pull", "check", "enqueue", "stopped"}]
      /\ hand \in [Loops -> Seq(Message)] /\ pulled \in [Loops -> 0 .. MaxMessages]
      /\ Len(hand[l]) <= PullSize
  BY DEF PullIInv, PullTypeOK, HandsNumbered
<1>2. ppc[l] \in {"top", "pull"} /\ hand[l] = << >>
  BY <1>1 DEF PullIInv, HandsNumbered, PullerTurn, PullerNothing
<1>3. PICK p \in {"top", "pull", "stopped"} : ppc' = [ppc EXCEPT ![l] = p]
  BY DEF PullerTurn, PullerNothing
<1>4. /\ hand' = [hand EXCEPT ![l] = << >>] /\ pulled' = [pulled EXCEPT ![l] = pulled[l]]
      /\ UNCHANGED <<pullOtherVars, queue>>
  BY <1>1, <1>2 DEF PullerTurn, PullerNothing, pullOtherVars
<1>5. /\ Len(<< >>) = 0 /\ << >> \in Seq(Message) /\ pulled[l] \in 0 .. MaxMessages
      /\ Passed(l) = pulled[l] /\ pulled[l] \in Nat /\ pulled[l] - 0 = pulled[l]
  BY <1>1, <1>2, HandNumbers DEF PullIInv, Passed
<1>6. Len(<< >>) <= PullSize
  BY <1>1, <1>2
<1>7. \A i \in 1 .. Len(<< >>) : FALSE
  BY <1>5
<1>8. ppc[l] # "enqueue" /\ p \in {"top", "pull", "check", "stopped"}
  BY <1>2
<1>9. Passed(l) <= pulled[l] - Len(<< >>) /\ Passed(l) = pulled[l] - Len(<< >>)
  BY <1>5
<1>10. QED
  BY <1>3, <1>4, <1>5, <1>6, <1>7, <1>8, <1>9, PullStep

LEMMA PullerFoundStep ==
  ASSUME PullIInv, NEW l \in Loops, NEW n \in 1 .. PullSize, PullerFound(l, n)
  PROVE  PullIInv'
<1> DEFINE h == [i \in 1 .. n |-> [l |-> l, n |-> pulled[l] + i]]
           k == pulled[l] + n
<1>1. /\ ppc[l] = "pull" /\ k <= MaxMessages
      /\ ppc' = [ppc EXCEPT ![l] = "check"] /\ hand' = [hand EXCEPT ![l] = h]
      /\ pulled' = [pulled EXCEPT ![l] = k] /\ UNCHANGED <<pullOtherVars, queue>>
  BY DEF PullerFound, pullOtherVars
<1>2. /\ hand[l] = << >> /\ pulled[l] \in Nat /\ n \in Nat /\ MaxMessages \in Nat
      /\ PullSize \in Nat
  BY <1>1, HandNumbers, PullConsumerAssumption DEF PullIInv, HandsNumbered,
       PullConsumerAssumption
<1>3. k \in 0 .. MaxMessages
  BY <1>1, <1>2
<1>4. h \in Seq(Message) /\ Len(h) = n
  <2>1. ASSUME NEW i \in 1 .. n
        PROVE  [l |-> l, n |-> pulled[l] + i] \in Message
    BY <1>1, <1>2 DEF Message
  <2>2. QED
    BY <1>2, <2>1
<1>5. Passed(l) = pulled[l] /\ k - n = pulled[l]
  BY <1>2 DEF Passed
<1>6. \A i \in 1 .. Len(h) : h[i].l = l /\ h[i].n = k - Len(h) + i
  BY <1>2, <1>4, <1>5
<1>7. Passed(l) <= k - Len(h) /\ Passed(l) = k - Len(h) /\ Len(h) <= PullSize
  BY <1>2, <1>4, <1>5
<1> HIDE DEF h, k
<1>8. QED
  BY <1>1, <1>3, <1>4, <1>6, <1>7, PullStep

(* Looking at draining: the rest of the batch is forgotten, or the first of  *)
(* it will be enqueued, which no consumer does that Close has cancelled      *)
(* (sub.go:365-369).                                                         *)
LEMMA PullerCheckStep ==
  ASSUME PullIInv, NEW l \in Loops, PullerCheck(l)
  PROVE  PullIInv'
<1>1. /\ hand[l] \in Seq(Message) /\ Len(hand[l]) \in Nat
      /\ pulled[l] \in 0 .. MaxMessages /\ pulled[l] \in Nat /\ PullSize \in Nat
      /\ hand \in [Loops -> Seq(Message)] /\ pulled \in [Loops -> 0 .. MaxMessages]
      /\ ppc \in [Loops -> {"top", "pull", "check", "enqueue", "stopped"}]
  BY HandNumbers, PullConsumerAssumption
     DEF PullIInv, PullTypeOK, HandsNumbered, PullConsumerAssumption
<1>2. CASE ppc' = [ppc EXCEPT ![l] = "top"] /\ hand' = [hand EXCEPT ![l] = << >>]
  <2>1. /\ ppc[l] # "enqueue" /\ pulled' = [pulled EXCEPT ![l] = pulled[l]]
        /\ UNCHANGED <<pullOtherVars, queue>>
    BY <1>1 DEF PullerCheck, pullOtherVars
  <2>2. /\ Len(<< >>) = 0 /\ << >> \in Seq(Message) /\ Len(<< >>) <= PullSize
        /\ Passed(l) <= pulled[l] - Len(<< >>)
        /\ hand[l] = << >> => Passed(l) = pulled[l] - Len(<< >>)
    BY <1>1 DEF Passed
  <2>3. \A i \in 1 .. Len(<< >>) : FALSE
    BY <2>2
  <2>4. Passed(l) = pulled[l] - Len(<< >>) \/ draining
    <3>1. hand[l] = << >> \/ draining
      <4>1. hand[l] # << >> /\ ~draining => ppc[l]' = "enqueue" /\ ppc[l]' = "top"
        BY <1>1, <1>2 DEF PullerCheck
      <4>2. QED
        BY <4>1
    <3> HIDE DEF Passed
    <3>2. QED
      BY <2>2, <3>1
  <2>5. QED
    BY <1>1, <1>2, <2>1, <2>2, <2>3, <2>4, PullStep
<1>3. CASE /\ ppc' = [ppc EXCEPT ![l] = "enqueue"] /\ UNCHANGED hand
           /\ hand[l] # << >> /\ ~draining
  <2>1. UNCHANGED <<pullOtherVars, queue, hand, pulled>>
    BY <1>3 DEF PullerCheck, pullOtherVars
  <2>2. /\ ppc[l]' = "enqueue" /\ \A s \in Loops \ {l} : ppc[s]' = ppc[s]
        /\ ppc' \in [Loops -> {"top", "pull", "check", "enqueue", "stopped"}]
    BY <1>1, <1>3
  <2>3. PullTypeOK'
    BY <2>1, <2>2 DEF PullIInv, PullTypeOK, pullOtherVars, ctxVars, pullMainVars
  <2>4. HandsNumbered'
    <3>1. ASSUME NEW s \in Loops
          PROVE  /\ ppc[s]' \in {"top", "pull", "stopped"} => hand[s] = << >>
                 /\ ppc[s]' = "enqueue" => hand[s] # << >>
                 /\ \A i \in 1 .. Len(hand[s]) :
                      hand[s][i].l = s /\ hand[s][i].n = Passed(s) + i
      BY <1>3, <2>2 DEF PullIInv, HandsNumbered
    <3>2. QED
      BY <1>1, <2>1, <3>1 DEF HandsNumbered, Passed
  <2>5. BehindPuller' /\ LoopOrder'
    <3>1. \A s \in Loops : Passed(s) \in Int
      BY HandNumbers DEF PullIInv
    <3>2. \A s \in Loops : Passed(s)' = Passed(s)
      BY <2>1 DEF Passed
    <3>3. \A s \in Loops : Passed(s) \in Int /\ Passed(s)' \in Int /\ Passed(s) <= Passed(s)'
      BY <3>1, <3>2
    <3>4. UNCHANGED <<batch, queue, handled>>
      BY <2>1 DEF pullOtherVars, pullMainVars
    <3>5. QED
      BY <3>3, <3>4, OrderKept DEF PullIInv
  <2>6. PullBatchHandledFirst'
    BY <2>1 DEF PullIInv, PullBatchHandledFirst, pullOtherVars, pullMainVars
  <2>7. DrainedFirst'
    BY <1>3, <2>1 DEF PullIInv, DrainedFirst, pullOtherVars, ctxVars, pullMainVars
  <2>8. NothingPassedOver'
    <3>1. /\ (InFlight \cup handled)' = InFlight \cup handled
          /\ draining' = draining /\ qclosed' = qclosed
          /\ \A s \in Loops : Passed(s)' = Passed(s)
      BY <2>1 DEF InFlight, Passed, pullOtherVars, pullMainVars, ctxVars
    <3>2. qclosed' => draining'
      BY <3>1 DEF PullIInv, NothingPassedOver
    <3>3. QED
      BY <1>3, <3>1, <3>2, PassedOverKept DEF PullIInv
  <2>9. QED
    BY <2>3, <2>4, <2>5, <2>6, <2>7, <2>8 DEF PullIInv
<1>4. QED
  BY <1>2, <1>3 DEF PullerCheck

(* An enqueue: the message is the next one of its pull loop, or a closed     *)
(* queue refuses it (sub.go:369-374).                                        *)
LEMMA PullerEnqueueStep ==
  ASSUME PullIInv, NEW l \in Loops, PullerEnqueue(l)
  PROVE  PullIInv'
<1> DEFINE h == hand[l]
           m == Head(h)
<1>1. /\ h \in Seq(Message) /\ Len(h) \in Nat /\ h # << >>
      /\ pulled[l] \in 0 .. MaxMessages /\ pulled[l] \in Nat
      /\ hand \in [Loops -> Seq(Message)]
      /\ ppc \in [Loops -> {"top", "pull", "check", "enqueue", "stopped"}]
      /\ \A i \in 1 .. Len(h) : h[i].l = l /\ h[i].n = Passed(l) + i
      /\ Len(h) <= PullSize /\ PullSize \in Nat /\ ppc[l] = "enqueue" /\ Passed(l) \in Int
  BY HandNumbers, PullConsumerAssumption
     DEF PullIInv, PullTypeOK, HandsNumbered, PullConsumerAssumption, PullerEnqueue
<1>2. /\ Tail(h) \in Seq(Message) /\ Len(Tail(h)) = Len(h) - 1 /\ Len(h) >= 1
      /\ m = h[1] /\ m \in Message
      /\ \A i \in 1 .. Len(Tail(h)) : Tail(h)[i] = h[i + 1]
  BY <1>1, HeadTailProperties, EmptySeq
<1>3. m.l = l /\ m.n = Passed(l) + 1
  BY <1>1, <1>2
<1>4. /\ hand' = [hand EXCEPT ![l] = Tail(h)] /\ ppc' = [ppc EXCEPT ![l] = "check"]
      /\ UNCHANGED <<pullOtherVars, pulled>>
      /\ \/ Len(queue) < ChanSize /\ queue' = Append(queue, m)
         \/ qclosed /\ UNCHANGED queue
  BY <1>1 DEF PullerEnqueue, PullRoom, Accepts, pullOtherVars
<1>5. /\ ppc[l]' = "check" /\ hand[l]' = Tail(h) /\ Passed(l)' = Passed(l) + 1
      /\ \A s \in Loops \ {l} :
           ppc[s]' = ppc[s] /\ hand[s]' = hand[s] /\ Passed(s)' = Passed(s)
  BY <1>1, <1>2, <1>4 DEF Passed
<1>6. /\ queue \in Seq(Message) /\ Len(queue) \in Nat /\ ChanSize \in Nat
      /\ queue' \in Seq(Message) /\ Len(queue') <= ChanSize /\ Len(queue') \in Nat
      /\ Len(queue) <= Len(queue') /\ Len(queue') <= Len(queue) + 1
  <2>1. queue \in Seq(Message) /\ Len(queue) \in Nat /\ ChanSize \in Nat /\ Len(queue) <= ChanSize
    BY PullConsumerAssumption DEF PullIInv, PullTypeOK, PullConsumerAssumption
  <2>2. Append(queue, m) \in Seq(Message) /\ Len(Append(queue, m)) = Len(queue) + 1
    BY <1>2, <2>1, AppendProperties
  <2>3. QED
    BY <1>4, <2>1, <2>2
<1> HIDE DEF h, m
<1>7. PullTypeOK'
  <2>1. ppc' \in [Loops -> {"top", "pull", "check", "enqueue", "stopped"}]
    BY <1>1, <1>4
  <2>2. \A s \in Loops : hand'[s] \in Seq(Message) /\ Len(hand'[s]) <= PullSize
    <3>1. Len(Tail(h)) <= PullSize
      BY <1>1, <1>2
    <3>2. \A s \in Loops : hand[s] \in Seq(Message) /\ Len(hand[s]) <= PullSize
      BY DEF PullIInv, PullTypeOK
    <3>3. hand'[l] = Tail(h) /\ \A s \in Loops \ {l} : hand'[s] = hand[s]
      BY <1>5
    <3>4. QED
      BY <1>2, <3>1, <3>2, <3>3
  <2>3. QED
    BY <1>4, <1>6, <2>1, <2>2 DEF PullIInv, PullTypeOK, pullOtherVars, ctxVars, pullMainVars
<1>8. HandsNumbered'
  <2>1. hand' \in [Loops -> Seq(Message)]
    BY <1>1, <1>2, <1>4
  <2>2. ASSUME NEW s \in Loops
        PROVE  /\ ppc[s]' \in {"top", "pull", "stopped"} => hand[s]' = << >>
               /\ ppc[s]' = "enqueue" => hand[s]' # << >>
               /\ \A i \in 1 .. Len(hand[s]') :
                    hand[s]'[i].l = s /\ hand[s]'[i].n = Passed(s)' + i
    <3>1. CASE s = l
      <4>1. ASSUME NEW i \in 1 .. Len(Tail(h))
            PROVE  Tail(h)[i].l = l /\ Tail(h)[i].n = Passed(l) + 1 + i
        <5>1. i + 1 \in 1 .. Len(h) /\ Tail(h)[i] = h[i + 1]
          BY <1>1, <1>2
        <5>2. QED
          BY <1>1, <5>1
      <4> HIDE DEF Passed
      <4>2. QED
        BY <1>5, <3>1, <4>1
    <3>2. CASE s # l
      <4>1. ppc[s]' = ppc[s] /\ hand[s]' = hand[s] /\ Passed(s)' = Passed(s)
        BY <1>5, <3>2
      <4>2. /\ ppc[s] \in {"top", "pull", "stopped"} => hand[s] = << >>
            /\ ppc[s] = "enqueue" => hand[s] # << >>
            /\ \A i \in 1 .. Len(hand[s]) : hand[s][i].l = s /\ hand[s][i].n = Passed(s) + i
        BY DEF PullIInv, HandsNumbered
      <4> HIDE DEF Passed
      <4>3. QED
        BY <4>1, <4>2
    <3>3. QED
      BY <3>1, <3>2
  <2>3. QED
    BY <2>1, <2>2 DEF HandsNumbered
<1>9. \A s \in Loops : Passed(s) \in Int /\ Passed(s)' \in Int /\ Passed(s) <= Passed(s)'
  <2>1. \A s \in Loops : Passed(s) \in Int
    BY HandNumbers DEF PullIInv
  <2> HIDE DEF Passed
  <2>2. QED
    BY <1>5, <2>1
<1>10. batch' = batch /\ handled' = handled /\ batch \in Seq(Message) /\ handled \subseteq Message
  BY <1>4 DEF pullOtherVars, pullMainVars, PullIInv, PullTypeOK
<1>11. BehindPuller' /\ LoopOrder'
  <2>1. CASE UNCHANGED queue
    BY <1>9, <1>10, <2>1, OrderKept DEF PullIInv
  <2>2. CASE queue' = Append(queue, m)
    <3>1. Pipe' = Append(Pipe, m) /\ Pipe \in Seq(Message)
      <4>1. /\ Append(queue, m) = queue \o <<m>> /\ <<m>> \in Seq(Message)
            /\ batch \o queue \in Seq(Message)
        BY <1>2, <1>6, <1>10, AppendIsConcat, ConcatProperties
      <4>2. batch \o (queue \o <<m>>) = (batch \o queue) \o <<m>>
        BY <1>6, <1>10, <4>1, ConcatAssociative
      <4>3. Append(batch \o queue, m) = (batch \o queue) \o <<m>>
        BY <1>2, <4>1, AppendIsConcat
      <4>4. QED
        BY <1>10, <2>2, <4>1, <4>2, <4>3 DEF Pipe
    <3>2. InFlight = Elements(Pipe) /\ InFlight \subseteq Message
      BY <3>1, PipeInFlight, ElementsAreMessages DEF PullIInv
    <3>3. InFlight' = InFlight \cup {m}
      BY <1>2, <1>6, <1>10, <2>2, ElementsOfAppend DEF InFlight
    <3>4. \A x \in InFlight \cup handled : x.l \in Loops /\ x.n \in Int /\ x.n <= Passed(x.l)
      BY <1>10, <3>2, PullConsumerAssumption
         DEF PullIInv, BehindPuller, Message, PullConsumerAssumption
    <3>5. \A x \in InFlight \cup handled : x.l = m.l => x.n < m.n
      <4> HIDE DEF Passed
      <4>1. QED
        BY <1>1, <1>3, <3>4
    <3>6. BehindPuller'
      <4>1. ASSUME NEW x \in InFlight \cup handled
            PROVE  x.n <= Passed(x.l)'
        <5>1. /\ x.n \in Int /\ x.n <= Passed(x.l) /\ Passed(x.l) \in Int
              /\ Passed(x.l)' \in Int /\ Passed(x.l) <= Passed(x.l)'
          BY <1>9, <3>4
        <5> HIDE DEF Passed
        <5>2. QED
          BY <5>1
      <4>2. \A x : x = m => x.n <= Passed(x.l)'
        <5>1. m.n = Passed(l)' /\ Passed(l)' \in Int /\ m.l = l
          BY <1>3, <1>5, <1>9
        <5>2. ASSUME NEW x, x = m
              PROVE  x.l = l /\ x.n <= Passed(l)'
          <6> HIDE DEF Passed
          <6>1. QED
            BY <5>1, <5>2
        <5>3. QED
          BY <5>2
      <4>3. (InFlight \cup handled)' = (InFlight \cup handled) \cup {m}
        BY <1>10, <3>3
      <4>4. \A x \in (InFlight \cup handled) \cup {m} : x.n <= Passed(x.l)'
        BY <4>1, <4>2
      <4>5. QED
        BY <4>3, <4>4 DEF BehindPuller
    <3>7. LoopOrder'
      <4>1. Ascending(Pipe)
        BY OrderOfPipe DEF PullIInv
      <4>2. Ascending(Pipe')
        BY <1>2, <3>1, <3>2, <3>5, <4>1, AppendAscends
      <4>3. \A x \in handled', y \in InFlight' : x.l = y.l => x.n < y.n
        BY <1>10, <3>3, <3>5, OrderOfPipe DEF PullIInv
      <4>4. NoGap'
        <5> DEFINE p == Passed(l)
                   g == <<l, p + 1>>
        <5>1. Got' = Got \cup {g}
          <6>1. (InFlight \cup handled)' = (InFlight \cup handled) \cup {m}
            BY <1>10, <3>3
          <6>2. <<m.l, m.n>> = g
            BY <1>3
          <6>3. QED
            BY <6>1, <6>2 DEF Got
        <5>2. \A k \in 1 .. p : <<l, k>> \in Got
          BY <1>1 DEF PullIInv, NothingPassedOver
        <5>3. g[1] = l /\ g[2] - 1 = p
          <6> HIDE DEF Passed
          <6>1. QED
            BY <1>1
        <5>4. NoGap
          BY OrderOfPipe DEF PullIInv
        <5> HIDE DEF g, p
        <5>5. QED
          BY <5>1, <5>2, <5>3, <5>4 DEF NoGap
      <4>5. QED
        BY <4>2, <4>3, <4>4, OrderOfPipe DEF LoopOrder, Ascending, Pipe, NoGap
    <3>8. QED
      BY <3>6, <3>7
  <2>3. QED
    BY <1>4, <2>1, <2>2 DEF m, h
<1>12. PullBatchHandledFirst'
  BY <1>4 DEF PullIInv, PullBatchHandledFirst, pullOtherVars, pullMainVars
<1>13. DrainedFirst'
  <2>1. Enqueuing' = Enqueuing \ {l} /\ l \in Enqueuing
    BY <1>1, <1>5 DEF Enqueuing
  <2>2. /\ Cardinality(Enqueuing') = Cardinality(Enqueuing) - 1
        /\ Cardinality(Enqueuing) \in Nat /\ Cardinality(Loops) \in Nat
    BY <2>1, EnqueuingCounted
  <2>3. remainLen \in Nat
    BY <1>6 DEF PullIInv, PullTypeOK
  <2> DEFINE e == Cardinality(Enqueuing)
             q == Len(queue)
             k == Len(queue')
             n == Cardinality(Loops)
  <2>4. /\ closepc # "idle" => draining
        /\ leftBy = "cancelled" => ctxDone
        /\ ctxDone /\ ~parentDone => draining
        /\ leftBy = "cancelled" /\ ~parentDone =>
             /\ mainpc = "drain" => remainLen <= q /\ q - remainLen + e <= n
             /\ mainpc \in {"finish", "returned"} => q + e <= n
    BY DEF PullIInv, DrainedFirst
  <2>5. UNCHANGED <<ctxVars, leftBy, mainpc, remainLen, closepc>>
    BY <1>4 DEF pullOtherVars, pullMainVars
  <2> HIDE DEF e, q, k, n
  <2>6. /\ remainLen <= q => remainLen <= k
        /\ q - remainLen + e <= n => k - remainLen + (e - 1) <= n
        /\ q + e <= n => k + (e - 1) <= n
    BY <1>6, <2>2, <2>3 DEF e, q, k, n
  <2>7. /\ closepc' # "idle" => draining'
        /\ leftBy' = "cancelled" => ctxDone'
        /\ ctxDone' /\ ~parentDone' => draining'
        /\ leftBy' = "cancelled" /\ ~parentDone' =>
             /\ mainpc' = "drain" => remainLen' <= k /\ k - remainLen' + (e - 1) <= n
             /\ mainpc' \in {"finish", "returned"} => k + (e - 1) <= n
    BY <2>4, <2>5, <2>6 DEF ctxVars
  <2>8. QED
    BY <2>2, <2>7 DEF DrainedFirst, e, k, n
<1>14. NothingPassedOver'
  <2>1. draining' = draining /\ qclosed' = qclosed /\ (qclosed => draining)
    BY <1>4 DEF pullOtherVars, ctxVars, PullIInv, NothingPassedOver
  <2> DEFINE p == Passed(l)
  <2>2. Got \subseteq Got' /\ (queue' = Append(queue, m) => <<l, p + 1>> \in Got')
    <3>1. CASE UNCHANGED queue /\ queue' # Append(queue, m)
      BY <1>10, <3>1 DEF Got, InFlight
    <3>2. CASE queue' = Append(queue, m)
      <4>1. (InFlight \cup handled)' = (InFlight \cup handled) \cup {m}
        BY <1>2, <1>6, <1>10, <3>2, ElementsOfAppend DEF InFlight
      <4>2. <<m.l, m.n>> = <<l, p + 1>>
        BY <1>3
      <4>3. QED
        BY <4>1, <4>2 DEF Got
    <3>3. QED
      BY <1>4, <3>1, <3>2
  <2>3. ASSUME NEW s \in Loops, ppc[s] = "enqueue" \/ ~draining, NEW k \in 1 .. Passed(s)
        PROVE  <<s, k>> \in Got'
    BY <2>2, <2>3 DEF PullIInv, NothingPassedOver
  <2>4. ASSUME NEW s \in Loops, ppc[s]' = "enqueue" \/ ~draining', NEW k \in 1 .. Passed(s)'
        PROVE  <<s, k>> \in Got'
    <3>1. CASE s # l
      <4>1. ppc[s] = ppc[s]' /\ Passed(s)' = Passed(s)
        BY <1>5, <3>1
      <4> HIDE DEF Passed
      <4>2. QED
        BY <2>1, <2>3, <2>4, <4>1
    <3>2. CASE s = l
      <4>1. ~draining /\ queue' = Append(queue, m) /\ Passed(s)' = p + 1
        BY <1>4, <1>5, <2>1, <2>4, <3>2
      <4>2. p \in Int
        BY <1>1
      <4> HIDE DEF p
      <4>3. k \in 1 .. p \/ k = p + 1
        BY <2>4, <4>1, <4>2
      <4>4. QED
        BY <2>2, <2>3, <3>2, <4>1, <4>3 DEF p
    <3>3. QED
      BY <3>1, <3>2
  <2>5. QED
    BY <2>1, <2>4 DEF NothingPassedOver
<1>15. QED
  BY <1>7, <1>8, <1>11, <1>12, <1>13, <1>14 DEF PullIInv

(* A step that moves no message.                                             *)
LEMMA PipeStill ==
  ASSUME PullIInv, UNCHANGED <<pullerVars, queue, batch, handled>>,
         draining => draining', qclosed' => draining'
  PROVE  /\ HandsNumbered' /\ BehindPuller' /\ LoopOrder' /\ NothingPassedOver'
         /\ Enqueuing' = Enqueuing
<1>1. HandsNumbered' /\ Enqueuing' = Enqueuing
  BY DEF PullIInv, HandsNumbered, Passed, pullerVars, Enqueuing
<1>2. \A l \in Loops : Passed(l) \in Int /\ Passed(l)' = Passed(l)
  BY HandNumbers DEF PullIInv, Passed, pullerVars
<1>3. \A l \in Loops : Passed(l) \in Int /\ Passed(l)' \in Int /\ Passed(l) <= Passed(l)'
  BY <1>2
<1>4. NothingPassedOver'
  <2>1. (InFlight \cup handled)' = InFlight \cup handled /\ UNCHANGED ppc
    BY DEF InFlight, pullerVars
  <2>2. QED
    BY <1>2, <2>1, PassedOverKept DEF PullIInv
<1>5. QED
  BY <1>1, <1>3, <1>4, OrderKept DEF PullIInv

(* The steps of SyncSubscribe between its looks at the queue                 *)
(* (sub.go:440-468, 477-479, 487-493).                                       *)
LEMMA PullMainQuietStep ==
  ASSUME PullIInv, PullMainStart \/ PullLoopStop \/ PullLoopTurn \/ PullMainRemain \/ PullMainReturn
  PROVE  PullIInv'
<1>1. UNCHANGED <<ctxVars, mq, queue, qclosed, pullerVars, batch, closepc, handled>>
  BY DEF PullMainStart, PullLoopStop, PullLoopTurn, PullMainRemain, PullMainReturn
<1>2. /\ HandsNumbered' /\ BehindPuller' /\ LoopOrder' /\ NothingPassedOver'
      /\ Enqueuing' = Enqueuing
  <2>1. (draining => draining') /\ (qclosed' => draining')
    BY <1>1 DEF ctxVars, PullIInv, NothingPassedOver
  <2>2. QED
    BY <1>1, <2>1, PipeStill
<1>3. /\ Len(queue) \in 0 .. ChanSize /\ Len(queue) \in Nat
      /\ Cardinality(Enqueuing) \in Nat /\ Cardinality(Loops) \in Nat
      /\ Cardinality(Enqueuing) <= Cardinality(Loops)
  BY EnqueuingCounted, PullConsumerAssumption DEF PullIInv, PullTypeOK, PullConsumerAssumption
<1>4. PullTypeOK'
  <2>1. /\ mainpc' \in {"spawned", "loop", "look", "handle", "remain", "drain", "finish",
                        "returned"}
        /\ leftBy' \in {"none", "cancelled", "failed"}
    BY DEF PullIInv, PullTypeOK, PullMainStart, PullLoopStop, PullLoopTurn, PullMainRemain,
         PullMainReturn
  <2>2. remainLen' \in 0 .. ChanSize
    BY <1>3 DEF PullIInv, PullTypeOK, PullMainStart, PullLoopStop, PullLoopTurn,
         PullMainRemain, PullMainReturn
  <2>3. QED
    BY <1>1, <2>1, <2>2 DEF PullIInv, PullTypeOK, ctxVars, pullerVars
<1>5. PullBatchHandledFirst'
  BY <1>1 DEF PullIInv, PullBatchHandledFirst, PullMainStart, PullLoopStop, PullLoopTurn,
       PullMainRemain, PullMainReturn
<1>6. DrainedFirst'
  <2>1. CASE PullMainStart \/ PullLoopTurn
    BY <1>1, <2>1 DEF PullIInv, DrainedFirst, ctxVars, PullMainStart, PullLoopTurn
  <2>2. CASE PullLoopStop
    BY <1>1, <2>2 DEF PullIInv, DrainedFirst, ctxVars, PullLoopStop
  <2>3. CASE PullMainReturn
    BY <1>1, <1>2, <2>3 DEF PullIInv, DrainedFirst, ctxVars, PullMainReturn
  <2>4. CASE PullMainRemain
    <3>1. Len(queue) - Len(queue) + Cardinality(Enqueuing) <= Cardinality(Loops)
      BY <1>3
    <3>2. mainpc' = "drain" /\ remainLen' = Len(queue) /\ UNCHANGED leftBy
      BY <2>4 DEF PullMainRemain
    <3>3. Len(queue') = Len(queue) /\ Len(queue) <= Len(queue)
      BY <1>1, <1>3
    <3>4. /\ closepc' # "idle" => draining'
          /\ leftBy' = "cancelled" => ctxDone'
          /\ ctxDone' /\ ~parentDone' => draining'
      BY <1>1, <3>2 DEF PullIInv, DrainedFirst, ctxVars
    <3>5. QED
      BY <1>2, <3>1, <3>2, <3>3, <3>4 DEF DrainedFirst
  <2>5. QED
    BY <2>1, <2>2, <2>3, <2>4
<1>7. QED
  BY <1>2, <1>4, <1>5, <1>6 DEF PullIInv

(* The steps of Close, of the client and of the parent                       *)
(* (sub.go:451-458, 495-527).                                                *)
LEMMA PullCloserStep ==
  ASSUME PullIInv, PullCloser \/ PullCloseCall \/ PullClientStart \/ PullParentCancel
  PROVE  PullIInv'
<1>1. UNCHANGED <<queue, pullerVars, pullMainVars, handled>>
  BY DEF PullCloser, PullCloseCall, PullClientStart, PullParentCancel, PullCloseCancel,
       PullCloseQueue, PullCloseShutdown, PullCloseReturn
<1>2. /\ HandsNumbered' /\ BehindPuller' /\ LoopOrder' /\ NothingPassedOver'
      /\ Enqueuing' = Enqueuing
  <2>1. (draining => draining') /\ (qclosed' => draining')
    BY DEF PullCloser, PullCloseCall, PullClientStart, PullParentCancel, PullCloseCancel,
         PullCloseQueue, PullCloseShutdown, PullCloseReturn, ctxVars, PullIInv,
         NothingPassedOver, DrainedFirst
  <2>2. QED
    BY <1>1, <2>1, PipeStill DEF pullMainVars
<1>3. PullTypeOK'
  <2>1. /\ {draining, ctxDone, parentDone, qclosed}' \subseteq BOOLEAN
        /\ mq' \in {"new", "running", "failed", "shutdown"}
        /\ closepc' \in {"idle", "cancel", "queue", "shutdown", "wait", "returned"}
    BY DEF PullIInv, PullTypeOK, PullCloser, PullCloseCall, PullClientStart,
         PullParentCancel, PullCloseCancel, PullCloseQueue, PullCloseShutdown,
         PullCloseReturn, ctxVars
  <2>2. QED
    BY <1>1, <2>1 DEF PullIInv, PullTypeOK, pullerVars, pullMainVars
<1>4. PullBatchHandledFirst'
  BY <1>1 DEF PullIInv, PullBatchHandledFirst, pullMainVars
<1>5. DrainedFirst'
  <2>1. /\ closepc' # "idle" => draining'
        /\ leftBy' = "cancelled" => ctxDone'
        /\ ctxDone' /\ ~parentDone' => draining'
        /\ parentDone => parentDone'
    BY <1>1 DEF PullIInv, DrainedFirst, PullCloser, PullCloseCall, PullClientStart,
         PullParentCancel, PullCloseCancel, PullCloseQueue, PullCloseShutdown,
         PullCloseReturn, ctxVars, pullMainVars
  <2>2. QED
    BY <1>1, <1>2, <2>1 DEF PullIInv, DrainedFirst, pullMainVars
<1>6. QED
  BY <1>2, <1>3, <1>4, <1>5 DEF PullIInv

(* A batch dequeue into the empty buffer moves the oldest messages from the  *)
(* queue to the buffer: the pipe is the same.                                *)
LEMMA TakeKeepsPipe ==
  ASSUME PullIInv, NEW n \in 0 .. ChanSize, batch = << >>,
         batch' = Taken(queue, n), queue' = Left(queue, n),
         UNCHANGED <<draining, qclosed, pullerVars, handled>>
  PROVE  /\ HandsNumbered' /\ BehindPuller' /\ LoopOrder' /\ NothingPassedOver'
         /\ Enqueuing' = Enqueuing
         /\ batch' \in Seq(Message) /\ Len(batch') <= ChanSize /\ Len(batch') <= n
         /\ queue' \in Seq(Message) /\ Len(queue') <= ChanSize /\ Len(queue') \in Nat
         /\ Len(batch') \in Nat /\ Len(batch') + Len(queue') = Len(queue)
         /\ queue # << >> /\ n # 0 => batch' # << >>
<1>1. /\ queue \in Seq(Message) /\ Len(queue) \in Nat /\ Len(queue) <= ChanSize
      /\ batch \in Seq(Message) /\ ChanSize \in Nat /\ n \in Nat /\ n <= ChanSize
      /\ handled \subseteq Message
  BY PullConsumerAssumption DEF PullIInv, PullTypeOK, PullConsumerAssumption
<1>2. /\ batch' \in Seq(Message) /\ queue' \in Seq(Message)
      /\ Elements(queue) = Elements(batch') \cup Elements(queue')
      /\ Len(batch') <= n /\ Len(queue') <= Len(queue)
      /\ Len(batch') \in Nat /\ Len(queue') \in Nat
      /\ Len(batch') + Len(queue') = Len(queue)
      /\ queue # << >> /\ n # 0 => batch' # << >>
  BY <1>1, TakenAndLeft, TakenThenLeft
<1>3. Len(batch') <= ChanSize /\ Len(queue') <= ChanSize
  BY <1>1, <1>2
<1>4. Pipe' = Pipe
  <2>1. batch' \o queue' = queue
    BY <1>1, TakenJoinsLeft
  <2>2. batch \o queue = queue
    BY <1>1, ConcatEmptySeq
  <2>3. QED
    BY <2>1, <2>2 DEF Pipe
<1>5. InFlight' = InFlight
  BY <1>2, ElementsOfEmpty DEF InFlight
<1>6. HandsNumbered' /\ Enqueuing' = Enqueuing
  BY DEF PullIInv, HandsNumbered, Passed, pullerVars, Enqueuing
<1>7. BehindPuller'
  BY <1>5 DEF PullIInv, BehindPuller, Passed, pullerVars
<1>8. LoopOrder'
  <2>1. Ascending(Pipe) /\ \A h \in handled, m \in InFlight : h.l = m.l => h.n < m.n
    BY OrderOfPipe DEF PullIInv
  <2>2. Ascending(Pipe') /\ \A h \in handled', m \in InFlight' : h.l = m.l => h.n < m.n
    BY <1>4, <1>5, <2>1
  <2>3. NoGap'
    <3>1. Got' = Got /\ NoGap
      BY <1>5, OrderOfPipe DEF PullIInv, Got
    <3>2. QED
      BY <3>1 DEF NoGap
  <2>4. QED
    BY <2>2, <2>3, OrderOfPipe DEF LoopOrder, Ascending, Pipe, NoGap
<1>9. NothingPassedOver'
  <2>1. (InFlight \cup handled)' = InFlight \cup handled /\ UNCHANGED ppc
    BY <1>5 DEF pullerVars
  <2>2. \A l \in Loops : Passed(l)' = Passed(l)
    BY DEF Passed, pullerVars
  <2>3. qclosed' => draining'
    BY DEF PullIInv, NothingPassedOver
  <2>4. QED
    BY <2>1, <2>2, <2>3, PassedOverKept DEF PullIInv
<1>10. QED
  BY <1>2, <1>3, <1>6, <1>7, <1>8, <1>9

(* The two looks at the queue: the loop's for one message and the drain's    *)
(* for as many as it read (sub.go:469-475, 481-482).                         *)
LEMMA PullTakeStep ==
  ASSUME PullIInv, PullLoopTake \/ PullMainDrain
  PROVE  PullIInv'
<1>1. /\ UNCHANGED <<ctxVars, mq, qclosed, pullerVars, remainLen, leftBy, closepc, handled>>
      /\ batch = << >> /\ 1 \in 0 .. ChanSize /\ remainLen \in 0 .. ChanSize
      /\ ChanSize \in Nat
  BY PullConsumerAssumption DEF PullIInv, PullTypeOK, PullBatchHandledFirst, PullLoopTake,
       PullMainDrain, PullConsumerAssumption
<1>2. PICK n \in 0 .. ChanSize :
        /\ batch' = Taken(queue, n) /\ queue' = Left(queue, n)
        /\ mainpc = "look" => n = 1 /\ mainpc' = IF queue = << >> THEN "loop" ELSE "handle"
        /\ mainpc = "drain" => n = remainLen /\ mainpc' = "finish"
        /\ mainpc \in {"look", "drain"}
  BY <1>1 DEF PullLoopTake, PullMainDrain
<1>3. /\ HandsNumbered' /\ BehindPuller' /\ LoopOrder' /\ NothingPassedOver'
      /\ Enqueuing' = Enqueuing
      /\ batch' \in Seq(Message) /\ Len(batch') <= ChanSize /\ Len(batch') <= n
      /\ queue' \in Seq(Message) /\ Len(queue') <= ChanSize /\ Len(queue') \in Nat
      /\ Len(batch') \in Nat /\ Len(batch') + Len(queue') = Len(queue)
      /\ queue # << >> /\ n # 0 => batch' # << >>
  BY <1>1, <1>2, TakeKeepsPipe DEF ctxVars
<1>4. PullTypeOK'
  <2>1. mainpc' \in {"loop", "handle", "finish"}
    BY <1>2
  <2>2. QED
    BY <1>1, <1>3, <2>1 DEF PullIInv, PullTypeOK, ctxVars, pullerVars
<1>5. queue \in Seq(Message) /\ Len(queue) \in Nat
  BY DEF PullIInv, PullTypeOK
<1>6. PullBatchHandledFirst'
  <2>1. mainpc' = "handle" => Len(batch') = 1
    <3>1. batch' # << >> => Len(batch') # 0
      BY <1>3, EmptySeq
    <3>2. mainpc' = "handle" => n = 1 /\ queue # << >>
      BY <1>2
    <3>3. Len(batch') \in Nat /\ Len(batch') <= n
      BY <1>3
    <3>4. n = 1 /\ queue # << >> => batch' # << >>
      BY <1>3
    <3>5. n = 1 /\ queue # << >> => Len(batch') = 1
      <4> DEFINE k == Len(batch')
      <4>1. k \in Nat /\ k <= n
        BY <3>3
      <4>2. n = 1 /\ queue # << >> => k # 0
        BY <3>1, <3>4
      <4> HIDE DEF k
      <4>3. n = 1 /\ queue # << >> => k = 1
        BY <4>1, <4>2
      <4>4. QED
        BY <4>3 DEF k
    <3>6. QED
      BY <3>2, <3>5
  <2>2. mainpc' = "loop" => batch' = << >>
    <3>1. queue = << >> => Len(batch') = 0
      <4>1. queue = << >> => Len(queue) = 0
        OBVIOUS
      <4>2. QED
        BY <1>3, <4>1
    <3>2. Len(batch') = 0 => batch' = << >>
      BY <1>3, EmptySeq
    <3>3. QED
      BY <1>2, <3>1, <3>2
  <2>3. QED
    BY <1>2, <2>1, <2>2 DEF PullBatchHandledFirst
<1>7. DrainedFirst'
  <2>1. CASE mainpc = "look"
    <3>1. mainpc' \in {"loop", "handle"}
      BY <1>2, <2>1
    <3>2. QED
      BY <1>1, <2>1, <3>1 DEF PullIInv, DrainedFirst, ctxVars
  <2>2. CASE mainpc = "drain"
    <3> DEFINE e == Cardinality(Enqueuing)
               c == Cardinality(Loops)
    <3>1. remainLen <= Len(queue) => Len(queue') = Len(queue) - remainLen
      <4>1. batch' = SubSeq(queue, 1, IF remainLen < Len(queue) THEN remainLen ELSE Len(queue))
        BY <1>2, <2>2 DEF Taken
      <4>2. remainLen \in Nat
        BY <1>1
      <4>3. remainLen <= Len(queue) => Len(batch') = remainLen
        BY <1>5, <4>1, <4>2
      <4>4. QED
        BY <1>3, <1>5, <4>2, <4>3
    <3>2. mainpc' = "finish"
      BY <1>2, <2>2
    <3>3. /\ closepc # "idle" => draining
          /\ leftBy = "cancelled" => ctxDone
          /\ ctxDone /\ ~parentDone => draining
          /\ leftBy = "cancelled" /\ ~parentDone =>
               remainLen <= Len(queue) /\ Len(queue) - remainLen + e <= c
      BY <2>2 DEF PullIInv, DrainedFirst
    <3> HIDE DEF e, c
    <3>4. leftBy = "cancelled" /\ ~parentDone => Len(queue') + e <= c
      BY <3>1, <3>3
    <3>5. QED
      BY <1>1, <1>3, <3>2, <3>3, <3>4 DEF DrainedFirst, ctxVars, e, c
  <2>3. QED
    BY <1>2, <2>1, <2>2
<1>8. QED
  BY <1>3, <1>4, <1>6, <1>7 DEF PullIInv

(* The application gets the oldest message (sub.go:469-470, 484-486).        *)
LEMMA PullHandleStep ==
  ASSUME PullIInv, PullLoopHandle \/ PullMainHandle
  PROVE  PullIInv'
<1>1. /\ UNCHANGED <<ctxVars, mq, queue, qclosed, pullerVars, remainLen, leftBy, closepc>>
      /\ handled' = handled \cup {Head(batch)} /\ batch' = Tail(batch) /\ batch # << >>
      /\ \/ mainpc = "handle" /\ mainpc' = "loop"
         \/ mainpc = "finish" /\ mainpc' = "finish"
  <2>1. CASE PullLoopHandle
    <3>1. mainpc = "handle" /\ Len(batch) = 1 /\ batch \in Seq(Message)
      BY <2>1 DEF PullIInv, PullTypeOK, PullBatchHandledFirst, PullLoopHandle
    <3>2. batch # << >>
      BY <3>1
    <3>3. mainpc' = "loop" /\ PullHandle
      BY <2>1 DEF PullLoopHandle
    <3>4. QED
      BY <3>1, <3>2, <3>3 DEF PullHandle
  <2>2. CASE PullMainHandle
    BY <2>2 DEF PullMainHandle, PullHandle
  <2>3. QED
    BY <2>1, <2>2
<1>2. /\ batch \in Seq(Message) /\ Len(batch) <= ChanSize /\ Len(batch) \in Nat
      /\ queue \in Seq(Message) /\ ChanSize \in Nat /\ handled \subseteq Message
  BY PullConsumerAssumption DEF PullIInv, PullTypeOK, PullConsumerAssumption
<1>3. /\ Head(batch) \in Message /\ Tail(batch) \in Seq(Message)
      /\ Elements(batch) = Elements(Tail(batch)) \cup {Head(batch)}
      /\ Len(Tail(batch)) = Len(batch) - 1
  BY <1>1, <1>2, HeadAndTail
<1>4. PICK m \in Message : m = Head(batch)
  BY <1>3
<1>5. PullTypeOK'
  <2>1. batch' \in Seq(Message) /\ Len(batch') <= ChanSize
    BY <1>1, <1>2, <1>3
  <2>2. handled' \subseteq Message
    BY <1>1, <1>2, <1>3
  <2>3. mainpc' \in {"loop", "finish"}
    BY <1>1
  <2>4. QED
    BY <1>1, <2>1, <2>2, <2>3 DEF PullIInv, PullTypeOK, ctxVars, pullerVars
<1>6. HandsNumbered' /\ Enqueuing' = Enqueuing
  BY <1>1 DEF PullIInv, HandsNumbered, Passed, pullerVars, Enqueuing
<1>7. /\ InFlight = InFlight' \cup {m} /\ handled' = handled \cup {m}
  BY <1>1, <1>3, <1>4 DEF InFlight
<1>8. BehindPuller'
  BY <1>1, <1>7 DEF PullIInv, BehindPuller, Passed, pullerVars
<1>9. PullBatchHandledFirst'
  <2>1. mainpc = "handle" => Len(batch') = 0
    BY <1>1, <1>2, <1>3 DEF PullIInv, PullBatchHandledFirst
  <2>2. mainpc = "handle" => batch' = << >>
    BY <1>1, <1>3, <2>1, EmptySeq
  <2>3. QED
    BY <1>1, <2>2 DEF PullBatchHandledFirst
<1>10. LoopOrder'
  <2>1. /\ Pipe \in Seq(Message) /\ Pipe # << >> /\ Head(Pipe) = m
        /\ Pipe' = Tail(Pipe)
    <3>1. /\ Pipe \in Seq(Message) /\ Len(Pipe) = Len(batch) + Len(queue)
          /\ \A i \in 1 .. Len(batch) + Len(queue) :
               Pipe[i] = IF i <= Len(batch) THEN batch[i] ELSE queue[i - Len(batch)]
      BY <1>2, ConcatProperties DEF Pipe
    <3>2. Len(batch) >= 1 /\ Len(queue) \in Nat /\ Head(batch) = batch[1]
      BY <1>1, <1>2, EmptySeq
    <3>3. Pipe[1] = m /\ Len(Pipe) >= 1 /\ Pipe # << >>
      BY <1>2, <1>4, <3>1, <3>2
    <3> DEFINE u == Tail(batch) \o queue
               v == Tail(Pipe)
    <3>4. /\ u \in Seq(Message) /\ Len(u) = Len(batch) - 1 + Len(queue)
          /\ \A i \in 1 .. Len(batch) - 1 + Len(queue) :
               u[i] = IF i <= Len(batch) - 1 THEN Tail(batch)[i] ELSE queue[i - (Len(batch) - 1)]
      BY <1>2, <1>3, ConcatProperties
    <3>5. /\ v \in Seq(Message) /\ Len(v) = Len(Pipe) - 1
          /\ \A i \in 1 .. Len(Pipe) - 1 : v[i] = Pipe[i + 1]
          /\ Head(Pipe) = Pipe[1]
      BY <3>1, <3>3, HeadTailProperties
    <3>6. \A i \in 1 .. Len(batch) - 1 : Tail(batch)[i] = batch[i + 1]
      BY <1>1, <1>2, <1>3, HeadTailProperties
    <3> HIDE DEF u, v
    <3>7. Len(u) = Len(v)
      BY <1>2, <3>1, <3>2, <3>4, <3>5
    <3>8. ASSUME NEW i \in 1 .. Len(u)
          PROVE  u[i] = v[i]
      <4>1. i \in 1 .. Len(batch) - 1 + Len(queue) /\ i \in 1 .. Len(Pipe) - 1
        BY <1>2, <3>1, <3>2, <3>4
      <4>2. i + 1 \in 1 .. Len(batch) + Len(queue) /\ v[i] = Pipe[i + 1]
        BY <1>2, <3>2, <3>5, <4>1
      <4>3. CASE i <= Len(batch) - 1
        <5>1. u[i] = batch[i + 1]
          BY <1>2, <3>4, <3>6, <4>1, <4>3
        <5>2. Pipe[i + 1] = batch[i + 1]
          BY <1>2, <3>1, <4>2, <4>3
        <5>3. QED
          BY <4>2, <5>1, <5>2
      <4>4. CASE ~ i <= Len(batch) - 1
        <5>1. u[i] = queue[i - (Len(batch) - 1)]
          BY <3>4, <4>1, <4>4
        <5>2. Pipe[i + 1] = queue[i + 1 - Len(batch)] /\ i + 1 - Len(batch) = i - (Len(batch) - 1)
          BY <1>2, <3>1, <4>1, <4>2, <4>4
        <5>3. QED
          BY <4>2, <5>1, <5>2
      <4>5. QED
        BY <4>3, <4>4
    <3>9. u = v
      BY <3>4, <3>5, <3>7, <3>8, SeqEqual
    <3>10. Pipe' = u
      BY <1>1 DEF Pipe, u
    <3>11. QED
      BY <3>1, <3>3, <3>5, <3>9, <3>10 DEF v
  <2>2. Ascending(Pipe) /\ \A h \in handled, x \in InFlight : h.l = x.l => h.n < x.n
    BY OrderOfPipe DEF PullIInv
  <2>3. /\ Ascending(Tail(Pipe))
        /\ \A x \in Elements(Tail(Pipe)) : x.l = m.l => m.n < x.n
    BY <2>1, <2>2, TailAscends
  <2>4. InFlight' = Elements(Pipe')
    <3>1. batch' \in Seq(Message) /\ queue' \in Seq(Message)
      BY <1>1, <1>2, <1>3
    <3>2. Elements(batch' \o queue') = Elements(batch') \cup Elements(queue')
      BY <3>1, ElementsOfConcat
    <3>3. QED
      BY <3>2 DEF InFlight, Pipe
  <2>5. ASSUME NEW h \in handled', NEW x \in InFlight', h.l = x.l
        PROVE  h.n < x.n
    <3>1. CASE h = m
      BY <2>1, <2>3, <2>4, <2>5, <3>1
    <3>2. CASE h # m
      BY <1>7, <2>2, <2>5, <3>2
    <3>3. QED
      BY <3>1, <3>2
  <2>6. Ascending(Pipe')
    BY <2>1, <2>3
  <2>7. NoGap'
    <3>1. (InFlight \cup handled)' = InFlight \cup handled
      BY <1>7
    <3>2. Got' = Got /\ NoGap
      BY <3>1, OrderOfPipe DEF PullIInv, Got
    <3>3. QED
      BY <3>2 DEF NoGap
  <2>8. QED
    BY <2>5, <2>6, <2>7, OrderOfPipe DEF LoopOrder, Ascending, Pipe, NoGap
<1>11. DrainedFirst'
  BY <1>1, <1>6 DEF PullIInv, DrainedFirst, ctxVars
<1>12. NothingPassedOver'
  <2>1. (InFlight \cup handled)' = InFlight \cup handled
    BY <1>7
  <2>2. /\ qclosed' => draining'
        /\ UNCHANGED <<ppc, draining>> /\ \A l \in Loops : Passed(l)' = Passed(l)
    BY <1>1 DEF PullIInv, NothingPassedOver, ctxVars, pullerVars, Passed
  <2>3. QED
    BY <2>1, <2>2, PassedOverKept DEF PullIInv
<1>13. QED
  BY <1>5, <1>6, <1>8, <1>9, <1>10, <1>11, <1>12 DEF PullIInv
-----------------------------------------------------------------------------
(* Every step keeps the inductive invariant.                                 *)
LEMMA PullInvariance == PullSpec => []PullIInv
<1>1. PullIInv /\ [PullNext]_pullVars => PullIInv'
  <2> SUFFICES ASSUME PullIInv, [PullNext]_pullVars PROVE PullIInv'
    OBVIOUS
  <2>1. CASE PullMain
    BY <2>1, PullMainQuietStep, PullTakeStep, PullHandleStep DEF PullMain
  <2>2. CASE PullCloser \/ PullCloseCall \/ PullClientStart \/ PullParentCancel
    BY <2>2, PullCloserStep
  <2>3. ASSUME NEW l \in Loops, Puller(l)
        PROVE  PullIInv'
    BY <2>3, PullerTurnStep, PullerCheckStep, PullerEnqueueStep DEF Puller
  <2>4. ASSUME NEW l \in Loops, NEW n \in 1 .. PullSize, PullerFound(l, n)
        PROVE  PullIInv'
    BY <2>4, PullerFoundStep
  <2>5. CASE UNCHANGED pullVars
    <3>1. /\ HandsNumbered' /\ BehindPuller' /\ LoopOrder' /\ NothingPassedOver'
          /\ Enqueuing' = Enqueuing
      BY <2>5, PipeStill DEF pullVars, pullMainVars, ctxVars, PullIInv, NothingPassedOver
    <3>2. PullTypeOK' /\ PullBatchHandledFirst'
      BY <2>5 DEF PullIInv, PullTypeOK, PullBatchHandledFirst, pullVars, ctxVars,
           pullerVars, pullMainVars
    <3>3. DrainedFirst'
      BY <2>5, <3>1 DEF PullIInv, DrainedFirst, pullVars, ctxVars, pullMainVars
    <3>4. QED
      BY <3>1, <3>2, <3>3 DEF PullIInv
  <2>6. QED
    BY <2>1, <2>2, <2>3, <2>4, <2>5 DEF PullNext, PullTerminating
<1>2. QED
  BY <1>1, PullInitInv, PTL DEF PullSpec

(* A pull consumer's queue, its buffer and the hands of its pull loops stay  *)
(* within their sizes (sub.go:262-350).                                      *)
THEOREM PullTypeCorrect == PullSpec => []PullTypeOK
<1>1. PullIInv => PullTypeOK
  BY DEF PullIInv
<1>2. QED
  BY <1>1, PullInvariance, PTL

(* Of what a pull loop brings the application gets a prefix, in the order of *)
(* the pulls and each message once, whenever Close begins and whichever      *)
(* loop waits on a full queue then (sub.go:365-369, 469-486, 497-513).       *)
THEOREM LoopOrderHolds == PullSpec => []LoopOrder
<1>1. PullIInv => LoopOrder
  BY DEF PullIInv
<1>2. QED
  BY <1>1, PullInvariance, PTL

(* After a plain Close the drain has left one message of each pull loop      *)
(* behind at most (sub.go:365-369, 477-486, 497-502).                        *)
THEOREM LeftoverBoundedHolds == PullSpec => []LeftoverBounded
<1>1. PullIInv => LeftoverBounded
  <2> SUFFICES ASSUME PullIInv, mainpc = "returned", leftBy = "cancelled", ~parentDone
               PROVE  Len(queue) <= Cardinality(Loops)
    BY DEF LeftoverBounded
  <2>1. Len(queue) + Cardinality(Enqueuing) <= Cardinality(Loops)
    BY DEF PullIInv, DrainedFirst
  <2>2. Len(queue) \in Nat
    BY DEF PullIInv, PullTypeOK
  <2>3. QED
    BY <2>1, <2>2, EnqueuingCounted
<1>2. QED
  BY <1>1, PullInvariance, PTL
=============================================================================
