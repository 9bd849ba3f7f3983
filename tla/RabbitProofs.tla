---------------------------- MODULE RabbitProofs ----------------------------
(* RabbitProducer, for every queue size and number of messages: its types,   *)
(* DrainsBeforeExit, and that it keeps the promise of Outbox.                *)
(*                                                                           *)
(* RabbitConsumer, for every set of handlers and of messages and for both    *)
(* commit modes: its types, QuietAfterExit and RemovedWereShown.             *)
EXTENDS RabbitProducer, RabbitConsumer, LockedRingBufferProofs

(* RabbitProducer                                                            *)

\* Messages that left the batch.
Settled == accepted - Len(queue) - Len(batch)

(* Batch and queue together are the accepted messages that are not settled   *)
(* yet, in the order of Publish.                                             *)
InOrder ==
  /\ Settled \in 0 .. accepted
  /\ Numbered(batch, Settled)
  /\ Numbered(queue, Settled + Len(batch))

(* What left the batch was sent.                                             *)
SettledSent == \A k \in 1 .. Settled : k \in Elements(sent)

(* The sender runs after Start spawned it, has a batch while it sends, and   *)
(* leaves with nothing left unless it gave up.                               *)
Positions ==
  /\ startpc \in {"idle", "spawn"} => wpc = "off"
  /\ wpc \in {"off", "take"} => batch = << >>
  /\ wpc \in {"send", "failed"} => batch # << >>
  /\ wpc = "exited" /\ ~gaveUp => batch = << >> /\ queue = << >> /\ qclosed

IInv == TypeOK /\ InOrder /\ SettledSent /\ Positions

(* NewProducer makes an empty queue and starts nothing (pub.go:32-75).       *)
LEMMA InitInv == Init => IInv
<1> SUFFICES ASSUME Init PROVE IInv
  OBVIOUS
<1>1. /\ queue = << >> /\ batch = << >> /\ sent = << >> /\ accepted = 0 /\ echoes = 0
      /\ MaxMessages \in Nat /\ MaxEchoes \in Nat /\ QueueSize \in Nat
  BY RabbitProducerAssumption DEF Init, RabbitProducerAssumption
<1>2. Len(<< >>) = 0 /\ << >> \in Seq(1 .. 0)
  OBVIOUS
<1>3. /\ accepted \in 0 .. MaxMessages /\ echoes \in 0 .. MaxEchoes
      /\ queue \in Seq(1 .. accepted) /\ Len(queue) <= QueueSize
      /\ batch \in Seq(1 .. accepted) /\ Len(batch) <= QueueSize
      /\ sent \in Seq(1 .. accepted)
  BY <1>1, <1>2
<1>4. TypeOK
  BY <1>3 DEF Init, TypeOK
<1>5. Settled = 0
  <2>1. Len(queue) = 0 /\ Len(batch) = 0
    BY <1>1, <1>2
  <2>2. accepted = 0
    BY <1>1
  <2>3. QED
    BY <2>1, <2>2 DEF Settled
<1>6. InOrder /\ SettledSent
  BY <1>1, <1>2, <1>5 DEF InOrder, SettledSent, Numbered
<1>7. Positions
  BY DEF Init, Positions
<1>8. QED
  BY <1>4, <1>6, <1>7 DEF IInv

(* What the arithmetic of the steps needs of the types.                      *)
LEMMA Lengths ==
  ASSUME IInv
  PROVE  /\ accepted \in Nat /\ Len(queue) \in Nat /\ Len(batch) \in Nat
         /\ Settled \in Nat /\ Settled + Len(batch) + Len(queue) = accepted
         /\ QueueSize \in Nat \ {0} /\ MaxMessages \in Nat /\ MaxEchoes \in Nat
<1>1. /\ accepted \in 0 .. MaxMessages /\ QueueSize \in Nat \ {0}
      /\ MaxMessages \in Nat /\ MaxEchoes \in Nat
      /\ queue \in Seq(1 .. accepted) /\ batch \in Seq(1 .. accepted)
  BY RabbitProducerAssumption DEF IInv, TypeOK, RabbitProducerAssumption
<1>2. Len(queue) \in Nat /\ Len(batch) \in Nat /\ Settled \in 0 .. accepted
  BY <1>1 DEF IInv, InOrder
<1>3. QED
  BY <1>1, <1>2 DEF Settled

(* Publish appends the next number (pub.go:172-177).                         *)
LEMMA PublishStep ==
  ASSUME IInv, Publish
  PROVE  IInv' /\ accepted' = accepted + 1 /\ Settled' = Settled /\ UNCHANGED <<sent, draining>>
<1> DEFINE m == accepted + 1
<1>1. /\ accepted < MaxMessages /\ ~qclosed /\ Len(queue) < QueueSize
      /\ accepted' = m /\ queue' = Append(queue, m)
      /\ UNCHANGED <<draining, ctxDone, qclosed, startpc, wpc, batch, closepc, released,
                     sent, gaveUp, echoes>>
  BY DEF Publish, Room, Accepts
<1>2. /\ accepted \in Nat /\ Len(queue) \in Nat /\ Len(batch) \in Nat /\ Settled \in Nat
      /\ Settled + Len(batch) + Len(queue) = accepted
      /\ QueueSize \in Nat /\ MaxMessages \in Nat
  BY Lengths
<1>3. 1 .. accepted \subseteq 1 .. m /\ m \in 1 .. m
  BY <1>2
<1>4. /\ queue \in Seq(1 .. m) /\ batch \in Seq(1 .. m) /\ sent \in Seq(1 .. m)
  <2>1. /\ queue \in Seq(1 .. accepted) /\ batch \in Seq(1 .. accepted)
        /\ sent \in Seq(1 .. accepted)
    BY DEF IInv, TypeOK
  <2> HIDE DEF m
  <2>2. QED
    BY <1>3, <2>1, WiderSeq
<1>5. /\ queue' \in Seq(1 .. m) /\ Len(queue') = Len(queue) + 1
      /\ Numbered(queue', Settled + Len(batch))
  <2>1. Numbered(queue, Settled + Len(batch)) /\ Settled + Len(batch) \in Nat
    BY <1>2 DEF IInv, InOrder
  <2>2. m = Settled + Len(batch) + Len(queue) + 1
    BY <1>2
  <2> HIDE DEF m
  <2>3. QED
    BY <1>1, <1>3, <1>4, <2>1, <2>2, NumberedAppend
<1>6. Settled' = Settled
  BY <1>1, <1>2, <1>5 DEF Settled
<1>7. TypeOK'
  <2>1. accepted' \in 0 .. MaxMessages /\ Len(queue') <= QueueSize
    BY <1>1, <1>2, <1>5
  <2>2. queue' \in Seq(1 .. accepted') /\ batch' \in Seq(1 .. accepted')
        /\ sent' \in Seq(1 .. accepted')
    BY <1>1, <1>4, <1>5
  <2> HIDE DEF m
  <2>3. QED
    BY <1>1, <2>1, <2>2 DEF IInv, TypeOK
<1>8. InOrder'
  <2>1. Settled' \in 0 .. accepted'
    BY <1>1, <1>2, <1>6
  <2>2. QED
    BY <1>1, <1>5, <1>6, <2>1 DEF IInv, InOrder
<1>9. SettledSent'
  BY <1>1, <1>6 DEF IInv, SettledSent
<1>10. Positions'
  BY <1>1 DEF IInv, Positions
<1>11. QED
  BY <1>1, <1>6, <1>7, <1>8, <1>9, <1>10 DEF IInv

(* DequeueTo moves messages from the queue to the empty buffer, or lets the  *)
(* sender leave a queue that is closed and empty (pub.go:98-103).            *)
LEMMA TakeStep ==
  ASSUME IInv, SenderTake
  PROVE  IInv' /\ UNCHANGED <<accepted, Settled, sent, draining>>
<1>1. /\ wpc = "take" /\ batch = << >>
      /\ UNCHANGED <<draining, ctxDone, qclosed, accepted, startpc, closepc, released, sent,
                     gaveUp, echoes>>
  BY DEF SenderTake, IInv, Positions
<1>2. CASE Drained(queue, qclosed) /\ wpc' = "exited" /\ UNCHANGED <<queue, batch>>
  <2>1. Settled' = Settled
    BY <1>1, <1>2 DEF Settled
  <2>2. TypeOK' /\ InOrder' /\ SettledSent'
    BY <1>1, <1>2, <2>1 DEF IInv, TypeOK, InOrder, SettledSent
  <2>3. startpc \notin {"idle", "spawn"}
    BY <1>1 DEF IInv, Positions
  <2>4. Positions'
    BY <1>1, <1>2, <2>3 DEF Positions, Drained
  <2>5. QED
    BY <1>1, <2>1, <2>2, <2>4 DEF IInv
<1>3. CASE /\ queue # << >> /\ wpc' = "send"
           /\ batch' = Taken(queue, QueueSize) /\ queue' = Left(queue, QueueSize)
  <2> DEFINE a == Taken(queue, QueueSize)
             b == Left(queue, QueueSize)
  <2>1. /\ accepted \in Nat /\ Len(queue) \in Nat /\ Settled \in Nat
        /\ Settled + Len(batch) + Len(queue) = accepted
        /\ QueueSize \in Nat /\ QueueSize # 0 /\ Len(batch) = 0
    BY <1>1, Lengths
  <2>2. queue \in Seq(1 .. accepted) /\ Len(queue) <= QueueSize /\ Numbered(queue, Settled)
    BY <2>1 DEF IInv, TypeOK, InOrder
  <2>3. /\ a \in Seq(1 .. accepted) /\ b \in Seq(1 .. accepted)
        /\ Len(a) <= QueueSize /\ Len(b) <= Len(queue)
    BY <2>1, <2>2, TakenAndLeft
  <2>4. /\ Len(a) \in Nat /\ Len(b) \in Nat /\ Len(a) + Len(b) = Len(queue)
        /\ a # << >> /\ batch' = a /\ queue' = b
    BY <1>3, <2>1, <2>2, TakenThenLeft
  <2>5. Numbered(a, Settled) /\ Numbered(b, Settled + Len(a))
    BY <2>1, <2>2, NumberedTaken
  <2> HIDE DEF a, b
  <2>6. Settled' = Settled
    BY <1>1, <2>1, <2>4 DEF Settled
  <2>7. TypeOK'
    <3>1. Len(b) <= QueueSize
      BY <2>1, <2>2, <2>3, <2>4
    <3>2. QED
      BY <1>1, <1>3, <2>3, <2>4, <3>1 DEF IInv, TypeOK
  <2>8. InOrder' /\ SettledSent'
    BY <1>1, <2>4, <2>5, <2>6 DEF IInv, InOrder, SettledSent
  <2>9. startpc \notin {"idle", "spawn"}
    BY <1>1 DEF IInv, Positions
  <2>10. Positions'
    BY <1>1, <1>3, <2>4, <2>9 DEF Positions
  <2>11. QED
    BY <1>1, <2>6, <2>7, <2>8, <2>10 DEF IInv
<1>4. QED
  BY <1>2, <1>3 DEF SenderTake

(* A send that succeeds settles the head of the batch, whose number is the   *)
(* next one; one that fails settles nothing, even if the broker has the      *)
(* message (pub.go:104-124).                                                 *)
LEMMA SendStep ==
  ASSUME IInv, SenderSend
  PROVE  /\ IInv'
         /\ UNCHANGED <<accepted, draining>>
         /\ \/ UNCHANGED <<Settled, sent>>
            \/ /\ Settled + 1 \in 1 .. accepted
               /\ sent' = Append(sent, Settled + 1)
               /\ Settled' \in {Settled, Settled + 1}
<1>1. /\ wpc = "send" /\ batch # << >>
      /\ UNCHANGED <<draining, ctxDone, queue, qclosed, accepted, startpc, closepc, released,
                     gaveUp>>
  BY DEF SenderSend, IInv, Positions
<1>2. /\ accepted \in Nat /\ Len(queue) \in Nat /\ Len(batch) \in Nat /\ Settled \in Nat
      /\ Settled + Len(batch) + Len(queue) = accepted /\ MaxEchoes \in Nat
  BY Lengths
<1>3. /\ batch \in Seq(1 .. accepted) /\ Len(batch) <= QueueSize
      /\ sent \in Seq(1 .. accepted)
  BY DEF IInv, TypeOK
<1>4. /\ Head(batch) = Settled + 1 /\ Head(batch) \in 1 .. accepted
      /\ Tail(batch) \in Seq(1 .. accepted) /\ Len(Tail(batch)) = Len(batch) - 1
      /\ Len(batch) >= 1 /\ Numbered(Tail(batch), Settled + 1)
      /\ Tail(batch) = << >> <=> Len(batch) = 1
  <2> DEFINE S == 1 .. accepted
  <2>1. Numbered(batch, Settled) /\ Settled \in Nat
    BY <1>2 DEF IInv, InOrder
  <2>2. batch \in Seq(S) /\ batch # << >>
    BY <1>1, <1>3
  <2> HIDE DEF S
  <2>3. /\ Head(batch) = Settled + 1 /\ Head(batch) \in S
        /\ Tail(batch) \in Seq(S) /\ Len(Tail(batch)) = Len(batch) - 1
        /\ Len(batch) >= 1 /\ Numbered(Tail(batch), Settled + 1)
        /\ Tail(batch) = << >> <=> Len(batch) = 1
    BY <2>1, <2>2, NumberedTail
  <2>4. QED
    BY <2>3 DEF S
<1>5. Head(batch) = Settled + 1 /\ Settled + 1 \in 1 .. accepted
  BY <1>4
<1>6. startpc \notin {"idle", "spawn"}
  BY <1>1 DEF IInv, Positions
<1>7. /\ Append(sent, Settled + 1) \in Seq(1 .. accepted)
      /\ Elements(Append(sent, Settled + 1)) = Elements(sent) \cup {Settled + 1}
  <2> DEFINE k == Settled + 1
             S == 1 .. accepted
  <2>1. k \in S /\ sent \in Seq(S)
    BY <1>3, <1>5
  <2> HIDE DEF k, S
  <2>2. Append(sent, k) \in Seq(S) /\ Elements(Append(sent, k)) = Elements(sent) \cup {k}
    BY <2>1, AppendProperties, ElementsOfAppend
  <2>3. QED
    BY <2>2 DEF k, S
<1>8. CASE Sent /\ UNCHANGED echoes
  <2>1. /\ sent' = Append(sent, Settled + 1) /\ batch' = Tail(batch)
        /\ wpc' = IF Len(batch) = 1 THEN "take" ELSE "send"
    BY <1>5, <1>8 DEF Sent
  <2>2. Len(batch') = Len(batch) - 1
    BY <1>4, <2>1
  <2>3. Settled' = Settled + 1
    BY <1>1, <1>2, <2>2 DEF Settled
  <2>4. TypeOK'
    <3>1. /\ batch' \in Seq(1 .. accepted') /\ sent' \in Seq(1 .. accepted')
          /\ Len(batch') <= QueueSize
      BY <1>1, <1>2, <1>3, <1>4, <1>7, <2>1, <2>2, RabbitProducerAssumption
         DEF RabbitProducerAssumption
    <3>2. wpc' \in {"off", "take", "send", "failed", "exited"}
      BY <2>1
    <3>3. QED
      BY <1>1, <1>8, <3>1, <3>2 DEF IInv, TypeOK
  <2>5. InOrder'
    <3>1. Settled + 1 + Len(Tail(batch)) = Settled + Len(batch)
      BY <1>2, <1>4
    <3>2. Settled' \in 0 .. accepted'
      BY <1>1, <1>2, <1>5, <2>3
    <3>3. QED
      BY <1>1, <1>4, <2>1, <2>3, <3>1, <3>2 DEF IInv, InOrder
  <2>6. SettledSent'
    <3>1. \A k \in 1 .. Settled + 1 : k \in 1 .. Settled \/ k = Settled + 1
      BY <1>2
    <3>2. QED
      BY <1>7, <2>1, <2>3, <3>1 DEF IInv, SettledSent
  <2>7. Positions'
    BY <1>1, <1>4, <1>6, <2>1 DEF Positions
  <2>8. QED
    BY <1>1, <1>5, <2>1, <2>3, <2>4, <2>5, <2>6, <2>7 DEF IInv
<1>9. CASE wpc' = "failed" /\ UNCHANGED <<sent, batch, echoes>>
  <2>1. Settled' = Settled
    BY <1>1, <1>9 DEF Settled
  <2>2. TypeOK' /\ InOrder' /\ SettledSent'
    BY <1>1, <1>9, <2>1 DEF IInv, TypeOK, InOrder, SettledSent
  <2>3. Positions'
    BY <1>1, <1>6, <1>9 DEF Positions
  <2>4. QED
    BY <1>1, <1>9, <2>1, <2>2, <2>3 DEF IInv
<1>10. CASE /\ echoes < MaxEchoes /\ sent' = Append(sent, Head(batch))
            /\ echoes' = echoes + 1 /\ wpc' = "failed" /\ UNCHANGED batch
  <2>1. sent' = Append(sent, Settled + 1)
    BY <1>5, <1>10
  <2>2. Settled' = Settled
    BY <1>1, <1>10 DEF Settled
  <2>3. TypeOK'
    <3>1. echoes' \in 0 .. MaxEchoes
      BY <1>2, <1>10 DEF IInv, TypeOK
    <3>2. sent' \in Seq(1 .. accepted')
      BY <1>1, <1>7, <2>1
    <3>3. QED
      BY <1>1, <1>10, <3>1, <3>2 DEF IInv, TypeOK
  <2>4. InOrder'
    BY <1>1, <1>10, <2>2 DEF IInv, InOrder
  <2>5. SettledSent'
    BY <1>7, <2>1, <2>2 DEF IInv, SettledSent
  <2>6. Positions'
    BY <1>1, <1>6, <1>10 DEF Positions
  <2>7. QED
    BY <1>1, <1>5, <2>1, <2>2, <2>3, <2>4, <2>5, <2>6 DEF IInv
<1>11. QED
  BY <1>8, <1>9, <1>10 DEF SenderSend

(* The other steps move no message: the callers of Start and of Close, and   *)
(* the sender's decision after a failure (pub.go:77-96, 117-170).            *)
LEMMA ControlStep ==
  ASSUME IInv, \/ StartCall \/ Starter \/ CloseCall \/ Closer \/ ParentCancel
               \/ SenderFailed \/ UNCHANGED vars
  PROVE  /\ IInv'
         /\ UNCHANGED <<accepted, Settled, sent>>
         /\ draining' = draining \/ draining' = TRUE
<1> USE DEF Starter, Closer
<1>1. UNCHANGED <<accepted, queue, batch, sent, echoes>>
  BY DEF StartCall, StartSpawn, StartCancelled, CloseCall, CloseCancel, CloseWait,
         CloseRelease, ParentCancel, SenderFailed, vars
<1>2. draining' = draining \/ draining' = TRUE
  BY DEF StartCall, StartSpawn, StartCancelled, CloseCall, CloseCancel, CloseWait,
         CloseRelease, ParentCancel, SenderFailed, vars
<1>3. Settled' = Settled
  BY <1>1 DEF Settled
<1>4. InOrder' /\ SettledSent'
  BY <1>1, <1>3 DEF IInv, InOrder, SettledSent
<1>5. TypeOK'
  <2>1. /\ {draining, ctxDone, qclosed, released, gaveUp}' \subseteq BOOLEAN
        /\ startpc' \in {"idle", "spawn", "wait", "returned"}
        /\ wpc' \in {"off", "take", "send", "failed", "exited"}
        /\ closepc' \in {"idle", "cancel", "wait", "release", "returned"}
    BY DEF IInv, TypeOK, StartCall, StartSpawn, StartCancelled, CloseCall, CloseCancel,
           CloseWait, CloseRelease, ParentCancel, SenderFailed, vars
  <2>2. QED
    BY <1>1, <2>1 DEF IInv, TypeOK
<1>6. Positions'
  BY <1>1 DEF IInv, TypeOK, Positions, StartCall, StartSpawn, StartCancelled, CloseCall,
              CloseCancel, CloseWait, CloseRelease, ParentCancel, SenderFailed, vars
<1>7. QED
  BY <1>1, <1>2, <1>3, <1>4, <1>5, <1>6 DEF IInv

(* The invariant holds in every reachable state.                             *)
THEOREM Invariance == Spec => []IInv
<1>1. Init => IInv
  BY InitInv
<1>2. IInv /\ [Next]_vars => IInv'
  BY PublishStep, TakeStep, SendStep, ControlStep DEF Next, Sender, Terminating
<1>3. QED
  BY <1>1, <1>2, PTL DEF Spec

(* The queue, the sender's buffer and what the broker has hold accepted      *)
(* messages only, within their bounds (pub.go:34, 97).                       *)
THEOREM TypeCorrect == Spec => []TypeOK
<1>1. IInv => TypeOK
  BY DEF IInv
<1>2. QED
  BY <1>1, Invariance, PTL

(* The sender that left without giving up has sent every accepted message    *)
(* (pub.go:98-101, 133-136).                                                 *)
THEOREM DrainsBeforeExitHolds == Spec => []DrainsBeforeExit
<1>1. ASSUME IInv PROVE DrainsBeforeExit
  <2>1. SUFFICES ASSUME wpc = "exited", ~gaveUp
                 PROVE  \A k \in 1 .. accepted : k \in Elements(sent)
    BY DEF DrainsBeforeExit
  <2>2. batch = << >> /\ queue = << >>
    BY <1>1, <2>1 DEF IInv, Positions
  <2>3. Len(batch) = 0 /\ Len(queue) = 0
    BY <2>2
  <2>4. Settled = accepted
    BY <1>1, <2>3, Lengths
  <2>5. QED
    BY <1>1, <2>4 DEF IInv, SettledSent
<1>2. QED
  BY <1>1, Invariance, PTL

(* One message is a batch.                                                   *)
LEMMA BatchOfOne ==
  ASSUME NEW k \in Promise!Current
  PROVE  <<k>> \in Promise!Batches /\ k \in Promise!Range(<<k>>)
<1>1. <<k>> \in [1 .. 1 -> Promise!Current] /\ <<k>>[1] = k /\ DOMAIN <<k>> = 1 .. 1
  OBVIOUS
<1>2. 1 \in 0 .. 1 /\ 1 \in 1 .. 1 /\ \A i, j \in 1 .. 1 : ~ i < j
  OBVIOUS
<1>3. <<k>> \in UNION {[1 .. n -> Promise!Current] : n \in 0 .. 1}
  BY <1>1, <1>2
<1>4. QED
  BY <1>1, <1>2, <1>3 DEF Promise!Batches, Promise!Range

(* The producer keeps the promise of Outbox, one message at a time: it sends *)
(* in the order of Publish and passes over none (pub.go:104-124).            *)
THEOREM KeepsPromiseHolds == Spec => KeepsPromise
<1>1. Init => Promise!Init
  <2> SUFFICES ASSUME Init PROVE Promise!Init
    OBVIOUS
  <2>1. Settled = 0
    <3>1. IInv /\ accepted = 0
      BY InitInv DEF Init
    <3>2. QED
      BY <3>1, Lengths
  <2>2. QED
    BY <2>1 DEF Init, Promise!Init, Settled
<1>2. ASSUME IInv, [Next]_vars
      PROVE  [Promise!Next]_(Promise!outVars)
  <2>1. CASE Publish
    <3>1. accepted \in Nat /\ accepted' = accepted + 1 /\ UNCHANGED <<Settled, sent, draining>>
      BY <1>2, <2>1, PublishStep, Lengths
    <3>2. Promise!Accept
      BY <3>1 DEF Promise!Accept, Settled
    <3>3. QED
      BY <3>2 DEF Promise!Next
  <2>2. CASE SenderTake
    <3>1. UNCHANGED <<accepted, Settled, sent, draining>>
      BY <1>2, <2>2, TakeStep
    <3>2. QED
      BY <3>1 DEF Promise!outVars, Settled
  <2>3. CASE SenderSend
    <3>1. UNCHANGED <<accepted, draining>>
      BY <1>2, <2>3, SendStep
    <3>2. CASE UNCHANGED <<Settled, sent>>
      BY <3>1, <3>2 DEF Promise!outVars, Settled
    <3>3. CASE /\ Settled + 1 \in 1 .. accepted /\ sent' = Append(sent, Settled + 1)
               /\ Settled' \in {Settled, Settled + 1}
      <4> DEFINE k == Settled + 1
      <4>1. accepted \in Nat /\ Settled \in Nat /\ sent \in Seq(1 .. accepted)
        BY <1>2, Lengths DEF IInv, TypeOK
      <4>2. k \in Promise!Current
        BY <3>3, <4>1 DEF Promise!Current, Settled
      <4>3. Settled + 1 .. Settled' \subseteq {k}
        BY <3>3, <4>1
      <4>4. sent' = sent \o <<k>>
        BY <3>3, <4>1
      <4>5. Promise!Attempt(<<k>>, Settled')
        BY <3>1, <4>2, <4>3, <4>4, BatchOfOne DEF Promise!Attempt, Settled
      <4>6. Settled' \in {Settled} \cup Promise!Current
        BY <3>3, <4>2
      <4>7. QED
        BY <4>2, <4>5, <4>6, BatchOfOne DEF Promise!Next, Settled
    <3>4. QED
      BY <1>2, <2>3, <3>2, <3>3, SendStep
  <2>4. CASE \/ StartCall \/ Starter \/ CloseCall \/ Closer \/ ParentCancel
             \/ SenderFailed \/ UNCHANGED vars
    <3>1. UNCHANGED <<accepted, Settled, sent>> /\ (draining' = draining \/ draining' = TRUE)
      BY <1>2, <2>4, ControlStep
    <3>2. QED
      BY <3>1 DEF Promise!Next, Promise!Close, Promise!outVars, Settled
  <2>5. QED
    BY <1>2, <2>1, <2>2, <2>3, <2>4 DEF Next, Sender, Terminating
<1>3. QED
  BY <1>1, <1>2, Invariance, PTL DEF Spec, KeepsPromise, Promise!Spec

-----------------------------------------------------------------------------
(* RabbitConsumer                                                            *)

(* A handler that has a message the application has not been given yet.      *)
Holds(h) == hpc[h] \in {"called", "check", "admitted"}

(* isClosed is set before the library's consumer is closed, and Run returns  *)
(* without a failure only when the consumer is closed.                       *)
ClosedFirst ==
  /\ consumer = "closed" \/ closerpc # "idle" => isClosed
  /\ closerpc \in {"wait", "returned"} => consumer = "closed"
  /\ mainpc \in {"wait", "returned"} /\ ~failed => isClosed

(* With AutoAck nothing is outstanding.  Without it a message is with one    *)
(* handler at a time, outstanding until the connection is closed, and the    *)
(* broker keeps it as long as the application has not seen it.               *)
OneHolder ==
  /\ AutoCommit = "native" => unacked = {}
  /\ AutoCommit = "none" =>
       /\ \A h \in Handlers : Holds(h) => has[h] \notin gone
       /\ \A g, h \in Handlers : Holds(g) /\ Holds(h) /\ has[g] = has[h] => g = h
       /\ closerpc # "returned" =>
            /\ ready \cap shown = {}
            /\ \A h \in Handlers : Holds(h) => has[h] \in unacked /\ has[h] \notin shown

ConsumerIInv == ConsumerTypeOK /\ ClosedFirst /\ OneHolder /\ QuietAfterExit /\ RemovedWereShown

(* NewConsumer returns an open consumer nobody runs (sub.go:74).             *)
LEMMA ConsumerInitInv == ConsumerInit => ConsumerIInv
<1> SUFFICES ASSUME ConsumerInit PROVE ConsumerIInv
  OBVIOUS
<1>1. ConsumerTypeOK
  BY DEF ConsumerInit, ConsumerTypeOK
<1>2. ClosedFirst /\ OneHolder
  BY DEF ConsumerInit, ClosedFirst, OneHolder, Holds
<1>3. QuietAfterExit /\ RemovedWereShown
  BY DEF ConsumerInit, QuietAfterExit, RemovedWereShown
<1>4. QED
  BY <1>1, <1>2, <1>3 DEF ConsumerIInv

(* The steps of SyncSubscribe and Close up to its wait move no message: with *)
(* isClosed set, its WaitGroup at zero means that the application is left    *)
(* alone (sub.go:122, 135-147).                                              *)
LEMMA ConsumerControlStep ==
  ASSUME ConsumerIInv, MainStart \/ RunReturn \/ MainReturn \/ ConsumerCloseCall \/ CloseConsumer
  PROVE  ConsumerIInv'
<1>1. UNCHANGED <<hpc, has, brokerVars, shown>>
  BY DEF MainStart, RunReturn, MainReturn, ConsumerCloseCall, CloseConsumer
<1>2. ConsumerTypeOK'
  BY <1>1 DEF ConsumerIInv, ConsumerTypeOK, MainStart, RunReturn, MainReturn,
       ConsumerCloseCall, CloseConsumer, brokerVars
<1>3. ClosedFirst'
  BY DEF ConsumerIInv, ConsumerTypeOK, ClosedFirst, MainStart, RunReturn, MainReturn,
       ConsumerCloseCall, CloseConsumer
<1>4. OneHolder' /\ RemovedWereShown'
  BY <1>1 DEF ConsumerIInv, OneHolder, RemovedWereShown, Holds, brokerVars, MainStart,
       RunReturn, MainReturn, ConsumerCloseCall, CloseConsumer
<1>5. QuietAfterExit'
  <2>1. CASE MainReturn
    <3>1. \A h \in Handlers : hpc[h] \notin {"admitted", "handle"}
      BY <2>1 DEF MainReturn, Registered
    <3>2. QED
      BY <1>1, <3>1 DEF QuietAfterExit, Quiet
  <2>2. CASE MainStart \/ RunReturn \/ ConsumerCloseCall \/ CloseConsumer
    <3>1. mainpc' = "returned" /\ ~failed' => mainpc = "returned" /\ ~failed
      BY <2>2 DEF MainStart, RunReturn, ConsumerCloseCall, CloseConsumer
    <3>2. QED
      BY <1>1, <3>1 DEF ConsumerIInv, QuietAfterExit, Quiet
  <2>3. QED
    BY <2>1, <2>2
<1>6. QED
  BY <1>2, <1>3, <1>4, <1>5 DEF ConsumerIInv

(* A delivery starts while Run does (the callback of sub.go:97).             *)
LEMMA DeliverStep ==
  ASSUME ConsumerIInv, NEW h \in Handlers, NEW m \in Messages, Deliver(h, m)
  PROVE  ConsumerIInv'
<1>1. /\ mainpc = "run" /\ consumer = "open" /\ hpc[h] = "off" /\ m \in ready
      /\ hpc' = [hpc EXCEPT ![h] = "called"] /\ has' = [has EXCEPT ![h] = m]
      /\ ready' = ready \ {m}
      /\ UNCHANGED <<isClosed, consumer, mainpc, failed, closerpc, shown>>
  BY DEF Deliver
<1>2. \/ AutoCommit = "native" /\ gone' = gone \cup {m} /\ unacked' = unacked
      \/ AutoCommit = "none" /\ unacked' = unacked \cup {m} /\ gone' = gone
  BY RabbitConsumerAssumption DEF Deliver, RabbitConsumerAssumption
<1>3. /\ hpc \in [Handlers -> {"off", "called", "check", "admitted", "handle"}]
      /\ has \in [Handlers -> Messages]
  BY DEF ConsumerIInv, ConsumerTypeOK
<1>4. ConsumerTypeOK'
  <2>1. /\ hpc' \in [Handlers -> {"off", "called", "check", "admitted", "handle"}]
        /\ has' \in [Handlers -> Messages]
    BY <1>1, <1>3
  <2>2. /\ ready \subseteq Messages /\ unacked \subseteq Messages
        /\ gone \subseteq Messages /\ shown \subseteq Messages
        /\ ready \cap unacked = {} /\ gone \cap (ready \cup unacked) = {}
    BY DEF ConsumerIInv, ConsumerTypeOK
  <2>3. AutoCommit = "native" => unacked = {}
    BY DEF ConsumerIInv, OneHolder
  <2>4. /\ ready' \subseteq Messages /\ unacked' \subseteq Messages
        /\ gone' \subseteq Messages /\ shown' \subseteq Messages
        /\ ready' \cap unacked' = {} /\ gone' \cap (ready' \cup unacked') = {}
    BY <1>1, <1>2, <2>2, <2>3
  <2>5. QED
    BY <1>1, <2>1, <2>4 DEF ConsumerIInv, ConsumerTypeOK
<1>5. ClosedFirst'
  BY <1>1 DEF ConsumerIInv, ClosedFirst
<1>6. OneHolder'
  <2>1. AutoCommit = "native" => unacked' = {}
    BY <1>2 DEF ConsumerIInv, OneHolder
  <2>2. ASSUME AutoCommit = "none"
        PROVE  /\ \A g \in Handlers : Holds(g)' => has'[g] \notin gone'
               /\ \A f, g \in Handlers : Holds(f)' /\ Holds(g)' /\ has'[f] = has'[g] => f = g
               /\ ready' \cap shown' = {}
               /\ \A g \in Handlers : Holds(g)' => has'[g] \in unacked' /\ has'[g] \notin shown'
    <3>1. closerpc # "returned"
      BY <1>1 DEF ConsumerIInv, ClosedFirst
    <3>2. /\ \A g \in Handlers : Holds(g) => has[g] \in unacked /\ has[g] \notin shown
          /\ \A f, g \in Handlers : Holds(f) /\ Holds(g) /\ has[f] = has[g] => f = g
          /\ ready \cap shown = {}
      BY <2>2, <3>1 DEF ConsumerIInv, OneHolder
    <3>3. m \notin unacked /\ m \notin shown /\ m \notin gone
      BY <1>1, <3>2 DEF ConsumerIInv, ConsumerTypeOK
    <3>4. \A g \in Handlers : g # h => /\ has'[g] = has[g]
                                       /\ Holds(g)' <=> Holds(g)
      BY <1>1, <1>3 DEF Holds
    <3>5. has'[h] = m
      BY <1>1, <1>3
    <3>6. unacked' = unacked \cup {m} /\ gone' = gone /\ gone \cap unacked = {}
      BY <1>2, <2>2 DEF ConsumerIInv, ConsumerTypeOK
    <3>7. QED
      BY <1>1, <3>2, <3>3, <3>4, <3>5, <3>6
  <2>3. QED
    BY <2>1, <2>2 DEF OneHolder
<1>7. QuietAfterExit' /\ RemovedWereShown'
  BY <1>1, <1>2 DEF ConsumerIInv, QuietAfterExit, RemovedWereShown
<1>8. QED
  BY <1>4, <1>5, <1>6, <1>7 DEF ConsumerIInv

(* A handler registers, looks at isClosed and goes on or gives its message   *)
(* back, calls the application and returns (sub.go:99-117): after isClosed   *)
(* is set it enters the application no more.                                 *)
LEMMA HandlerStep ==
  ASSUME ConsumerIInv, NEW h \in Handlers, Handler(h)
  PROVE  ConsumerIInv'
<1>1. UNCHANGED <<isClosed, consumer, mainpc, failed, closerpc, has>>
  BY DEF Handler, HandlerEnter, HandlerCheck, HandlerCall, HandlerReturn
<1>2. /\ hpc \in [Handlers -> {"off", "called", "check", "admitted", "handle"}]
      /\ has \in [Handlers -> Messages]
      /\ ready \subseteq Messages /\ unacked \subseteq Messages
      /\ gone \subseteq Messages /\ shown \subseteq Messages
      /\ ready \cap unacked = {} /\ gone \cap (ready \cup unacked) = {}
  BY DEF ConsumerIInv, ConsumerTypeOK
<1>3. ClosedFirst'
  BY <1>1 DEF ConsumerIInv, ClosedFirst
<1>4. \A g \in Handlers : g # h => hpc'[g] = hpc[g]
  BY <1>2 DEF Handler, HandlerEnter, HandlerCheck, HandlerCall, HandlerReturn
<1>5. hpc' \in [Handlers -> {"off", "called", "check", "admitted", "handle"}]
  BY <1>2 DEF Handler, HandlerEnter, HandlerCheck, HandlerCall, HandlerReturn
<1>6. Holds(h)' => Holds(h)
  BY <1>2 DEF Holds, Handler, HandlerEnter, HandlerCheck, HandlerCall, HandlerReturn
<1>7. gone' = gone /\ shown \subseteq shown'
  BY DEF Handler, HandlerEnter, HandlerCheck, GiveBack, HandlerCall, HandlerReturn, brokerVars
<1>8. QuietAfterExit'
  <2>1. ASSUME mainpc' = "returned", ~failed'
        PROVE  hpc'[h] \notin {"admitted", "handle"}
    <3>1. isClosed /\ hpc[h] \notin {"admitted", "handle"}
      BY <1>1, <2>1 DEF ConsumerIInv, ClosedFirst, QuietAfterExit, Quiet
    <3>2. QED
      BY <1>2, <3>1 DEF Handler, HandlerEnter, HandlerCheck, HandlerCall, HandlerReturn
  <2>2. QED
    BY <1>1, <1>4, <2>1 DEF ConsumerIInv, QuietAfterExit, Quiet
<1>9. RemovedWereShown'
  BY <1>7 DEF ConsumerIInv, RemovedWereShown
<1>10. CASE UNCHANGED <<brokerVars, shown>>
  <2>1. ConsumerTypeOK'
    BY <1>1, <1>5, <1>10 DEF ConsumerIInv, ConsumerTypeOK, brokerVars
  <2>2. \A g \in Handlers : Holds(g)' => Holds(g)
    BY <1>4, <1>6 DEF Holds
  <2>3. OneHolder'
    BY <1>1, <1>10, <2>2 DEF ConsumerIInv, OneHolder, brokerVars
  <2>4. QED
    BY <1>3, <1>8, <1>9, <2>1, <2>3 DEF ConsumerIInv
<1>11. CASE AutoCommit = "none" /\ HandlerCheck(h) /\ GiveBack(has[h])
  <2>1. /\ hpc[h] = "check" /\ shown' = shown
        /\ ready' = ready \cup {has[h]} /\ unacked' = unacked \ {has[h]}
    BY <1>11 DEF HandlerCheck, GiveBack
  <2>2. has[h] \in Messages /\ Holds(h) /\ has[h] \notin gone
    BY <1>2, <1>11, <2>1 DEF ConsumerIInv, OneHolder, Holds
  <2>3. /\ ready' \subseteq Messages /\ unacked' \subseteq Messages
        /\ ready' \cap unacked' = {} /\ gone' \cap (ready' \cup unacked') = {}
    BY <1>2, <1>7, <2>1, <2>2
  <2>4. ConsumerTypeOK'
    BY <1>1, <1>2, <1>5, <1>7, <2>1, <2>3 DEF ConsumerIInv, ConsumerTypeOK
  <2>5. \A g \in Handlers : Holds(g)' => Holds(g)
    BY <1>4, <1>6 DEF Holds
  <2>6. CASE hpc'[h] = "off"
    <3>1. ~ Holds(h)'
      BY <2>6 DEF Holds
    <3>2. \A g \in Handlers : Holds(g)' => has[g] # has[h]
      BY <1>11, <2>2, <2>5, <3>1 DEF ConsumerIInv, OneHolder
    <3>3. OneHolder'
      BY <1>1, <1>7, <1>11, <2>1, <2>2, <2>5, <3>2 DEF ConsumerIInv, OneHolder
    <3>4. QED
      BY <1>3, <1>8, <1>9, <2>4, <3>3 DEF ConsumerIInv
  <2>7. CASE hpc'[h] # "off"
    <3>1. UNCHANGED brokerVars
      BY <1>2, <1>11, <2>7 DEF HandlerCheck
    <3>2. QED
      BY <1>10, <2>1, <3>1
  <2>8. QED
    BY <2>6, <2>7
<1>12. CASE HandlerCall(h)
  <2>1. /\ hpc[h] = "admitted" /\ hpc' = [hpc EXCEPT ![h] = "handle"]
        /\ shown' = shown \cup {has[h]} /\ UNCHANGED brokerVars
    BY <1>12 DEF HandlerCall
  <2>2. ConsumerTypeOK'
    BY <1>1, <1>2, <1>5, <2>1 DEF ConsumerIInv, ConsumerTypeOK, brokerVars
  <2>3. ~ Holds(h)' /\ Holds(h)
    BY <1>2, <2>1 DEF Holds
  <2>4. \A g \in Handlers : Holds(g)' => Holds(g) /\ g # h
    BY <1>4, <2>3 DEF Holds
  <2>5. OneHolder'
    BY <1>1, <2>1, <2>3, <2>4, <1>2 DEF ConsumerIInv, OneHolder, brokerVars, ConsumerTypeOK
  <2>6. QED
    BY <1>3, <1>8, <1>9, <2>2, <2>5 DEF ConsumerIInv
<1>13. QED
  <2>1. AutoCommit = "none" \/ (HandlerCheck(h) => UNCHANGED <<brokerVars, shown>>)
    BY RabbitConsumerAssumption DEF RabbitConsumerAssumption, HandlerCheck, GiveBack
  <2>2. HandlerCheck(h) => GiveBack(has[h]) \/ UNCHANGED <<brokerVars, shown>>
    BY DEF HandlerCheck
  <2>3. HandlerEnter(h) \/ HandlerReturn(h) => UNCHANGED <<brokerVars, shown>>
    BY DEF HandlerEnter, HandlerReturn
  <2>4. QED
    BY <1>10, <1>11, <1>12, <2>1, <2>2, <2>3 DEF Handler

(* The application acknowledges what it was shown, and closing the           *)
(* connection gives the rest back to the broker (sub.go:149-152).            *)
LEMMA BrokerStep ==
  ASSUME ConsumerIInv, CloseReturn \/ \E m \in Messages : AppAck(m)
  PROVE  ConsumerIInv'
<1>1. UNCHANGED <<isClosed, consumer, mainpc, failed, hpc, has, shown>>
  BY DEF CloseReturn, AppAck
<1>2. /\ ready \subseteq Messages /\ unacked \subseteq Messages
      /\ gone \subseteq Messages /\ shown \subseteq Messages
      /\ ready \cap unacked = {} /\ gone \cap (ready \cup unacked) = {}
  BY DEF ConsumerIInv, ConsumerTypeOK
<1>3. QuietAfterExit'
  BY <1>1 DEF ConsumerIInv, QuietAfterExit, Quiet
<1>4. \A h \in Handlers : Holds(h)' <=> Holds(h)
  BY <1>1 DEF Holds
<1>5. CASE CloseReturn
  <2>1. /\ closerpc = "wait" /\ closerpc' = "returned"
        /\ ready' = ready \cup unacked /\ unacked' = {} /\ gone' = gone
    BY <1>5 DEF CloseReturn
  <2>2. ConsumerTypeOK'
    BY <1>1, <1>2, <2>1 DEF ConsumerIInv, ConsumerTypeOK
  <2>3. ClosedFirst' /\ RemovedWereShown'
    BY <1>1, <2>1 DEF ConsumerIInv, ClosedFirst, RemovedWereShown
  <2>4. OneHolder'
    BY <1>1, <1>4, <2>1 DEF ConsumerIInv, OneHolder
  <2>5. QED
    BY <1>3, <2>2, <2>3, <2>4 DEF ConsumerIInv
<1>6. ASSUME NEW m \in Messages, AppAck(m)
      PROVE  ConsumerIInv'
  <2>1. /\ m \in unacked /\ m \in shown /\ closerpc # "returned" /\ closerpc' = closerpc
        /\ unacked' = unacked \ {m} /\ gone' = gone \cup {m} /\ ready' = ready
    BY <1>6 DEF AppAck
  <2>2. ConsumerTypeOK'
    BY <1>1, <1>2, <2>1 DEF ConsumerIInv, ConsumerTypeOK
  <2>3. ClosedFirst' /\ RemovedWereShown'
    BY <1>1, <2>1 DEF ConsumerIInv, ClosedFirst, RemovedWereShown
  <2>4. OneHolder'
    BY <1>1, <1>4, <2>1 DEF ConsumerIInv, OneHolder
  <2>5. QED
    BY <1>3, <2>2, <2>3, <2>4 DEF ConsumerIInv
<1>7. QED
  BY <1>5, <1>6

(* The invariant holds in every reachable state.                             *)
THEOREM ConsumerInvariance == ConsumerSpec => []ConsumerIInv
<1>1. ConsumerInit => ConsumerIInv
  BY ConsumerInitInv
<1>2. ConsumerIInv /\ [ConsumerNext]_consumerVars => ConsumerIInv'
  <2> SUFFICES ASSUME ConsumerIInv, [ConsumerNext]_consumerVars PROVE ConsumerIInv'
    OBVIOUS
  <2>1. CASE MainStart \/ RunReturn \/ MainReturn \/ ConsumerCloseCall \/ CloseConsumer
    BY <2>1, ConsumerControlStep
  <2>2. CASE \E h \in Handlers, m \in Messages : Deliver(h, m)
    BY <2>2, DeliverStep
  <2>3. CASE \E h \in Handlers : Handler(h)
    BY <2>3, HandlerStep
  <2>4. CASE CloseReturn \/ \E m \in Messages : AppAck(m)
    BY <2>4, BrokerStep
  <2>5. CASE UNCHANGED consumerVars
    BY <2>5 DEF consumerVars, brokerVars, ConsumerIInv, ConsumerTypeOK, ClosedFirst,
         OneHolder, Holds, QuietAfterExit, Quiet, RemovedWereShown
  <2>6. QED
    BY <2>1, <2>2, <2>3, <2>4, <2>5 DEF ConsumerNext, ConsumerCloser, ConsumerTerminating
<1>3. QED
  BY <1>1, <1>2, PTL DEF ConsumerSpec

(* The control state has its types, and a message is never both available,   *)
(* outstanding or removed at once (the broker under sub.go:97-118).          *)
THEOREM ConsumerTypeCorrect == ConsumerSpec => []ConsumerTypeOK
<1>1. ConsumerIInv => ConsumerTypeOK
  BY DEF ConsumerIInv
<1>2. QED
  BY <1>1, ConsumerInvariance, PTL

(* Once SyncSubscribe ended by Close has called OnExit, the application is   *)
(* handling nothing and nothing more will reach it (sub.go:99-104, 122).     *)
THEOREM QuietAfterExitHolds == ConsumerSpec => []QuietAfterExit
<1>1. ConsumerIInv => QuietAfterExit
  BY DEF ConsumerIInv
<1>2. QED
  BY <1>1, ConsumerInvariance, PTL

(* In the manual mode the broker removes only what the application was       *)
(* shown, however a handler met Close (sub.go:102-117).                      *)
THEOREM RemovedWereShownHolds == ConsumerSpec => []RemovedWereShown
<1>1. ConsumerIInv => RemovedWereShown
  BY DEF ConsumerIInv
<1>2. QED
  BY <1>1, ConsumerInvariance, PTL
=============================================================================
