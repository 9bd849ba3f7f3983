-------------------------- MODULE MqttClientProofs --------------------------
(* MqttClient, for every queue size, number of messages and of connections:  *)
(* its types, and that it keeps the promise of Outbox.                       *)
EXTENDS MqttClient, LockedRingBufferProofs

\* Messages that left the batch.
Settled == accepted - Len(queue) - Len(batch)

(* Batch and queue together are the accepted messages that are not settled   *)
(* yet, in the order of Publish.                                             *)
BatchThenQueue ==
  /\ Settled \in 0 .. accepted
  /\ Numbered(batch, Settled)
  /\ Numbered(queue, Settled + Len(batch))

(* The drain pipe runs after Start spawned it, and has a batch while it      *)
(* sends; a connection that is up was made.                                  *)
Positions ==
  /\ startpc # "returned" => wpc = "off"
  /\ wpc \in {"off", "take"} => batch = << >>
  /\ wpc \in {"check", "publish", "failed"} => batch # << >>
  /\ link = "up" => links # 0

IInv == TypeOK /\ BatchThenQueue /\ Positions

(* NewMqttClient makes an empty queue and starts nothing                     *)
(* (mqtt_client.go:38-64).                                                   *)
LEMMA InitInv == Init => IInv
<1> SUFFICES ASSUME Init PROVE IInv
  OBVIOUS
<1>1. /\ queue = << >> /\ batch = << >> /\ sent = << >> /\ accepted = 0 /\ echoes = 0
      /\ links = 0 /\ MaxMessages \in Nat /\ MaxEchoes \in Nat /\ QueueSize \in Nat
      /\ MaxLinks \in Nat
  BY MqttAssumption DEF Init, MqttAssumption
<1>2. Len(<< >>) = 0 /\ << >> \in Seq(1 .. 0)
  OBVIOUS
<1>3. /\ accepted \in 0 .. MaxMessages /\ echoes \in 0 .. MaxEchoes
      /\ queue \in Seq(1 .. accepted) /\ Len(queue) <= QueueSize
      /\ batch \in Seq(1 .. accepted) /\ Len(batch) <= QueueSize
      /\ sent \in Seq(1 .. accepted) /\ links \in 0 .. MaxLinks
  BY <1>1, <1>2
<1>4. TypeOK
  BY <1>3 DEF Init, TypeOK
<1>5. Settled = 0
  <2>1. Len(queue) = 0 /\ Len(batch) = 0
    BY <1>1, <1>2
  <2>2. accepted = 0
    BY <1>1
  <2>3. QED
    BY <2>1, <2>2 DEF Settled
<1>6. BatchThenQueue
  BY <1>1, <1>2, <1>5 DEF BatchThenQueue, Numbered
<1>7. Positions
  BY DEF Init, Positions
<1>8. QED
  BY <1>4, <1>6, <1>7 DEF IInv

(* What the arithmetic of the steps needs of the types.                      *)
LEMMA Lengths ==
  ASSUME IInv
  PROVE  /\ accepted \in Nat /\ Len(queue) \in Nat /\ Len(batch) \in Nat
         /\ Settled \in Nat /\ Settled + Len(batch) + Len(queue) = accepted
         /\ QueueSize \in Nat \ {0} /\ MaxMessages \in Nat /\ MaxEchoes \in Nat
<1>1. /\ accepted \in 0 .. MaxMessages /\ QueueSize \in Nat \ {0}
      /\ MaxMessages \in Nat /\ MaxEchoes \in Nat
      /\ queue \in Seq(1 .. accepted) /\ batch \in Seq(1 .. accepted)
  BY MqttAssumption DEF IInv, TypeOK, MqttAssumption
<1>2. Len(queue) \in Nat /\ Len(batch) \in Nat /\ Settled \in 0 .. accepted
  BY <1>1 DEF IInv, BatchThenQueue
<1>3. QED
  BY <1>1, <1>2 DEF Settled

(* Publish appends the next number, unless the queue closed since it looked  *)
(* at draining (mqtt_client.go:193-198).                                     *)
LEMMA PublishStep ==
  ASSUME IInv, PublishEnqueue
  PROVE  /\ IInv'
         /\ UNCHANGED <<Settled, sent, draining>>
         /\ accepted' \in {accepted, accepted + 1}
<1> DEFINE m == accepted + 1
<1>1. /\ UNCHANGED <<lifeVars, linkVars, qclosed, pipeVars>> /\ pubpc' = "idle"
      /\ UNCHANGED <<draining, sent, batch, wpc, startpc>>
  BY DEF PublishEnqueue, lifeVars, pipeVars
<1>2. /\ accepted \in Nat /\ Len(queue) \in Nat /\ Len(batch) \in Nat /\ Settled \in Nat
      /\ Settled + Len(batch) + Len(queue) = accepted
      /\ QueueSize \in Nat /\ MaxMessages \in Nat
  BY Lengths
<1>3. CASE UNCHANGED <<queue, accepted>>
  <2>1. Settled' = Settled
    BY <1>1, <1>3 DEF Settled
  <2>2. TypeOK' /\ BatchThenQueue' /\ Positions'
    BY <1>1, <1>3, <2>1 DEF IInv, TypeOK, BatchThenQueue, Positions, lifeVars, linkVars,
                            pipeVars
  <2>3. QED
    BY <1>1, <1>3, <2>1, <2>2 DEF IInv
<1>4. CASE /\ accepted < MaxMessages /\ Len(queue) < QueueSize
           /\ accepted' = m /\ queue' = Append(queue, m)
  <2>1. 1 .. accepted \subseteq 1 .. m /\ m \in 1 .. m
    BY <1>2
  <2>2. /\ queue \in Seq(1 .. m) /\ batch \in Seq(1 .. m) /\ sent \in Seq(1 .. m)
    <3>1. /\ queue \in Seq(1 .. accepted) /\ batch \in Seq(1 .. accepted)
          /\ sent \in Seq(1 .. accepted)
      BY DEF IInv, TypeOK
    <3> HIDE DEF m
    <3>2. QED
      BY <2>1, <3>1, WiderSeq
  <2>3. /\ queue' \in Seq(1 .. m) /\ Len(queue') = Len(queue) + 1
        /\ Numbered(queue', Settled + Len(batch))
    <3>1. Numbered(queue, Settled + Len(batch)) /\ Settled + Len(batch) \in Nat
      BY <1>2 DEF IInv, BatchThenQueue
    <3>2. m = Settled + Len(batch) + Len(queue) + 1
      BY <1>2
    <3> HIDE DEF m
    <3>3. QED
      BY <1>4, <2>1, <2>2, <3>1, <3>2, NumberedAppend
  <2>4. Settled' = Settled
    BY <1>1, <1>2, <1>4, <2>3 DEF Settled
  <2>5. TypeOK'
    <3>1. accepted' \in 0 .. MaxMessages /\ Len(queue') <= QueueSize
      BY <1>2, <1>4, <2>3
    <3>2. queue' \in Seq(1 .. accepted') /\ batch' \in Seq(1 .. accepted')
          /\ sent' \in Seq(1 .. accepted')
      BY <1>1, <1>4, <2>2, <2>3
    <3> HIDE DEF m
    <3>3. QED
      BY <1>1, <3>1, <3>2 DEF IInv, TypeOK, lifeVars, linkVars, pipeVars
  <2>6. BatchThenQueue'
    <3>1. Settled' \in 0 .. accepted'
      BY <1>2, <1>4, <2>4
    <3>2. QED
      BY <1>1, <2>3, <2>4, <3>1 DEF IInv, BatchThenQueue
  <2>7. Positions'
    BY <1>1 DEF IInv, Positions, linkVars
  <2>8. QED
    BY <1>1, <1>4, <2>4, <2>5, <2>6, <2>7 DEF IInv
<1>5. QED
  BY <1>3, <1>4 DEF PublishEnqueue, Accepts

(* DequeueTo moves messages from the queue to the empty buffer, or lets the  *)
(* pipe leave a queue that is closed and empty (mqtt_client.go:257-260).     *)
LEMMA TakeStep ==
  ASSUME IInv, PipeTake
  PROVE  IInv' /\ UNCHANGED <<accepted, Settled, sent, draining>>
<1>1. /\ wpc = "take" /\ batch = << >>
      /\ UNCHANGED <<lifeVars, linkVars, qclosed, accepted, pubpc, sent, echoes>>
      /\ UNCHANGED <<draining, startpc>>
  BY DEF PipeTake, IInv, Positions, lifeVars
<1>2. startpc = "returned"
  BY <1>1 DEF IInv, Positions
<1>3. CASE wpc' = "exited" /\ registered' = FALSE /\ UNCHANGED <<queue, batch>>
  <2>1. Settled' = Settled
    BY <1>1, <1>3 DEF Settled
  <2>2. TypeOK' /\ BatchThenQueue' /\ Positions'
    BY <1>1, <1>2, <1>3, <2>1 DEF IInv, TypeOK, BatchThenQueue, Positions, lifeVars, linkVars
  <2>3. QED
    BY <1>1, <2>1, <2>2 DEF IInv
<1>4. CASE /\ queue # << >> /\ wpc' = "check" /\ UNCHANGED registered
           /\ batch' = Taken(queue, QueueSize) /\ queue' = Left(queue, QueueSize)
  <2> DEFINE a == Taken(queue, QueueSize)
             b == Left(queue, QueueSize)
  <2>1. /\ accepted \in Nat /\ Len(queue) \in Nat /\ Settled \in Nat
        /\ Settled + Len(batch) + Len(queue) = accepted
        /\ QueueSize \in Nat /\ QueueSize # 0 /\ Len(batch) = 0
    BY <1>1, Lengths
  <2>2. queue \in Seq(1 .. accepted) /\ Len(queue) <= QueueSize /\ Numbered(queue, Settled)
    BY <2>1 DEF IInv, TypeOK, BatchThenQueue
  <2>3. /\ a \in Seq(1 .. accepted) /\ b \in Seq(1 .. accepted)
        /\ Len(a) <= QueueSize /\ Len(b) <= Len(queue)
    BY <2>1, <2>2, TakenAndLeft
  <2>4. /\ Len(a) \in Nat /\ Len(b) \in Nat /\ Len(a) + Len(b) = Len(queue)
        /\ a # << >> /\ batch' = a /\ queue' = b
    BY <1>4, <2>1, <2>2, TakenThenLeft
  <2>5. Numbered(a, Settled) /\ Numbered(b, Settled + Len(a))
    BY <2>1, <2>2, NumberedTaken
  <2> HIDE DEF a, b
  <2>6. Settled' = Settled
    BY <1>1, <2>1, <2>4 DEF Settled
  <2>7. TypeOK'
    <3>1. Len(b) <= QueueSize
      BY <2>1, <2>2, <2>3, <2>4
    <3>2. QED
      BY <1>1, <1>4, <2>3, <2>4, <3>1 DEF IInv, TypeOK, lifeVars, linkVars
  <2>8. BatchThenQueue'
    BY <1>1, <2>4, <2>5, <2>6 DEF IInv, BatchThenQueue
  <2>9. Positions'
    BY <1>1, <1>2, <1>4, <2>4 DEF IInv, Positions, linkVars
  <2>10. QED
    BY <1>1, <2>6, <2>7, <2>8, <2>9 DEF IInv
<1>5. QED
  BY <1>3, <1>4 DEF PipeTake

(* A publication that paho confirms settles the head of the batch, whose     *)
(* number is the next one; one that fails or is waited for in vain settles   *)
(* nothing (mqtt_client.go:263-268).                                         *)
LEMMA PublicationStep ==
  ASSUME IInv, PipePublish
  PROVE  /\ IInv'
         /\ UNCHANGED <<accepted, draining>>
         /\ \/ UNCHANGED <<Settled, sent>>
            \/ /\ Settled + 1 \in 1 .. accepted
               /\ sent' = Append(sent, Settled + 1)
               /\ Settled' \in {Settled, Settled + 1}
<1>1. /\ wpc = "publish" /\ batch # << >>
      /\ UNCHANGED <<lifeVars, linkVars, queueVars, registered>>
      /\ UNCHANGED <<draining, startpc, queue, accepted>>
  BY DEF PipePublish, IInv, Positions, lifeVars, queueVars
<1>2. /\ accepted \in Nat /\ Len(queue) \in Nat /\ Len(batch) \in Nat /\ Settled \in Nat
      /\ Settled + Len(batch) + Len(queue) = accepted /\ MaxEchoes \in Nat
      /\ QueueSize \in Nat
  BY Lengths
<1>3. /\ batch \in Seq(1 .. accepted) /\ Len(batch) <= QueueSize
      /\ sent \in Seq(1 .. accepted)
  BY DEF IInv, TypeOK
<1>4. /\ Head(batch) = Settled + 1 /\ Head(batch) \in 1 .. accepted
      /\ Tail(batch) \in Seq(1 .. accepted) /\ Len(Tail(batch)) = Len(batch) - 1
      /\ Len(batch) >= 1 /\ Numbered(Tail(batch), Settled + 1)
      /\ Tail(batch) = << >> <=> Len(batch) = 1
  <2> DEFINE S == 1 .. accepted
  <2>1. Numbered(batch, Settled) /\ Settled \in Nat
    BY <1>2 DEF IInv, BatchThenQueue
  <2>2. batch \in Seq(S) /\ batch # << >>
    BY <1>1, <1>3
  <2> HIDE DEF S
  <2>3. /\ Head(batch) = Settled + 1 /\ Head(batch) \in S
        /\ Tail(batch) \in Seq(S) /\ Len(Tail(batch)) = Len(batch) - 1
        /\ Len(batch) >= 1 /\ Numbered(Tail(batch), Settled + 1)
        /\ Tail(batch) = << >> <=> Len(batch) = 1
    BY <2>1, <2>2, NumberedTail
  <2>4. QED
    BY <2>3 DEF S
<1>5. Head(batch) = Settled + 1 /\ Settled + 1 \in 1 .. accepted
  BY <1>4
<1>6. startpc = "returned"
  BY <1>1 DEF IInv, Positions
<1>7. Append(sent, Settled + 1) \in Seq(1 .. accepted)
  <2> DEFINE k == Settled + 1
             S == 1 .. accepted
  <2>1. k \in S /\ sent \in Seq(S)
    BY <1>3, <1>5
  <2> HIDE DEF k, S
  <2>2. Append(sent, k) \in Seq(S)
    BY <2>1, AppendProperties
  <2>3. QED
    BY <2>2 DEF k, S
<1>8. CASE /\ sent' = Append(sent, Head(batch)) /\ batch' = Tail(batch)
           /\ wpc' = IF Len(batch) = 1 THEN "take" ELSE "check"
           /\ UNCHANGED echoes
  <2>1. sent' = Append(sent, Settled + 1)
    BY <1>5, <1>8
  <2>2. Len(batch') = Len(batch) - 1
    BY <1>4, <1>8
  <2>3. Settled' = Settled + 1
    BY <1>1, <1>2, <2>2 DEF Settled
  <2>4. TypeOK'
    <3>1. /\ batch' \in Seq(1 .. accepted') /\ sent' \in Seq(1 .. accepted')
          /\ Len(batch') <= QueueSize
      BY <1>1, <1>2, <1>3, <1>4, <1>7, <1>8, <2>1, <2>2
    <3>2. wpc' \in {"off", "take", "check", "publish", "failed", "exited"}
      BY <1>8
    <3>3. QED
      BY <1>1, <1>8, <3>1, <3>2 DEF IInv, TypeOK, lifeVars, linkVars, queueVars
  <2>5. BatchThenQueue'
    <3>1. Settled + 1 + Len(Tail(batch)) = Settled + Len(batch)
      BY <1>2, <1>4
    <3>2. Settled' \in 0 .. accepted'
      BY <1>1, <1>2, <1>5, <2>3
    <3>3. QED
      BY <1>1, <1>4, <1>8, <2>3, <3>1, <3>2 DEF IInv, BatchThenQueue
  <2>6. Positions'
    BY <1>1, <1>4, <1>6, <1>8 DEF IInv, Positions, linkVars
  <2>7. QED
    BY <1>1, <1>5, <2>1, <2>3, <2>4, <2>5, <2>6 DEF IInv
<1>9. CASE wpc' = "failed" /\ UNCHANGED <<batch, sent, echoes>>
  <2>1. Settled' = Settled
    BY <1>1, <1>9 DEF Settled
  <2>2. TypeOK' /\ BatchThenQueue' /\ Positions'
    BY <1>1, <1>6, <1>9, <2>1 DEF IInv, TypeOK, BatchThenQueue, Positions, lifeVars,
                                  linkVars, queueVars
  <2>3. QED
    BY <1>1, <1>9, <2>1, <2>2 DEF IInv
<1>10. CASE /\ echoes < MaxEchoes /\ sent' = Append(sent, Head(batch))
            /\ echoes' = echoes + 1 /\ wpc' = "failed" /\ UNCHANGED batch
  <2>1. sent' = Append(sent, Settled + 1)
    BY <1>5, <1>10
  <2>2. Settled' = Settled
    BY <1>1, <1>10 DEF Settled
  <2>3. TypeOK'
    <3>1. echoes' \in 0 .. MaxEchoes
      BY <1>2, <1>10 DEF IInv, TypeOK
    <3>2. sent' \in Seq(1 .. accepted')
      BY <1>1, <1>7, <2>1
    <3>3. QED
      BY <1>1, <1>10, <3>1, <3>2 DEF IInv, TypeOK, lifeVars, linkVars, queueVars
  <2>4. BatchThenQueue' /\ Positions'
    BY <1>1, <1>6, <1>10, <2>2 DEF IInv, BatchThenQueue, Positions, linkVars
  <2>5. QED
    BY <1>1, <1>5, <2>1, <2>2, <2>3, <2>4 DEF IInv
<1>11. QED
  BY <1>8, <1>9, <1>10 DEF PipePublish

(* The connection and its callbacks move no message                          *)
(* (mqtt_client.go:120-137, 214-248).                                        *)
LEMMA LinkStep ==
  ASSUME IInv, LinkUp \/ LinkLost \/ \E c \in 1 .. MaxLinks : Callback(c)
  PROVE  IInv' /\ UNCHANGED <<accepted, Settled, sent, draining>>
<1> USE DEF Callback, LinkUp, LinkLost, OnConnect, SyncSubscriptions, OnConnectionLost
<1>1. /\ UNCHANGED <<lifeVars, queueVars, pipeVars>>
      /\ UNCHANGED <<draining, startpc, accepted, queue, batch, sent, wpc>>
  BY DEF lifeVars, queueVars, pipeVars
<1>2. Settled' = Settled
  BY <1>1 DEF Settled
<1>3. links \in 0 .. MaxLinks /\ MaxLinks \in Nat
  BY MqttAssumption DEF IInv, TypeOK, MqttAssumption
<1>4. links' \in 0 .. MaxLinks /\ 1 .. links \subseteq 1 .. links'
  <2>1. links' = links \/ (links < MaxLinks /\ links' = links + 1)
    OBVIOUS
  <2>2. QED
    BY <1>3, <2>1
<1>5. ups' \subseteq 1 .. links' /\ subs' \subseteq 1 .. links' /\ losts' \subseteq 1 .. links'
  <2>1. ups \subseteq 1 .. links /\ subs \subseteq 1 .. links /\ losts \subseteq 1 .. links
    BY DEF IInv, TypeOK
  <2>2. CASE LinkUp
    <3>1. links + 1 \in 1 .. links'
      BY <1>3, <2>2
    <3>2. QED
      BY <1>4, <2>1, <2>2, <3>1
  <2>3. CASE LinkLost
    <3>1. links \in 1 .. links \/ links = 0
      BY <1>3
    <3>2. links # 0
      BY <2>3 DEF IInv, Positions
    <3>3. QED
      BY <2>1, <2>3, <3>1, <3>2
  <2>4. CASE \E c \in 1 .. MaxLinks : Callback(c)
    BY <2>1, <2>4
  <2>5. QED
    BY <2>2, <2>3, <2>4
<1>6. /\ link' \in {"none", "down", "up", "closed"}
      /\ connected' \in BOOLEAN /\ subscribed' \in BOOLEAN /\ refused' \in BOOLEAN
  BY DEF IInv, TypeOK
<1>7. TypeOK'
  BY <1>1, <1>4, <1>5, <1>6 DEF IInv, TypeOK, lifeVars, queueVars, pipeVars
<1>8. BatchThenQueue'
  BY <1>1, <1>2 DEF IInv, BatchThenQueue
<1>9. Positions'
  <2>1. link' = "up" => links' # 0
    <3>1. \/ links' = links + 1
          \/ links' = links /\ (link' = link \/ link' = "down")
      OBVIOUS
    <3>2. QED
      BY <1>3, <3>1 DEF IInv, Positions
  <2>2. QED
    BY <1>1, <2>1 DEF IInv, Positions
<1>10. QED
  BY <1>1, <1>2, <1>7, <1>8, <1>9 DEF IInv

(* The other steps move no message: Start, Close, the test of Publish, and   *)
(* the pipe's look at the connection and its decision after a failure        *)
(* (mqtt_client.go:68-190, 194, 263, 270-273).                               *)
LEMMA ControlStep ==
  ASSUME IInv, \/ PublishCheck \/ StartCall \/ Starter \/ CloseCall \/ Closer
               \/ ParentCancel \/ PipeCheck \/ PipeFailed \/ UNCHANGED vars
  PROVE  /\ IInv'
         /\ UNCHANGED <<accepted, Settled, sent>>
         /\ draining' = draining \/ draining' = TRUE
<1> USE DEF PublishCheck, StartCall, Starter, StartConnected, StartDrainPipe, CloseCall,
            Closer, CloseUnsubscribe, CloseQueue, CloseWait, CloseDisconnect, CloseCancel,
            ParentCancel, PipeCheck, PipeFailed, vars, lifeVars, linkVars, queueVars, pipeVars
<1>1. UNCHANGED <<accepted, queue, batch, sent, echoes, links, ups, subs, losts>>
  OBVIOUS
<1>2. draining' = draining \/ draining' = TRUE
  OBVIOUS
<1>3. Settled' = Settled
  BY <1>1 DEF Settled
<1>4. BatchThenQueue'
  BY <1>1, <1>3 DEF IInv, BatchThenQueue
<1>5. TypeOK'
  <2>1. /\ draining' \in BOOLEAN /\ ctxDone' \in BOOLEAN /\ connected' \in BOOLEAN
        /\ subscribed' \in BOOLEAN /\ refused' \in BOOLEAN /\ qclosed' \in BOOLEAN
        /\ registered' \in BOOLEAN
    BY DEF IInv, TypeOK, GivesUp
  <2>2. /\ link' \in {"none", "down", "up", "closed"}
        /\ pubpc' \in {"idle", "enqueue"}
        /\ startpc' \in {"idle", "failed", "connecting", "pipe", "returned"}
        /\ closepc' \in {"idle", "unsubscribe", "queue", "wait", "disconnect", "cancel",
                         "returned"}
        /\ wpc' \in {"off", "take", "check", "publish", "failed", "exited"}
    BY DEF IInv, TypeOK
  <2>3. QED
    BY <1>1, <2>1, <2>2 DEF IInv, TypeOK
<1>6. Positions'
  BY <1>1 DEF IInv, Positions
<1>7. QED
  BY <1>1, <1>2, <1>3, <1>4, <1>5, <1>6 DEF IInv

(* The invariant holds in every reachable state.                             *)
THEOREM Invariance == Spec => []IInv
<1>1. Init => IInv
  BY InitInv
<1>2. ASSUME IInv, [Next]_vars PROVE IInv'
  <2>1. CASE LinkUp \/ LinkLost \/ \E c \in 1 .. MaxLinks : Callback(c)
    BY <1>2, <2>1, LinkStep
  <2>2. CASE PublishEnqueue \/ PipeTake \/ PipePublish
    BY <1>2, <2>2, PublishStep, TakeStep, PublicationStep
  <2>3. CASE \/ PublishCheck \/ StartCall \/ Starter \/ CloseCall \/ Closer
             \/ ParentCancel \/ PipeCheck \/ PipeFailed \/ UNCHANGED vars
    BY <1>2, <2>3, ControlStep
  <2>4. QED
    BY <1>2, <2>1, <2>2, <2>3 DEF Next, Pipe, Terminating
<1>3. QED
  BY <1>1, <1>2, PTL DEF Spec

(* The queue, the pipe's buffer and what paho has hold accepted messages     *)
(* only, within their bounds (mqtt_client.go:43, 255).                       *)
THEOREM TypeCorrect == Spec => []TypeOK
<1>1. IInv => TypeOK
  BY DEF IInv
<1>2. QED
  BY <1>1, Invariance, PTL

(* One message is a batch.                                                   *)
LEMMA BatchOfOne ==
  ASSUME NEW k \in Promise!Current
  PROVE  <<k>> \in Promise!Batches
<1>1. <<k>> \in [1 .. 1 -> Promise!Current] /\ DOMAIN <<k>> = 1 .. 1
  OBVIOUS
<1>2. 1 \in 0 .. 1 /\ \A i, j \in 1 .. 1 : ~ i < j
  OBVIOUS
<1>3. <<k>> \in UNION {[1 .. n -> Promise!Current] : n \in 0 .. 1}
  BY <1>1, <1>2
<1>4. QED
  BY <1>1, <1>2, <1>3 DEF Promise!Batches

(* ...that holds the message.                                                *)
LEMMA InBatchOfOne == ASSUME NEW k PROVE k \in Promise!Range(<<k>>)
<1>1. <<k>>[1] = k /\ DOMAIN <<k>> = 1 .. 1 /\ 1 \in 1 .. 1
  OBVIOUS
<1>2. QED
  BY <1>1 DEF Promise!Range

(* The client keeps the promise of Outbox, one message at a time: through    *)
(* losses of the connection that it learns of late, or out of order, it      *)
(* sends in the order of Publish and passes over none                        *)
(* (mqtt_client.go:261-274).                                                 *)
THEOREM KeepsPromiseHolds == Spec => KeepsPromise
<1>1. Init => Promise!Init
  <2> SUFFICES ASSUME Init PROVE Promise!Init
    OBVIOUS
  <2>1. Settled = 0
    <3>1. IInv /\ accepted = 0
      BY InitInv DEF Init
    <3>2. QED
      BY <3>1, Lengths
  <2>2. QED
    BY <2>1 DEF Init, Promise!Init, Settled
<1>2. ASSUME IInv, [Next]_vars
      PROVE  [Promise!Next]_(Promise!outVars)
  <2>1. CASE PublishEnqueue
    <3>1. /\ accepted \in Nat /\ UNCHANGED <<Settled, sent, draining>>
          /\ accepted' \in {accepted, accepted + 1}
      BY <1>2, <2>1, PublishStep, Lengths
    <3>2. CASE accepted' = accepted
      BY <3>1, <3>2 DEF Promise!outVars, Settled
    <3>3. CASE accepted' = accepted + 1
      <4>1. Promise!Accept
        BY <3>1, <3>3 DEF Promise!Accept, Settled
      <4>2. QED
        BY <4>1 DEF Promise!Next
    <3>4. QED
      BY <3>1, <3>2, <3>3
  <2>2. CASE PipeTake \/ LinkUp \/ LinkLost \/ \E c \in 1 .. MaxLinks : Callback(c)
    <3>1. UNCHANGED <<accepted, Settled, sent, draining>>
      BY <1>2, <2>2, TakeStep, LinkStep
    <3>2. QED
      BY <3>1 DEF Promise!outVars, Settled
  <2>3. CASE PipePublish
    <3>1. UNCHANGED <<accepted, draining>>
      BY <1>2, <2>3, PublicationStep
    <3>2. CASE UNCHANGED <<Settled, sent>>
      BY <3>1, <3>2 DEF Promise!outVars, Settled
    <3>3. CASE /\ Settled + 1 \in 1 .. accepted /\ sent' = Append(sent, Settled + 1)
               /\ Settled' \in {Settled, Settled + 1}
      <4> DEFINE k == Settled + 1
      <4>1. accepted \in Nat /\ Settled \in Nat /\ sent \in Seq(1 .. accepted)
        BY <1>2, Lengths DEF IInv, TypeOK
      <4>2. k \in Promise!Current
        BY <3>3, <4>1 DEF Promise!Current, Settled
      <4>3. Settled + 1 .. Settled' \subseteq {k}
        BY <3>3, <4>1
      <4>4. sent' = sent \o <<k>>
        BY <3>3, <4>1
      <4>5. Promise!Attempt(<<k>>, Settled')
        BY <3>1, <4>3, <4>4, InBatchOfOne DEF Promise!Attempt, Settled
      <4>6. Settled' \in {Settled} \cup Promise!Current
        BY <3>3, <4>2
      <4>7. QED
        BY <4>2, <4>5, <4>6, BatchOfOne DEF Promise!Next, Settled
    <3>4. QED
      BY <1>2, <2>3, <3>2, <3>3, PublicationStep
  <2>4. CASE \/ PublishCheck \/ StartCall \/ Starter \/ CloseCall \/ Closer
             \/ ParentCancel \/ PipeCheck \/ PipeFailed \/ UNCHANGED vars
    <3>1. UNCHANGED <<accepted, Settled, sent>> /\ (draining' = draining \/ draining' = TRUE)
      BY <1>2, <2>4, ControlStep
    <3>2. QED
      BY <3>1 DEF Promise!Next, Promise!Close, Promise!outVars, Settled
  <2>5. QED
    BY <1>2, <2>1, <2>2, <2>3, <2>4 DEF Next, Pipe, Terminating
<1>3. QED
  BY <1>1, <1>2, Invariance, PTL DEF Spec, KeepsPromise, Promise!Spec
=============================================================================
