------------------------ MODULE KafkaProducerProofs -------------------------
(* KafkaProducer, for every size of the queue and of sarama's channels and   *)
(* whatever results sarama returns: its types, DrainedAtClose, and that it   *)
(* keeps the promise of Outbox.                                              *)
EXTENDS KafkaProducer, LockedRingBufferProofs, FiniteSetTheorems

\* Messages that left the batch.
Settled == accepted - Len(queue) - Len(batch)

(* Batch and queue together are the accepted messages that are not settled   *)
(* yet, in the order of Publish.                                             *)
InOrder ==
  /\ Settled \in 0 .. accepted
  /\ Numbered(batch, Settled)
  /\ Numbered(queue, Settled + Len(batch))

(* What left the batch is in sarama or has its result.                       *)
Accounted == 1 .. Settled \subseteq inflight \cup delivered \cup failed

(* The sender runs after Start spawned it, has a batch while it sends, and   *)
(* leaves a queue that is closed and empty.  Close returns when sarama is    *)
(* closed and empty.                                                         *)
Positions ==
  /\ IsFiniteSet(inflight)
  /\ startpc = "idle" => wpc = "off"
  /\ wpc \in {"off", "take"} => batch = << >>
  /\ wpc = "send" => batch # << >>
  /\ wpc \in {"cancel", "exited"} => batch = << >> /\ queue = << >> /\ qclosed
  /\ closepc \in {"flush", "returned"} => input = "closed"
  /\ closepc = "returned" => inflight = {}

IInv == TypeOK /\ InOrder /\ Accounted /\ Positions

(* NewAsyncProducer makes an empty queue and starts nothing (pub.go:37-105). *)
LEMMA InitInv == Init => IInv /\ Settled = 0
<1> SUFFICES ASSUME Init PROVE IInv /\ Settled = 0
  OBVIOUS
<1>1. /\ queue = << >> /\ batch = << >> /\ sent = << >> /\ accepted = 0 /\ results = 0
      /\ inflight = {} /\ delivered = {} /\ failed = {}
      /\ MaxMessages \in Nat /\ ChannelSize \in Nat /\ QueueSize \in Nat
  BY KafkaProducerAssumption DEF Init, KafkaProducerAssumption
<1>2. Len(<< >>) = 0 /\ << >> \in Seq(1 .. 0)
  OBVIOUS
<1>3. Cardinality(inflight) = 0 /\ IsFiniteSet(inflight)
  BY <1>1, FS_EmptySet
<1>4. /\ accepted \in 0 .. MaxMessages /\ results \in 0 .. ChannelSize
      /\ queue \in Seq(1 .. accepted) /\ Len(queue) <= QueueSize
      /\ batch \in Seq(1 .. accepted) /\ Len(batch) <= QueueSize
      /\ sent \in Seq(1 .. accepted) /\ Cardinality(inflight) <= ChannelSize
  BY <1>1, <1>2, <1>3
<1>5. TypeOK
  BY <1>1, <1>4 DEF Init, TypeOK
<1>6. Settled = 0
  <2>1. Len(queue) = 0 /\ Len(batch) = 0
    BY <1>1, <1>2
  <2>2. accepted = 0
    BY <1>1
  <2>3. QED
    BY <2>1, <2>2 DEF Settled
<1>7. InOrder /\ Accounted
  BY <1>1, <1>2, <1>6 DEF InOrder, Accounted, Numbered
<1>8. Positions
  BY <1>3 DEF Init, Positions
<1>9. QED
  BY <1>5, <1>6, <1>7, <1>8 DEF IInv

(* What the arithmetic of the steps needs of the types.                      *)
LEMMA Lengths ==
  ASSUME IInv
  PROVE  /\ accepted \in Nat /\ Len(queue) \in Nat /\ Len(batch) \in Nat
         /\ Settled \in Nat /\ Settled + Len(batch) + Len(queue) = accepted
         /\ QueueSize \in Nat \ {0} /\ MaxMessages \in Nat /\ ChannelSize \in Nat \ {0}
<1>1. /\ accepted \in 0 .. MaxMessages /\ QueueSize \in Nat \ {0}
      /\ MaxMessages \in Nat /\ ChannelSize \in Nat \ {0}
      /\ queue \in Seq(1 .. accepted) /\ batch \in Seq(1 .. accepted)
  BY KafkaProducerAssumption DEF IInv, TypeOK, KafkaProducerAssumption
<1>2. Len(queue) \in Nat /\ Len(batch) \in Nat /\ Settled \in 0 .. accepted
  BY <1>1 DEF IInv, InOrder
<1>3. QED
  BY <1>1, <1>2 DEF Settled

(* Publish and PublishArray add the next numbers to an open queue, as many   *)
(* as there is room for (pub.go:182-195).                                    *)
LEMMA EnqueueStep ==
  ASSUME IInv, NEW k \in Nat \ {0}, accepted + k <= MaxMessages,
         Len(queue) + k <= QueueSize, ~qclosed,
         accepted' = accepted + k,
         queue' \in Seq(1 .. accepted + k), Len(queue') = Len(queue) + k,
         Numbered(queue', Settled + Len(batch)),
         UNCHANGED <<ctxDone, qclosed, startpc, closepc, workVars, libVars>>
  PROVE  IInv' /\ Settled' = Settled
<1>1. /\ accepted \in Nat /\ Len(queue) \in Nat /\ Len(batch) \in Nat /\ Settled \in Nat
      /\ Settled + Len(batch) + Len(queue) = accepted
      /\ QueueSize \in Nat /\ MaxMessages \in Nat
  BY Lengths
<1>2. UNCHANGED <<ctxDone, qclosed, startpc, closepc, wpc, batch, subDone, rpc,
                  input, inflight, results, sent, delivered, failed>>
  BY DEF workVars, libVars
<1> DEFINE S == 1 .. accepted
           T == 1 .. accepted + k
<1>3. S \subseteq T
  BY <1>1
<1>4. /\ batch \in Seq(S) /\ sent \in Seq(S) /\ inflight \subseteq S
      /\ delivered \cup failed \subseteq S
  BY DEF IInv, TypeOK
<1> HIDE DEF S, T
<1>5. /\ batch \in Seq(T) /\ sent \in Seq(T) /\ inflight \subseteq T
      /\ delivered \cup failed \subseteq T
  BY <1>3, <1>4, WiderSeq
<1> USE DEF T
<1>6. Settled' = Settled
  BY <1>1, <1>2 DEF Settled
<1>7. TypeOK'
  <2>1. accepted' \in 0 .. MaxMessages /\ Len(queue') <= QueueSize
    BY <1>1
  <2>2. /\ queue' \in Seq(1 .. accepted') /\ batch' \in Seq(1 .. accepted')
        /\ sent' \in Seq(1 .. accepted') /\ inflight' \subseteq 1 .. accepted'
        /\ delivered' \cup failed' \subseteq 1 .. accepted'
    BY <1>2, <1>5
  <2>3. QED
    BY <1>2, <2>1, <2>2 DEF IInv, TypeOK
<1>8. InOrder'
  <2>1. Settled' \in 0 .. accepted'
    BY <1>1, <1>6
  <2>2. QED
    BY <1>2, <1>6, <2>1 DEF IInv, InOrder
<1>9. Accounted' /\ Positions'
  BY <1>2, <1>6 DEF IInv, Accounted, Positions
<1>10. QED
  BY <1>6, <1>7, <1>8, <1>9 DEF IInv

(* Publish adds one message (pub.go:182-187).                                *)
LEMMA PublishStep ==
  ASSUME IInv, Publish
  PROVE  IInv' /\ accepted' > accepted /\ UNCHANGED <<Settled, sent, ctxDone>>
<1> DEFINE m == accepted + 1
<1>1. /\ accepted < MaxMessages /\ ~qclosed /\ Len(queue) < QueueSize
      /\ accepted' = m /\ queue' = Append(queue, m)
      /\ UNCHANGED <<ctxDone, qclosed, startpc, closepc, workVars, libVars>>
  BY DEF Publish, Room, Accepts
<1>2. /\ accepted \in Nat /\ Len(queue) \in Nat /\ Len(batch) \in Nat /\ Settled \in Nat
      /\ Settled + Len(batch) + Len(queue) = accepted
      /\ QueueSize \in Nat /\ MaxMessages \in Nat
  BY Lengths
<1>3. 1 .. accepted \subseteq 1 .. m /\ m \in 1 .. m
  BY <1>2
<1>4. queue \in Seq(1 .. m)
  <2>1. queue \in Seq(1 .. accepted)
    BY DEF IInv, TypeOK
  <2> HIDE DEF m
  <2>2. QED
    BY <1>3, <2>1, WiderSeq
<1>5. /\ queue' \in Seq(1 .. m) /\ Len(queue') = Len(queue) + 1
      /\ Numbered(queue', Settled + Len(batch))
  <2>1. Numbered(queue, Settled + Len(batch)) /\ Settled + Len(batch) \in Nat
    BY <1>2 DEF IInv, InOrder
  <2>2. m = Settled + Len(batch) + Len(queue) + 1
    BY <1>2
  <2> HIDE DEF m
  <2>3. QED
    BY <1>1, <1>3, <1>4, <2>1, <2>2, NumberedAppend
<1>6. 1 \in Nat \ {0} /\ accepted + 1 <= MaxMessages /\ Len(queue) + 1 <= QueueSize
  BY <1>1, <1>2
<1>7. IInv' /\ Settled' = Settled
  BY <1>1, <1>5, <1>6, EnqueueStep
<1>8. QED
  BY <1>1, <1>2, <1>7 DEF libVars

(* PublishArray adds the part of the array that fits (pub.go:189-195).       *)
LEMMA PublishArrayStep ==
  ASSUME IInv, NEW n \in 1 .. MaxMessages, PublishArray(n)
  PROVE  IInv' /\ accepted' > accepted /\ UNCHANGED <<Settled, sent, ctxDone>>
<1> DEFINE k == IF n < QueueSize - Len(queue) THEN n ELSE QueueSize - Len(queue)
           r == [i \in 1 .. k |-> accepted + i]
<1>1. /\ accepted + n <= MaxMessages /\ ~qclosed /\ k > 0
      /\ accepted' = accepted + k /\ queue' = queue \o r
      /\ UNCHANGED <<ctxDone, qclosed, startpc, closepc, workVars, libVars>>
  BY DEF PublishArray
<1>2. /\ accepted \in Nat /\ Len(queue) \in Nat /\ Len(batch) \in Nat /\ Settled \in Nat
      /\ Settled + Len(batch) + Len(queue) = accepted
      /\ QueueSize \in Nat /\ MaxMessages \in Nat
  BY Lengths
<1>3. k \in Nat \ {0} /\ accepted + k <= MaxMessages /\ Len(queue) + k <= QueueSize
  BY <1>1, <1>2
<1> HIDE DEF k
<1>4. 1 .. accepted \subseteq 1 .. accepted + k /\ \A i \in 1 .. k : accepted + i \in 1 .. accepted + k
  BY <1>2, <1>3
<1>5. r \in Seq(1 .. accepted + k) /\ Len(r) = k /\ Numbered(r, accepted)
  BY <1>3, <1>4 DEF Numbered
<1>6. queue \in Seq(1 .. accepted + k)
  <2>1. queue \in Seq(1 .. accepted)
    BY DEF IInv, TypeOK
  <2>2. QED
    BY <1>4, <2>1, WiderSeq
<1> HIDE DEF r
<1>7. /\ queue' \in Seq(1 .. accepted + k) /\ Len(queue') = Len(queue) + k
      /\ Numbered(queue', Settled + Len(batch))
  <2>1. Numbered(queue, Settled + Len(batch)) /\ Settled + Len(batch) \in Nat
    BY <1>2 DEF IInv, InOrder
  <2>2. Numbered(r, Settled + Len(batch) + Len(queue))
    BY <1>2, <1>5
  <2>3. QED
    BY <1>1, <1>5, <1>6, <2>1, <2>2, NumberedConcat
<1>8. IInv' /\ Settled' = Settled
  BY <1>1, <1>3, <1>7, EnqueueStep
<1>9. QED
  BY <1>1, <1>2, <1>3, <1>8 DEF libVars

(* DequeueTo moves messages from the queue to the empty buffer, or lets the  *)
(* sender leave a queue that is closed and empty (pub.go:151-156).           *)
LEMMA TakeStep ==
  ASSUME IInv, SenderTake
  PROVE  IInv' /\ UNCHANGED <<accepted, Settled, sent, ctxDone>>
<1>1. /\ wpc = "take" /\ batch = << >> /\ startpc # "idle"
      /\ UNCHANGED <<ctxDone, qclosed, accepted, startpc, closepc, subDone, rpc,
                     input, inflight, results, sent, delivered, failed>>
  BY DEF SenderTake, IInv, Positions, libVars
<1>2. CASE Drained(queue, qclosed) /\ wpc' = "cancel" /\ UNCHANGED <<queue, batch>>
  <2>1. Settled' = Settled
    BY <1>1, <1>2 DEF Settled
  <2>2. TypeOK' /\ InOrder' /\ Accounted'
    BY <1>1, <1>2, <2>1 DEF IInv, TypeOK, InOrder, Accounted
  <2>3. Positions'
    BY <1>1, <1>2 DEF IInv, Positions, Drained
  <2>4. QED
    BY <1>1, <2>1, <2>2, <2>3 DEF IInv
<1>3. CASE /\ queue # << >> /\ wpc' = "send"
           /\ batch' = Taken(queue, QueueSize) /\ queue' = Left(queue, QueueSize)
  <2> DEFINE a == Taken(queue, QueueSize)
             b == Left(queue, QueueSize)
  <2>1. /\ accepted \in Nat /\ Len(queue) \in Nat /\ Settled \in Nat
        /\ Settled + Len(batch) + Len(queue) = accepted
        /\ QueueSize \in Nat /\ QueueSize # 0 /\ Len(batch) = 0
    BY <1>1, Lengths
  <2>2. queue \in Seq(1 .. accepted) /\ Len(queue) <= QueueSize
    BY DEF IInv, TypeOK
  <2>3. Numbered(queue, Settled)
    BY <2>1 DEF IInv, InOrder
  <2>4. /\ a \in Seq(1 .. accepted) /\ b \in Seq(1 .. accepted)
        /\ Len(a) <= QueueSize /\ Len(b) <= Len(queue)
    BY <2>1, <2>2, TakenAndLeft
  <2>5. /\ Len(a) \in Nat /\ Len(b) \in Nat /\ Len(a) + Len(b) = Len(queue)
        /\ a # << >>
    BY <1>3, <2>1, <2>2, TakenThenLeft
  <2>6. Numbered(a, Settled) /\ Numbered(b, Settled + Len(a))
    BY <2>1, <2>2, <2>3, NumberedTaken
  <2>7. batch' = a /\ queue' = b
    BY <1>3
  <2> HIDE DEF a, b
  <2>8. Settled' = Settled
    BY <1>1, <2>1, <2>5, <2>7 DEF Settled
  <2>9. TypeOK'
    <3>1. Len(b) <= QueueSize
      BY <2>1, <2>2, <2>4, <2>5
    <3>2. QED
      BY <1>1, <1>3, <2>4, <2>7, <3>1 DEF IInv, TypeOK
  <2>10. InOrder' /\ Accounted'
    BY <1>1, <2>6, <2>7, <2>8 DEF IInv, InOrder, Accounted
  <2>11. Positions'
    BY <1>1, <1>3, <2>5, <2>7 DEF IInv, Positions
  <2>12. QED
    BY <1>1, <2>8, <2>9, <2>10, <2>11 DEF IInv
<1>4. QED
  BY <1>2, <1>3 DEF SenderTake

(* The head of the batch, whose number is the next one, goes into Input and  *)
(* is in flight; a closed Input ends the process (pub.go:157-161).           *)
LEMMA SendStep ==
  ASSUME IInv, SenderSend
  PROVE  /\ IInv'
         /\ UNCHANGED <<accepted, ctxDone>>
         /\ \/ UNCHANGED <<Settled, sent>>
            \/ /\ Settled + 1 \in 1 .. accepted
               /\ sent' = Append(sent, Settled + 1)
               /\ Settled' = Settled + 1
<1>1. /\ wpc = "send" /\ batch # << >> /\ startpc # "idle"
      /\ UNCHANGED <<ctxDone, queue, qclosed, accepted, startpc, closepc, subDone, rpc,
                     input, results, delivered, failed>>
  BY DEF SenderSend, IInv, Positions, callVars
<1>2. /\ accepted \in Nat /\ Len(queue) \in Nat /\ Len(batch) \in Nat /\ Settled \in Nat
      /\ Settled + Len(batch) + Len(queue) = accepted
      /\ QueueSize \in Nat /\ ChannelSize \in Nat
  BY Lengths
<1>3. /\ batch \in Seq(1 .. accepted) /\ Len(batch) <= QueueSize
      /\ sent \in Seq(1 .. accepted) /\ inflight \subseteq 1 .. accepted
      /\ IsFiniteSet(inflight) /\ Numbered(batch, Settled)
  BY DEF IInv, TypeOK, InOrder, Positions
<1>4. CASE /\ input = "open" /\ Cardinality(inflight) < ChannelSize
           /\ inflight' = inflight \cup {NextMessage}
           /\ sent' = Append(sent, NextMessage) /\ batch' = Tail(batch)
           /\ wpc' = IF Len(batch) = 1 THEN "take" ELSE "send"
  <2> DEFINE k == Settled + 1
             S == 1 .. accepted
  <2>1. /\ Head(batch) = k /\ Head(batch) \in S
        /\ Tail(batch) \in Seq(S) /\ Len(Tail(batch)) = Len(batch) - 1 /\ Len(batch) >= 1
        /\ Numbered(Tail(batch), k)
        /\ Tail(batch) = << >> <=> Len(batch) = 1
    <3>1. batch \in Seq(S) /\ batch # << >> /\ Settled \in Nat
      BY <1>1, <1>2, <1>3
    <3> HIDE DEF S
    <3>2. QED
      BY <1>3, <3>1, NumberedTail
  <2>2. sent' = Append(sent, k) /\ inflight' = inflight \cup {k} /\ k \in S
    BY <1>4, <2>1 DEF NextMessage
  <2>3. Append(sent, k) \in Seq(S)
    <3> HIDE DEF k, S
    <3>1. sent \in Seq(S)
      BY <1>3 DEF S
    <3>2. QED
      BY <2>2, <3>1, AppendProperties
  <2>4. Settled' = k
    BY <1>1, <1>2, <1>4, <2>1 DEF Settled
  <2>5. IsFiniteSet(inflight') /\ Cardinality(inflight') <= ChannelSize
    <3> HIDE DEF k, S
    <3>1. Cardinality(inflight) \in Nat
      BY <1>3, FS_CardinalityType
    <3>2. /\ IsFiniteSet(inflight \cup {k})
          /\ Cardinality(inflight \cup {k}) <= Cardinality(inflight) + 1
      <4>1. /\ IsFiniteSet(inflight \cup {k})
            /\ Cardinality(inflight \cup {k}) =
                 IF k \in inflight THEN Cardinality(inflight) ELSE Cardinality(inflight) + 1
        BY <1>3, FS_AddElement
      <4>2. QED
        BY <3>1, <4>1
    <3>3. Cardinality(inflight \cup {k}) \in Nat
      BY <3>2, FS_CardinalityType
    <3>4. Cardinality(inflight \cup {k}) <= ChannelSize
      BY <1>2, <1>4, <3>1, <3>2, <3>3
    <3>5. QED
      BY <2>2, <3>2, <3>4
  <2>6. TypeOK'
    <3>1. Len(batch') <= QueueSize
      BY <1>2, <1>3, <1>4, <2>1
    <3>2. /\ batch' \in Seq(1 .. accepted') /\ sent' \in Seq(1 .. accepted')
          /\ inflight' \subseteq 1 .. accepted'
      BY <1>1, <1>3, <1>4, <2>1, <2>2, <2>3
    <3>3. wpc' \in {"off", "take", "send", "cancel", "exited", "panicked"}
      BY <1>4
    <3>4. QED
      BY <1>1, <2>5, <3>1, <3>2, <3>3 DEF IInv, TypeOK
  <2>7. InOrder'
    <3>1. k + Len(Tail(batch)) = Settled + Len(batch)
      BY <1>2, <2>1
    <3>2. Settled' \in 0 .. accepted'
      BY <1>1, <1>2, <2>2, <2>4
    <3>3. QED
      BY <1>1, <1>4, <2>1, <2>4, <3>1, <3>2 DEF IInv, InOrder
  <2>8. Accounted'
    <3>1. 1 .. k \subseteq 1 .. Settled \cup {k}
      BY <1>2
    <3>2. QED
      BY <1>1, <2>2, <2>4, <3>1 DEF IInv, Accounted
  <2>9. Positions'
    <3>1. closepc # "returned"
      BY <1>4 DEF IInv, Positions
    <3>2. QED
      BY <1>1, <1>4, <2>1, <2>5, <3>1 DEF IInv, Positions
  <2>10. QED
    BY <1>1, <2>2, <2>4, <2>6, <2>7, <2>8, <2>9 DEF IInv
<1>5. CASE wpc' = "panicked" /\ UNCHANGED <<inflight, sent, batch>>
  <2>1. Settled' = Settled
    BY <1>1, <1>5 DEF Settled
  <2>2. TypeOK' /\ InOrder' /\ Accounted' /\ Positions'
    BY <1>1, <1>5, <2>1 DEF IInv, TypeOK, InOrder, Accounted, Positions
  <2>3. QED
    BY <1>1, <1>5, <2>1, <2>2 DEF IInv
<1>6. QED
  BY <1>4, <1>5 DEF SenderSend

(* sarama answers a message in flight.                                       *)
LEMMA SaramaStep ==
  ASSUME IInv, Sarama
  PROVE  IInv' /\ UNCHANGED <<accepted, Settled, sent, ctxDone>>
<1>1. PICK m \in inflight : Deliver(m) \/ Fail(m)
  BY DEF Sarama
<1>2. /\ inflight' = inflight \ {m}
      /\ delivered' \cup failed' = delivered \cup failed \cup {m}
      /\ UNCHANGED <<ctxDone, queue, qclosed, accepted, startpc, closepc, wpc, batch, subDone,
                     rpc, input, sent>>
  BY <1>1 DEF Deliver, Fail, callVars, workVars
<1>3. results' \in 0 .. ChannelSize
  <2>1. results' = results \/ (results < ChannelSize /\ results' = results + 1)
    BY <1>1 DEF Deliver, Fail, Result
  <2>2. results \in 0 .. ChannelSize /\ ChannelSize \in Nat
    BY Lengths DEF IInv, TypeOK
  <2>3. QED
    BY <2>1, <2>2
<1>4. IsFiniteSet(inflight') /\ Cardinality(inflight') <= ChannelSize
  <2>1. IsFiniteSet(inflight) /\ Cardinality(inflight) <= ChannelSize /\ ChannelSize \in Nat
    BY Lengths DEF IInv, TypeOK, Positions
  <2>2. inflight' \in SUBSET inflight
    BY <1>2
  <2>3. /\ IsFiniteSet(inflight') /\ Cardinality(inflight') <= Cardinality(inflight)
    BY <2>1, <2>2, FS_Subset
  <2>4. Cardinality(inflight') \in Nat /\ Cardinality(inflight) \in Nat
    BY <2>1, <2>3, FS_CardinalityType
  <2>5. QED
    BY <2>1, <2>3, <2>4
<1>5. Settled' = Settled
  BY <1>2 DEF Settled
<1>6. TypeOK'
  BY <1>2, <1>3, <1>4 DEF IInv, TypeOK
<1>7. InOrder' /\ Accounted' /\ Positions'
  BY <1>2, <1>4, <1>5 DEF IInv, InOrder, Accounted, Positions
<1>8. QED
  BY <1>2, <1>5, <1>6, <1>7 DEF IInv

(* The other steps move no message: Start, the stages of Close, the reader   *)
(* of the results and the exit of the sender (pub.go:107-145, 235-256).      *)
LEMMA ControlStep ==
  ASSUME IInv, \/ StartCall \/ StartReturn \/ CloseCall \/ ParentCancel \/ SenderExit
               \/ Closer \/ ReaderResult \/ ReaderExit \/ UNCHANGED vars
  PROVE  /\ IInv'
         /\ UNCHANGED <<accepted, Settled, sent>>
         /\ ctxDone' = ctxDone \/ ctxDone' = TRUE
<1> USE DEF Closer, StartCall, StartReturn, CloseCall, ParentCancel, SenderExit, CloseQueue,
            CloseWait, CloseProducer, CloseReads, CloseReturn, ReaderResult, ReaderExit,
            vars, callVars, workVars, libVars
<1>1. /\ UNCHANGED <<queue, accepted, batch, inflight, sent, delivered, failed>>
      /\ ctxDone' = ctxDone \/ ctxDone' = TRUE
  OBVIOUS
<1>2. Settled' = Settled
  BY <1>1 DEF Settled
<1>3. InOrder' /\ Accounted'
  BY <1>1, <1>2 DEF IInv, InOrder, Accounted
<1>4. results' \in 0 .. ChannelSize
  <2>1. results' = results \/ (results > 0 /\ results' = results - 1)
    OBVIOUS
  <2>2. results \in 0 .. ChannelSize /\ ChannelSize \in Nat
    BY Lengths DEF IInv, TypeOK
  <2>3. QED
    BY <2>1, <2>2
<1>5. TypeOK'
  <2>1. /\ ctxDone \in BOOLEAN /\ qclosed \in BOOLEAN /\ subDone \in BOOLEAN
        /\ startpc \in {"idle", "wait", "returned"}
        /\ wpc \in {"off", "take", "send", "cancel", "exited", "panicked"}
        /\ rpc \in {"off", "read", "exited"}
        /\ closepc \in {"idle", "queue", "wait", "producer", "flush", "returned"}
        /\ input \in {"open", "closed"}
    BY DEF IInv, TypeOK
  <2>2. ctxDone' \in BOOLEAN /\ qclosed' \in BOOLEAN /\ subDone' \in BOOLEAN
    BY <2>1
  <2>3. /\ startpc' \in {"idle", "wait", "returned"}
        /\ wpc' \in {"off", "take", "send", "cancel", "exited", "panicked"}
        /\ rpc' \in {"off", "read", "exited"}
        /\ closepc' \in {"idle", "queue", "wait", "producer", "flush", "returned"}
        /\ input' \in {"open", "closed"}
    BY <2>1
  <2>4. {ctxDone, qclosed, subDone}' \subseteq BOOLEAN
    BY <2>2
  <2>5. QED
    BY <1>1, <1>4, <2>3, <2>4 DEF IInv, TypeOK
<1>6. Positions'
  BY <1>1 DEF IInv, TypeOK, Positions
<1>7. QED
  BY <1>1, <1>2, <1>3, <1>5, <1>6 DEF IInv

(* The invariant holds in every reachable state.                             *)
THEOREM Invariance == Spec => []IInv
<1>1. Init => IInv
  BY InitInv
<1>2. IInv /\ [Next]_vars => IInv'
  BY PublishStep, PublishArrayStep, TakeStep, SendStep, SaramaStep, ControlStep
     DEF Next, Sender, Terminating
<1>3. QED
  BY <1>1, <1>2, PTL DEF Spec

(* The queue, the sender's buffer and the channels of sarama hold accepted   *)
(* messages only, within their bounds (pub.go:86, 150).                      *)
THEOREM TypeCorrect == Spec => []TypeOK
<1>1. IInv => TypeOK
  BY DEF IInv
<1>2. QED
  BY <1>1, Invariance, PTL

(* When Close has returned and the sender has left in the regular way, every *)
(* accepted message has its result (pub.go:235-256).                         *)
THEOREM DrainedAtCloseHolds == Spec => []DrainedAtClose
<1>1. ASSUME IInv PROVE DrainedAtClose
  <2>1. SUFFICES ASSUME closepc = "returned", wpc = "exited"
                 PROVE  delivered \cup failed = 1 .. accepted
    BY DEF DrainedAtClose
  <2>2. batch = << >> /\ queue = << >> /\ inflight = {}
    BY <1>1, <2>1 DEF IInv, Positions
  <2>3. Len(batch) = 0 /\ Len(queue) = 0
    BY <2>2
  <2>4. Settled = accepted
    BY <1>1, <2>3, Lengths
  <2>5. QED
    BY <1>1, <2>2, <2>4 DEF IInv, Accounted, TypeOK
<1>2. QED
  BY <1>1, Invariance, PTL

(* One message is a batch.                                                   *)
LEMMA BatchOfOne ==
  ASSUME NEW k \in Promise!Current
  PROVE  <<k>> \in Promise!Batches /\ k \in Promise!Range(<<k>>)
<1>1. <<k>> \in [1 .. 1 -> Promise!Current] /\ <<k>>[1] = k /\ DOMAIN <<k>> = 1 .. 1
  OBVIOUS
<1>2. 1 \in 0 .. 1 /\ 1 \in 1 .. 1 /\ \A i, j \in 1 .. 1 : ~ i < j
  OBVIOUS
<1>3. <<k>> \in UNION {[1 .. n -> Promise!Current] : n \in 0 .. 1}
  BY <1>1, <1>2
<1>4. QED
  BY <1>1, <1>2, <1>3 DEF Promise!Batches, Promise!Range

(* The producer keeps the promise of Outbox: messages enter sarama in the    *)
(* order of Publish, each once, and none is passed over (pub.go:147-165).    *)
THEOREM KeepsPromiseHolds == Spec => KeepsPromise
<1>1. Init => Promise!Init
  BY InitInv DEF Init, Promise!Init, Settled
<1>2. ASSUME IInv, [Next]_vars
      PROVE  [Promise!Next]_(Promise!outVars)
  <2>1. accepted \in Nat /\ Settled \in Nat /\ sent \in Seq(1 .. accepted)
    BY <1>2, Lengths DEF IInv, TypeOK
  <2>2. CASE Publish \/ \E n \in 1 .. MaxMessages : PublishArray(n)
    <3>1. accepted' > accepted /\ UNCHANGED <<Settled, sent, ctxDone>> /\ IInv'
      BY <1>2, <2>2, PublishStep, PublishArrayStep
    <3>2. accepted' \in Nat
      BY <3>1 DEF IInv, TypeOK
    <3>3. Promise!Accept
      BY <3>1, <3>2 DEF Promise!Accept, Settled
    <3>4. QED
      BY <3>3 DEF Promise!Next
  <2>3. CASE SenderTake \/ Sarama
    <3>1. UNCHANGED <<accepted, Settled, sent, ctxDone>>
      BY <1>2, <2>3, TakeStep, SaramaStep
    <3>2. QED
      BY <3>1 DEF Promise!outVars, Settled
  <2>4. CASE SenderSend
    <3>1. UNCHANGED <<accepted, ctxDone>>
      BY <1>2, <2>4, SendStep
    <3>2. CASE UNCHANGED <<Settled, sent>>
      BY <3>1, <3>2 DEF Promise!outVars, Settled
    <3>3. CASE /\ Settled + 1 \in 1 .. accepted /\ sent' = Append(sent, Settled + 1)
               /\ Settled' = Settled + 1
      <4> DEFINE k == Settled + 1
      <4>1. k \in Promise!Current
        BY <2>1, <3>3 DEF Promise!Current, Settled
      <4>2. Settled + 1 .. Settled' \subseteq {k}
        BY <2>1, <3>3
      <4>3. sent' = sent \o <<k>>
        BY <2>1, <3>3
      <4>4. Promise!Attempt(<<k>>, Settled')
        BY <3>1, <4>1, <4>2, <4>3, BatchOfOne DEF Promise!Attempt, Settled
      <4>5. Settled' \in Promise!Current
        BY <3>3, <4>1
      <4>6. QED
        BY <4>1, <4>4, <4>5, BatchOfOne DEF Promise!Next, Settled
    <3>4. QED
      BY <1>2, <2>4, <3>2, <3>3, SendStep
  <2>5. CASE \/ StartCall \/ StartReturn \/ CloseCall \/ ParentCancel \/ SenderExit
             \/ Closer \/ ReaderResult \/ ReaderExit \/ UNCHANGED vars
    <3>1. UNCHANGED <<accepted, Settled, sent>> /\ (ctxDone' = ctxDone \/ ctxDone' = TRUE)
      BY <1>2, <2>5, ControlStep
    <3>2. QED
      BY <3>1 DEF Promise!Next, Promise!Close, Promise!outVars, Settled
  <2>6. QED
    BY <1>2, <2>2, <2>3, <2>4, <2>5 DEF Next, Sender, Terminating
<1>3. QED
  BY <1>1, <1>2, Invariance, PTL DEF Spec, KeepsPromise, Promise!Spec
=============================================================================
