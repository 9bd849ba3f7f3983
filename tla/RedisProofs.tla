---------------------------- MODULE RedisProofs -----------------------------
(* RedisPub, for every size of the queue and of a batch, any number of       *)
(* retries and of messages: its types, DrainKeepsEarlier, and that it keeps  *)
(* the promise of Outbox.                                                    *)
(*                                                                           *)
(* RedisSub, for every number of outages of Redis: once Close has returned   *)
(* the application gets no message any more.                                 *)
EXTENDS RedisPub, RedisSub, LockedRingBufferProofs

(* RedisPub                                                                  *)

\* Messages that left the batch.
Settled == accepted - Len(queue) - Len(batch)

(* Batch and queue together are the accepted messages that are not settled   *)
(* yet, in the order of Publish.                                             *)
InOrder ==
  /\ Settled \in 0 .. accepted
  /\ Numbered(batch, Settled)
  /\ Numbered(queue, Settled + Len(batch))

(* What left the batch was sent, unless a batch was dropped.                 *)
SettledSent == ~dropped => \A k \in 1 .. Settled : k \in Elements(sent)

Publishing == {"top", "link", "take", "drain", "publish", "failed"}

(* The publishing loop is registered while it runs, has a batch only while   *)
(* PublishArray works on it, and leaves a publisher that is not draining     *)
(* only after it has lost the connection.                                    *)
Positions ==
  /\ wpc \notin {"publish", "failed"} => batch = << >>
  /\ wpc \in {"publish", "failed"} => retries < MaxDrainRetries
  /\ registered <=> wpc \in Publishing \cup {"leave"}
  /\ wpc = "drain" \/ back = "drain" => draining
  /\ wpc = "leave" => draining \/ ~connected

(* A draining publisher has settled what it owes when its publishing loop    *)
(* does not run, hence when Close has waited for it.                         *)
OwedSettled ==
  /\ draining <=> closepc # "idle"
  /\ qclosed => draining
  /\ draining /\ wpc \notin Publishing => owed <= Settled
  /\ closepc \notin {"idle", "disconnect", "wait"} => owed <= Settled

IInv == TypeOK /\ InOrder /\ SettledSent /\ Positions /\ OwedSettled
-----------------------------------------------------------------------------
(* A batch of the publishing loop holds a message at least.                  *)
LEMMA BatchSizes == BatchSize \in Nat /\ QueueSize \in Nat /\ MaxDrainRetries \in Nat \ {0}
<1>1. QueueSize \in Nat /\ DefaultBatchSize \in Nat /\ MaxDrainRetries \in Nat \ {0}
  BY RedisPubAssumption DEF RedisPubAssumption
<1>2. QueueSize \div 4 \in Nat
  BY <1>1
<1>3. QED
  BY <1>1, <1>2 DEF BatchSize

(* NewRedisPub starts with an empty queue and no goroutine (pub.go:34-69).   *)
LEMMA InitInv == Init => IInv
<1> SUFFICES ASSUME Init PROVE IInv
  OBVIOUS
<1>1. /\ queue = << >> /\ batch = << >> /\ sent = << >> /\ accepted = 0 /\ echoes = 0
      /\ retries = 0 /\ owed = 0
      /\ MaxMessages \in Nat /\ MaxEchoes \in Nat /\ QueueSize \in Nat
      /\ MaxDrainRetries \in Nat
  BY RedisPubAssumption DEF Init, RedisPubAssumption
<1>2. Len(<< >>) = 0 /\ << >> \in Seq(1 .. 0)
  OBVIOUS
<1>3. /\ accepted \in 0 .. MaxMessages /\ echoes \in 0 .. MaxEchoes
      /\ queue \in Seq(1 .. accepted) /\ Len(queue) <= QueueSize
      /\ batch \in Seq(1 .. accepted) /\ Len(batch) <= QueueSize
      /\ sent \in Seq(1 .. accepted) /\ owed \in 0 .. accepted
      /\ retries \in 0 .. MaxDrainRetries
  BY <1>1, <1>2
<1>4. TypeOK
  BY <1>3 DEF Init, TypeOK
<1>5. Settled = 0
  <2>1. Len(queue) = 0 /\ Len(batch) = 0
    BY <1>1, <1>2
  <2>2. accepted = 0
    BY <1>1
  <2>3. QED
    BY <2>1, <2>2 DEF Settled
<1>6. InOrder /\ SettledSent
  BY <1>1, <1>2, <1>5 DEF InOrder, SettledSent, Numbered
<1>7. Positions
  BY DEF Init, Positions, Publishing
<1>8. OwedSettled
  BY DEF Init, OwedSettled
<1>9. QED
  BY <1>4, <1>6, <1>7, <1>8 DEF IInv

(* What the arithmetic of the steps needs of the types.                      *)
LEMMA Lengths ==
  ASSUME IInv
  PROVE  /\ accepted \in Nat /\ Len(queue) \in Nat /\ Len(batch) \in Nat
         /\ Settled \in Nat /\ Settled + Len(batch) + Len(queue) = accepted
         /\ Settled <= accepted
         /\ QueueSize \in Nat \ {0} /\ MaxMessages \in Nat /\ MaxEchoes \in Nat
         /\ owed \in Nat /\ owed <= accepted
         /\ queue \in Seq(1 .. accepted) /\ Len(queue) <= QueueSize
         /\ batch \in Seq(1 .. accepted) /\ Len(batch) <= QueueSize
         /\ sent \in Seq(1 .. accepted)
<1>1. /\ accepted \in 0 .. MaxMessages /\ QueueSize \in Nat \ {0}
      /\ MaxMessages \in Nat /\ MaxEchoes \in Nat /\ owed \in 0 .. accepted
      /\ queue \in Seq(1 .. accepted) /\ batch \in Seq(1 .. accepted)
      /\ sent \in Seq(1 .. accepted) /\ Len(queue) <= QueueSize /\ Len(batch) <= QueueSize
  BY RedisPubAssumption DEF IInv, TypeOK, RedisPubAssumption
<1>2. Len(queue) \in Nat /\ Len(batch) \in Nat /\ Settled \in 0 .. accepted
  BY <1>1 DEF IInv, InOrder
<1>3. QED
  BY <1>1, <1>2 DEF Settled

(* Publish appends the next number, or is refused (pub.go:120-124).          *)
LEMMA PublishEnqueueStep ==
  ASSUME IInv, PublishEnqueue
  PROVE  /\ IInv'
         /\ \/ accepted' = accepted + 1 /\ Settled' = Settled
            \/ UNCHANGED <<accepted, Settled>>
         /\ UNCHANGED <<sent, draining>>
<1>1. UNCHANGED <<draining, linkVars, qclosed, closepc, workVars, auxVars>> /\ pubpc' = "idle"
  BY DEF PublishEnqueue
<1>2. /\ accepted \in Nat /\ Len(queue) \in Nat /\ Len(batch) \in Nat /\ Settled \in Nat
      /\ Settled + Len(batch) + Len(queue) = accepted
      /\ QueueSize \in Nat /\ MaxMessages \in Nat
      /\ owed \in Nat /\ owed <= accepted
  BY Lengths
<1>3. CASE UNCHANGED <<queue, accepted>>
  <2>1. Settled' = Settled
    BY <1>1, <1>3 DEF Settled, workVars
  <2>2. QED
    BY <1>1, <1>3, <2>1 DEF IInv, TypeOK, InOrder, SettledSent, Positions, OwedSettled,
                            linkVars, workVars, auxVars
<1>4. CASE Room /\ accepted < MaxMessages /\ accepted' = accepted + 1
           /\ queue' = Append(queue, accepted + 1)
  <2> DEFINE m == accepted + 1
  <2>1. 1 .. accepted \subseteq 1 .. m /\ m \in 1 .. m /\ Len(queue) < QueueSize
    BY <1>2, <1>4 DEF Room, Accepts
  <2>2. /\ queue \in Seq(1 .. m) /\ batch \in Seq(1 .. m) /\ sent \in Seq(1 .. m)
    <3>1. /\ queue \in Seq(1 .. accepted) /\ batch \in Seq(1 .. accepted)
          /\ sent \in Seq(1 .. accepted)
      BY Lengths
    <3> HIDE DEF m
    <3>2. QED
      BY <2>1, <3>1, WiderSeq
  <2>3. /\ queue' \in Seq(1 .. m) /\ Len(queue') = Len(queue) + 1
        /\ Numbered(queue', Settled + Len(batch))
    <3>1. Numbered(queue, Settled + Len(batch)) /\ Settled + Len(batch) \in Nat
      BY <1>2 DEF IInv, InOrder
    <3>2. m = Settled + Len(batch) + Len(queue) + 1 /\ queue' = Append(queue, m)
      BY <1>2, <1>4
    <3> HIDE DEF m
    <3>3. QED
      BY <2>1, <2>2, <3>1, <3>2, NumberedAppend
  <2>4. Settled' = Settled
    BY <1>1, <1>2, <1>4, <2>3 DEF Settled, workVars
  <2>5. TypeOK'
    <3>1. /\ accepted' \in 0 .. MaxMessages /\ Len(queue') <= QueueSize
          /\ owed' \in 0 .. accepted'
      BY <1>1, <1>2, <1>4, <2>1, <2>3 DEF auxVars
    <3>2. queue' \in Seq(1 .. accepted') /\ batch' \in Seq(1 .. accepted')
          /\ sent' \in Seq(1 .. accepted')
      BY <1>1, <1>4, <2>2, <2>3 DEF workVars, auxVars
    <3> HIDE DEF m
    <3>3. QED
      BY <1>1, <3>1, <3>2 DEF IInv, TypeOK, linkVars, workVars, auxVars
  <2>6. InOrder'
    <3>1. Settled' \in 0 .. accepted'
      BY <1>2, <1>4, <2>4
    <3>2. QED
      BY <1>1, <2>3, <2>4, <3>1 DEF IInv, InOrder, workVars
  <2>7. SettledSent' /\ Positions' /\ OwedSettled'
    BY <1>1, <2>4 DEF IInv, SettledSent, Positions, OwedSettled, linkVars, workVars, auxVars
  <2>8. QED
    BY <1>1, <1>4, <2>4, <2>5, <2>6, <2>7 DEF IInv, auxVars
<1>5. QED
  BY <1>3, <1>4 DEF PublishEnqueue

(* The two dequeues into the empty buffer (pub.go:207-219, 226-238).         *)
LEMMA TakeStep ==
  ASSUME IInv, Take \/ Drain
  PROVE  IInv' /\ UNCHANGED <<accepted, Settled, sent, draining>>
<1>1. /\ batch = << >> /\ wpc \in {"take", "drain"}
      /\ UNCHANGED <<draining, linkVars, qclosed, accepted, pubpc, closepc, registered,
                     auxVars>>
      /\ draining <=> closepc # "idle"
      /\ qclosed => draining
      /\ back = "drain" => draining
      /\ registered
  BY DEF IInv, Positions, OwedSettled, Publishing, Take, Drain, auxVars
<1>2. /\ accepted \in Nat /\ Len(queue) \in Nat /\ Settled \in Nat /\ Len(batch) \in Nat
      /\ Settled + Len(batch) + Len(queue) = accepted
      /\ QueueSize \in Nat /\ BatchSize \in Nat /\ MaxDrainRetries \in Nat \ {0}
      /\ owed \in Nat /\ owed <= accepted /\ Len(batch) = 0
      /\ queue \in Seq(1 .. accepted) /\ Len(queue) <= QueueSize
  <2>1. Len(batch) = 0
    BY <1>1
  <2>2. QED
    BY <2>1, Lengths, BatchSizes
<1>3. CASE /\ queue = << >> /\ UNCHANGED <<queue, batch, retries, back>>
           /\ wpc' \in {"top", "leave"} /\ (wpc' = "leave" => draining)
  <2>1. Settled' = Settled
    BY <1>1, <1>3 DEF Settled
  <2>2. Len(queue) = 0 /\ Settled = accepted
    <3>1. Len(queue) = 0
      BY <1>3
    <3>2. QED
      BY <1>2, <3>1
  <2>3. owed' <= Settled'
    BY <1>1, <1>2, <2>1, <2>2 DEF auxVars
  <2>4. TypeOK' /\ InOrder' /\ SettledSent'
    BY <1>1, <1>3, <2>1 DEF IInv, TypeOK, InOrder, SettledSent, linkVars, auxVars
  <2>5. Positions' /\ OwedSettled'
    BY <1>1, <1>3, <2>3 DEF Positions, OwedSettled, Publishing, auxVars
  <2>6. QED
    BY <1>1, <2>1, <2>4, <2>5 DEF IInv, auxVars
<1>4. ASSUME NEW n \in Nat, NEW ret \in {"top", "drain"}, Begin(n, ret),
             ret = "drain" => draining
      PROVE  IInv' /\ UNCHANGED <<accepted, Settled, sent, draining>>
  <2> DEFINE a == Taken(queue, n)
             b == Left(queue, n)
  <2>1. /\ batch' = a /\ queue' = b /\ retries' = 0 /\ back' = ret /\ wpc' = "publish"
    BY <1>4 DEF Begin
  <2>2. queue \in Seq(1 .. accepted) /\ Len(queue) <= QueueSize /\ Numbered(queue, Settled)
    BY <1>2 DEF IInv, InOrder
  <2>3. a \in Seq(1 .. accepted) /\ b \in Seq(1 .. accepted)
    BY <2>2, TakenAndLeft
  <2>4. Len(a) \in Nat /\ Len(b) \in Nat /\ Len(a) + Len(b) = Len(queue)
    BY <2>2, TakenThenLeft
  <2>5. Numbered(a, Settled) /\ Numbered(b, Settled + Len(a))
    BY <1>2, <2>2, NumberedTaken
  <2> HIDE DEF a, b
  <2>6. Settled' = Settled
    BY <1>1, <1>2, <2>1, <2>4 DEF Settled
  <2>7. TypeOK'
    <3>1. Len(a) <= QueueSize /\ Len(b) <= QueueSize /\ 0 \in 0 .. MaxDrainRetries
      BY <1>2, <2>2, <2>4
    <3>2. QED
      BY <1>1, <2>1, <2>3, <3>1 DEF IInv, TypeOK, linkVars, auxVars
  <2>8. InOrder' /\ SettledSent'
    BY <1>1, <2>1, <2>5, <2>6 DEF IInv, InOrder, SettledSent, auxVars
  <2>9. Positions'
    <3>1. back' = "drain" => draining'
      BY <1>1, <1>4, <2>1
    <3>2. QED
      BY <1>1, <1>2, <2>1, <3>1 DEF Positions, Publishing
  <2>10. OwedSettled'
    BY <1>1, <2>1, <2>6 DEF IInv, OwedSettled, Publishing, auxVars
  <2>11. QED
    BY <1>1, <2>6, <2>7, <2>8, <2>9, <2>10 DEF IInv, auxVars
<1>5. QED
  <2>1. CASE Take
    BY <1>1, <1>2, <1>3, <1>4, <2>1 DEF Take
  <2>2. CASE Drain
    <3>1. draining
      BY <2>2 DEF IInv, Positions, Drain
    <3>2. QED
      BY <1>1, <1>2, <1>3, <1>4, <2>2, <3>1 DEF Drain
  <2>3. QED
    BY <2>1, <2>2

(* The batch is the first messages of the promise's window.                  *)
LEMMA BatchCurrent ==
  ASSUME IInv
  PROVE  /\ \A i \in 1 .. Len(batch) : batch[i] = Settled + i /\ batch[i] \in Promise!Current
         /\ batch \in Promise!Batches
<1>1. /\ accepted \in Nat /\ Len(queue) \in Nat /\ Len(batch) \in Nat /\ Settled \in Nat
      /\ Settled + Len(batch) + Len(queue) = accepted
      /\ QueueSize \in Nat /\ Len(batch) <= QueueSize /\ batch \in Seq(1 .. accepted)
  BY Lengths
<1>2. \A i \in 1 .. Len(batch) : batch[i] = Settled + i
  BY DEF IInv, InOrder, Numbered
<1>3. \A i \in 1 .. Len(batch) : batch[i] \in Promise!Current
  <2>1. ASSUME NEW i \in 1 .. Len(batch)
        PROVE  batch[i] \in Promise!Current
    <3>1. batch[i] = Settled + i
      BY <1>2
    <3>2. Settled + i \in Settled + 1 .. accepted /\ Settled + i <= Settled + QueueSize
      BY <1>1
    <3>3. QED
      BY <3>1, <3>2 DEF Promise!Current, Settled
  <2>2. QED
    BY <2>1
<1>4. batch \in [1 .. Len(batch) -> Promise!Current]
  BY <1>1, <1>3
<1>5. \A i, j \in DOMAIN batch : i < j => batch[i] < batch[j]
  <2>1. DOMAIN batch = 1 .. Len(batch)
    BY <1>1
  <2>2. ASSUME NEW i \in 1 .. Len(batch), NEW j \in 1 .. Len(batch), i < j
        PROVE  batch[i] < batch[j]
    <3>1. batch[i] = Settled + i /\ batch[j] = Settled + j
      BY <1>2
    <3>2. QED
      BY <1>1, <2>2, <3>1
  <2>3. QED
    BY <2>1, <2>2
<1>6. Len(batch) \in 0 .. QueueSize
  BY <1>1
<1>7. QED
  BY <1>2, <1>3, <1>4, <1>5, <1>6 DEF Promise!Batches

(* So is some of it, in order.                                               *)
LEMMA PartCurrent ==
  ASSUME IInv, NEW p \in Picks(Len(batch))
  PROVE  /\ [i \in 1 .. Len(p) |-> batch[p[i]]] \in Promise!Batches
         /\ [i \in 1 .. Len(p) |-> batch[p[i]]] \in Seq(1 .. accepted)
<1> DEFINE q == [i \in 1 .. Len(p) |-> batch[p[i]]]
<1>1. /\ Len(batch) \in Nat /\ Len(batch) <= QueueSize /\ QueueSize \in Nat /\ Settled \in Nat
      /\ batch \in Seq(1 .. accepted)
  BY Lengths
<1>2. PICK k \in 0 .. Len(batch) : p \in [1 .. k -> 1 .. Len(batch)]
  BY DEF Picks
<1>3. \A i, j \in DOMAIN p : i < j => p[i] < p[j]
  BY DEF Picks
<1>4. k \in Nat /\ k \in 0 .. QueueSize /\ DOMAIN p = 1 .. k
  BY <1>1, <1>2
<1>5. Len(p) = k
  BY <1>2, <1>4
<1>6. \A i \in 1 .. k :
        /\ p[i] \in 1 .. Len(batch) /\ batch[p[i]] = Settled + p[i]
        /\ batch[p[i]] \in Promise!Current /\ batch[p[i]] \in 1 .. accepted
  <2>1. ASSUME NEW i \in 1 .. k
        PROVE  /\ p[i] \in 1 .. Len(batch) /\ batch[p[i]] = Settled + p[i]
               /\ batch[p[i]] \in Promise!Current /\ batch[p[i]] \in 1 .. accepted
    <3>1. p[i] \in 1 .. Len(batch)
      BY <1>2
    <3> DEFINE x == p[i]
    <3>2. batch[x] = Settled + x /\ batch[x] \in Promise!Current
      <4> HIDE DEF x
      <4>1. x \in 1 .. Len(batch)
        BY <3>1 DEF x
      <4>2. QED
        BY <4>1, BatchCurrent
    <3>3. batch[x] \in 1 .. accepted
      <4> DEFINE S == 1 .. accepted
      <4>1. x \in 1 .. Len(batch) /\ batch \in Seq(S)
        BY <1>1, <3>1
      <4> HIDE DEF x, S
      <4>2. batch[x] \in S
        BY <4>1
      <4>3. QED
        BY <4>2 DEF S
    <3>4. QED
      BY <3>1, <3>2, <3>3
  <2>2. QED
    BY <2>1
<1>7. q \in [1 .. k -> Promise!Current]
  BY <1>5, <1>6
<1>8. \A i, j \in DOMAIN q : i < j => q[i] < q[j]
  <2>1. ASSUME NEW i \in 1 .. k, NEW j \in 1 .. k, i < j
        PROVE  q[i] < q[j]
    <3>1. p[i] < p[j] /\ p[i] \in Nat /\ p[j] \in Nat
      <4>1. p[i] < p[j]
        BY <1>3, <1>4, <2>1
      <4>2. p[i] \in 1 .. Len(batch) /\ p[j] \in 1 .. Len(batch)
        BY <1>6
      <4>3. QED
        BY <1>1, <4>1, <4>2
    <3>2. q[i] = Settled + p[i] /\ q[j] = Settled + p[j]
      BY <1>5, <1>6
    <3>3. QED
      BY <1>1, <3>1, <3>2
  <2>2. QED
    BY <1>5, <2>1
<1>9. q \in Seq(1 .. accepted)
  BY <1>4, <1>5, <1>6
<1>10. q \in Promise!Batches
  <2> HIDE DEF q
  <2>1. QED
    BY <1>4, <1>7, <1>8 DEF Promise!Batches
<1>11. QED
  BY <1>9, <1>10

(* What Redis has taken after one attempt more.                              *)
LEMMA SentMore ==
  ASSUME IInv, NEW q \in Seq(1 .. accepted)
  PROVE  /\ sent \o q \in Seq(1 .. accepted)
         /\ Elements(sent \o q) = Elements(sent) \cup Elements(q)
<1> DEFINE S == 1 .. accepted
<1>1. sent \in Seq(S) /\ q \in Seq(S)
  BY Lengths
<1> HIDE DEF S
<1>2. sent \o q \in Seq(S) /\ Elements(sent \o q) = Elements(sent) \cup Elements(q)
  BY <1>1, ElementsOfConcat
<1>3. QED
  BY <1>2 DEF S

(* An attempt: Redis takes the batch, which is settled with it, or some of   *)
(* the batch and the attempt fails (pub.go:252-267).                         *)
LEMMA PublishStep ==
  ASSUME IInv, Publish
  PROVE  /\ IInv'
         /\ UNCHANGED <<accepted, draining>>
         /\ \/ sent' = sent \o batch /\ Settled' = Settled + Len(batch)
            \/ /\ Settled' = Settled
               /\ \E q \in Promise!Batches : sent' = sent \o q
<1>1. /\ wpc = "publish" /\ registered
      /\ UNCHANGED <<draining, handler, queueVars, pubpc, closepc, registered, retries, back,
                     dropped, owed>>
  BY DEF Publish, IInv, Positions, Publishing
<1>2. /\ accepted \in Nat /\ Len(queue) \in Nat /\ Len(batch) \in Nat /\ Settled \in Nat
      /\ Settled + Len(batch) + Len(queue) = accepted
      /\ QueueSize \in Nat \ {0} /\ MaxEchoes \in Nat /\ owed \in Nat
      /\ batch \in Seq(1 .. accepted)
  BY Lengths
<1>3. CASE sent' = sent \o batch /\ Done /\ UNCHANGED <<connected, echoes>>
  <2>1. /\ batch' = << >> /\ wpc' = back /\ back \in {"top", "drain"}
        /\ wpc' = "drain" => draining'
    BY <1>1, <1>3 DEF Done, IInv, TypeOK, Positions
  <2>2. Len(batch') = 0
    BY <2>1
  <2>3. Settled' = Settled + Len(batch)
    BY <1>1, <1>2, <2>2 DEF Settled, queueVars
  <2>4. /\ sent' \in Seq(1 .. accepted)
        /\ Elements(sent') = Elements(sent) \cup Elements(batch)
    BY <1>2, <1>3, SentMore
  <2>5. TypeOK'
    <3>1. batch' \in Seq(1 .. accepted') /\ sent' \in Seq(1 .. accepted')
      BY <1>1, <2>1, <2>4 DEF queueVars
    <3>2. Len(batch') <= QueueSize
      BY <1>2, <2>2
    <3>3. QED
      BY <1>1, <1>3, <2>1, <3>1, <3>2 DEF IInv, TypeOK, queueVars
  <2>6. InOrder'
    <3>1. Settled' \in 0 .. accepted' /\ Settled' + Len(batch') = Settled + Len(batch)
      BY <1>1, <1>2, <2>2, <2>3 DEF queueVars
    <3>2. Numbered(batch', Settled')
      BY <2>2 DEF Numbered
    <3>3. Numbered(queue', Settled' + Len(batch'))
      BY <1>1, <3>1 DEF IInv, InOrder, queueVars
    <3>4. QED
      BY <3>1, <3>2, <3>3 DEF InOrder
  <2>7. SettledSent'
    <3>1. ASSUME NEW k \in 1 .. Settled', ~dropped
          PROVE  k \in Elements(sent')
      <4>1. CASE k <= Settled
        BY <1>2, <2>4, <3>1, <4>1 DEF IInv, SettledSent
      <4>2. CASE k > Settled
        <5>1. k - Settled \in 1 .. Len(batch) /\ Settled + (k - Settled) = k
          BY <1>2, <2>3, <4>2
        <5>2. batch[k - Settled] = k
          BY <5>1, BatchCurrent
        <5>3. k \in Elements(batch)
          BY <1>2, <5>1, <5>2, ElementPosition
        <5>4. QED
          BY <2>4, <5>3
      <4>3. QED
        BY <1>2, <2>3, <4>1, <4>2
    <3>2. QED
      BY <1>1, <3>1 DEF SettledSent
  <2>8. Positions'
    BY <1>1, <2>1 DEF IInv, Positions, Publishing
  <2>9. OwedSettled'
    <3>1. owed <= Settled => owed' <= Settled'
      BY <1>1, <1>2, <2>3
    <3>2. QED
      BY <1>1, <2>1, <3>1 DEF IInv, OwedSettled, Publishing, queueVars
  <2>10. QED
    BY <1>1, <1>3, <2>3, <2>5, <2>6, <2>7, <2>8, <2>9 DEF IInv, queueVars
<1>4. ASSUME NEW p \in Picks(Len(batch)),
             wpc' = "failed", connected' = (connected /\ draining), UNCHANGED batch,
             p # << >> => echoes < MaxEchoes,
             sent' = sent \o [i \in 1 .. Len(p) |-> batch[p[i]]],
             echoes' = IF p = << >> THEN echoes ELSE echoes + 1
      PROVE  IInv' /\ Settled' = Settled /\ \E q \in Promise!Batches : sent' = sent \o q
  <2>1. PICK q \in Promise!Batches : q \in Seq(1 .. accepted) /\ sent' = sent \o q
    BY <1>4, PartCurrent
  <2>2. Settled' = Settled
    BY <1>1, <1>4 DEF Settled, queueVars
  <2>3. sent' \in Seq(1 .. accepted) /\ Elements(sent) \subseteq Elements(sent')
    BY <2>1, SentMore
  <2>4. TypeOK'
    <3>1. echoes' \in 0 .. MaxEchoes
      BY <1>2, <1>4 DEF IInv, TypeOK
    <3>2. connected' \in BOOLEAN
      BY <1>4
    <3>3. QED
      BY <1>1, <1>4, <2>3, <3>1, <3>2 DEF IInv, TypeOK, queueVars
  <2>5. InOrder' /\ SettledSent'
    BY <1>1, <1>4, <2>2, <2>3 DEF IInv, InOrder, SettledSent, queueVars
  <2>6. Positions' /\ OwedSettled'
    BY <1>1, <1>4, <2>2 DEF IInv, Positions, OwedSettled, Publishing, queueVars
  <2>7. QED
    BY <2>1, <2>2, <2>4, <2>5, <2>6 DEF IInv
<1>5. UNCHANGED <<accepted, draining>>
  BY <1>1 DEF queueVars
<1>6. QED
  BY <1>3, <1>4, <1>5 DEF Publish

(* A batch that failed is tried again, or dropped after the last retry of a  *)
(* draining publisher (pub.go:269-279).                                      *)
LEMMA PublishFailedStep ==
  ASSUME IInv, PublishFailed
  PROVE  /\ IInv'
         /\ UNCHANGED <<accepted, draining, sent>>
         /\ \/ Settled' = Settled
            \/ draining /\ Settled' = Settled + Len(batch)
<1>1. /\ wpc = "failed" /\ registered /\ retries < MaxDrainRetries
      /\ UNCHANGED <<draining, linkVars, queueVars, pubpc, closepc, registered, back, sent,
                     echoes, owed>>
      /\ retries' = IF draining THEN retries + 1 ELSE retries
  BY DEF PublishFailed, IInv, Positions, Publishing
<1>2. /\ accepted \in Nat /\ Len(queue) \in Nat /\ Len(batch) \in Nat /\ Settled \in Nat
      /\ Settled + Len(batch) + Len(queue) = accepted
      /\ QueueSize \in Nat \ {0} /\ owed \in Nat /\ MaxDrainRetries \in Nat
      /\ retries \in Nat
  BY Lengths, BatchSizes DEF IInv, TypeOK
<1>3. retries' \in 0 .. MaxDrainRetries
  BY <1>1, <1>2
<1>4. CASE GivesUp
  <2>1. /\ batch' = << >> /\ wpc' = back /\ back \in {"top", "drain"} /\ draining
        /\ wpc' = "drain" => draining'
        /\ dropped' = TRUE
    BY <1>1, <1>4 DEF PublishFailed, GivesUp, Done, IInv, TypeOK, Positions
  <2>2. Len(batch') = 0 /\ << >> \in Seq(1 .. accepted)
    BY <2>1
  <2>3. Settled' = Settled + Len(batch)
    BY <1>1, <1>2, <2>2 DEF Settled, queueVars
  <2>4. TypeOK'
    <3>1. Len(batch') <= QueueSize
      BY <1>2, <2>2
    <3>2. QED
      BY <1>1, <1>3, <2>1, <2>2, <3>1 DEF IInv, TypeOK, linkVars, queueVars
  <2>5. InOrder'
    <3>1. Settled' \in 0 .. accepted' /\ Settled' + Len(batch') = Settled + Len(batch)
      BY <1>1, <1>2, <2>2, <2>3 DEF queueVars
    <3>2. Numbered(batch', Settled')
      BY <2>2 DEF Numbered
    <3>3. Numbered(queue', Settled' + Len(batch'))
      BY <1>1, <3>1 DEF IInv, InOrder, queueVars
    <3>4. QED
      BY <3>1, <3>2, <3>3 DEF InOrder
  <2>6. SettledSent'
    BY <2>1 DEF SettledSent
  <2>7. Positions'
    BY <1>1, <2>1 DEF IInv, Positions, Publishing
  <2>8. OwedSettled'
    <3>1. owed <= Settled => owed' <= Settled'
      BY <1>1, <1>2, <2>3
    <3>2. QED
      BY <1>1, <2>1, <3>1 DEF IInv, OwedSettled, Publishing, queueVars
  <2>9. QED
    BY <1>1, <2>1, <2>3, <2>4, <2>5, <2>6, <2>7, <2>8 DEF IInv, queueVars
<1>5. CASE ~GivesUp
  <2>1. wpc' = "publish" /\ UNCHANGED <<batch, dropped>>
    BY <1>5 DEF PublishFailed
  <2>2. retries' < MaxDrainRetries
    BY <1>1, <1>2, <1>5 DEF GivesUp
  <2>3. Settled' = Settled
    BY <1>1, <2>1 DEF Settled, queueVars
  <2>4. TypeOK' /\ InOrder' /\ SettledSent'
    BY <1>1, <1>3, <2>1, <2>3 DEF IInv, TypeOK, InOrder, SettledSent, linkVars, queueVars
  <2>5. Positions' /\ OwedSettled'
    BY <1>1, <2>1, <2>2, <2>3
       DEF IInv, Positions, OwedSettled, Publishing, linkVars, queueVars
  <2>6. QED
    BY <1>1, <2>3, <2>4, <2>5 DEF IInv, queueVars
<1>6. QED
  BY <1>4, <1>5


(* The other steps move no message: the check of Publish, the caller of      *)
(* Close, and the two loops (pub.go:71-86, 96-118, 131-224).                 *)
LEMMA ControlStep ==
  ASSUME IInv, \/ PublishCheck \/ CloseCall \/ Closer \/ StartCall \/ LoopTurn \/ Dial
               \/ Ping \/ Register \/ TopTurn \/ LinkTurn \/ Leave \/ UNCHANGED vars
  PROVE  /\ IInv'
         /\ UNCHANGED <<accepted, Settled, sent>>
         /\ draining' = draining \/ draining' = TRUE
<1> USE DEF Closer
<1>1. UNCHANGED <<accepted, queue, batch, retries, back, sent, echoes, dropped>>
  BY DEF PublishCheck, CloseCall, CloseDisconnect, CloseWait, CloseQueue, CloseTest, CloseStop,
         CloseCancel, StartCall, LoopTurn, Dial, Ping, Register, TopTurn, LinkTurn, Leave,
         vars, queueVars, linkVars, workVars, auxVars
<1>2. draining' = draining \/ draining' = TRUE
  BY DEF PublishCheck, CloseCall, CloseDisconnect, CloseWait, CloseQueue, CloseTest, CloseStop,
         CloseCancel, StartCall, LoopTurn, Dial, Ping, Register, TopTurn, LinkTurn, Leave,
         vars
<1>3. Settled' = Settled
  BY <1>1 DEF Settled
<1>4. InOrder' /\ SettledSent'
  BY <1>1, <1>3 DEF IInv, InOrder, SettledSent
<1>5. TypeOK'
  <2>1. /\ {draining, connected, qclosed, registered}' \subseteq BOOLEAN
        /\ handler' \in {"live", "stopped", "nil"}
        /\ pubpc' \in {"idle", "enqueue"}
        /\ closepc' \in {"idle", "disconnect", "wait", "queue", "test", "stop", "cancel",
                      "returned", "panicked"}
        /\ wpc' \in {"off", "loop", "dial", "ping", "register", "top", "link", "take",
                     "drain", "publish", "failed", "leave", "exited"}
    <3>1. draining' \in BOOLEAN /\ connected' \in BOOLEAN
      BY DEF IInv, TypeOK, PublishCheck, CloseCall, CloseDisconnect, CloseWait, CloseQueue, CloseTest,
             CloseStop, CloseCancel, StartCall, LoopTurn, Dial, Ping, Register, TopTurn,
             LinkTurn, Leave, AfterLink, vars, queueVars, linkVars, workVars, auxVars
    <3>2. qclosed' \in BOOLEAN /\ registered' \in BOOLEAN
      BY DEF IInv, TypeOK, PublishCheck, CloseCall, CloseDisconnect, CloseWait, CloseQueue, CloseTest,
             CloseStop, CloseCancel, StartCall, LoopTurn, Dial, Ping, Register, TopTurn,
             LinkTurn, Leave, AfterLink, vars, queueVars, linkVars, workVars, auxVars
    <3>3. /\ handler' \in {"live", "stopped", "nil"}
          /\ pubpc' \in {"idle", "enqueue"}
      BY DEF IInv, TypeOK, PublishCheck, CloseCall, CloseDisconnect, CloseWait, CloseQueue, CloseTest,
             CloseStop, CloseCancel, StartCall, LoopTurn, Dial, Ping, Register, TopTurn,
             LinkTurn, Leave, AfterLink, vars, queueVars, linkVars, workVars, auxVars
    <3>4. closepc' \in {"idle", "disconnect", "wait", "queue", "test", "stop", "cancel",
                      "returned", "panicked"}
      BY DEF IInv, TypeOK, PublishCheck, CloseCall, CloseDisconnect, CloseWait, CloseQueue, CloseTest,
             CloseStop, CloseCancel, StartCall, LoopTurn, Dial, Ping, Register, TopTurn,
             LinkTurn, Leave, AfterLink, vars, queueVars, linkVars, workVars, auxVars
    <3>5. wpc' \in {"off", "loop", "dial", "ping", "register", "top", "link", "take",
                    "drain", "publish", "failed", "leave", "exited"}
      BY DEF IInv, TypeOK, PublishCheck, CloseCall, CloseDisconnect, CloseWait, CloseQueue, CloseTest,
             CloseStop, CloseCancel, StartCall, LoopTurn, Dial, Ping, Register, TopTurn,
             LinkTurn, Leave, AfterLink, vars, queueVars, linkVars, workVars, auxVars
    <3>6. QED
      BY <3>1, <3>2, <3>3, <3>4, <3>5
  <2>2. owed' \in 0 .. accepted'
    <3>1. owed \in 0 .. accepted /\ 0 \in 0 .. accepted /\ accepted \in 0 .. accepted
      BY Lengths DEF IInv, TypeOK
    <3>2. owed' = owed \/ owed' = accepted \/ owed' = 0
      BY DEF PublishCheck, CloseCall, CloseDisconnect, CloseWait, CloseQueue, CloseTest, CloseStop,
             CloseCancel, StartCall, LoopTurn, Dial, Ping, Register, TopTurn, LinkTurn,
             Leave, vars, auxVars
    <3>3. QED
      BY <1>1, <3>1, <3>2
  <2>3. QED
    BY <1>1, <2>1, <2>2 DEF IInv, TypeOK
<1>6. Positions'
  <2>1. CASE \/ PublishCheck \/ CloseCall \/ Closer \/ UNCHANGED vars
    <3>1. /\ UNCHANGED <<wpc, registered>> /\ (draining => draining')
          /\ ~connected => ~connected'
      BY <2>1 DEF PublishCheck, CloseCall, CloseDisconnect, CloseWait, CloseQueue, CloseTest, CloseStop,
                  CloseCancel, vars, linkVars, workVars
    <3>2. QED
      BY <1>1, <3>1 DEF IInv, Positions
  <2>2. CASE StartCall \/ LoopTurn \/ Dial \/ Ping \/ Register \/ TopTurn \/ LinkTurn \/ Leave
    <3>1. UNCHANGED draining
      BY <2>2 DEF StartCall, LoopTurn, Dial, Ping, Register, TopTurn, LinkTurn, Leave
    <3>2. QED
      BY <1>1, <2>2, <3>1
         DEF IInv, Positions, Publishing, StartCall, LoopTurn, Dial, Ping, Register, TopTurn,
             LinkTurn, Leave, AfterLink, linkVars
  <2>3. QED
    BY <2>1, <2>2
<1>7. OwedSettled'
  <2>1. CASE CloseCall
    <3>1. /\ closepc = "idle" /\ closepc' = "disconnect" /\ draining' = TRUE
          /\ owed' = IF registered /\ connected THEN accepted ELSE 0
          /\ UNCHANGED <<wpc, qclosed>>
      BY <2>1 DEF CloseCall, workVars, queueVars
    <3>2. wpc \notin Publishing => owed' <= Settled'
      <4>1. Settled \in Nat
        BY Lengths
      <4>2. CASE registered /\ connected
        <5>1. wpc \in Publishing
          BY <3>1, <4>2 DEF IInv, Positions, OwedSettled
        <5>2. QED
          BY <5>1
      <4>3. CASE ~(registered /\ connected)
        BY <1>3, <3>1, <4>1, <4>3
      <4>4. QED
        BY <4>2, <4>3
    <3>3. QED
      BY <3>1, <3>2 DEF OwedSettled
  <2>2. CASE \/ PublishCheck \/ CloseDisconnect \/ CloseQueue \/ CloseTest \/ CloseStop \/ CloseCancel
             \/ CloseWait \/ UNCHANGED vars
    <3>1. /\ UNCHANGED <<wpc, owed, draining>>
          /\ qclosed' => qclosed \/ closepc = "queue"
          /\ closepc' = "idle" <=> closepc = "idle"
      BY <2>2 DEF PublishCheck, CloseDisconnect, CloseWait, CloseQueue, CloseTest, CloseStop,
                  CloseCancel, vars, workVars, auxVars, queueVars
    <3>2. closepc = "wait" /\ closepc' = "queue" => wpc \notin Publishing
      BY <2>2 DEF PublishCheck, CloseDisconnect, CloseWait, CloseQueue, CloseTest, CloseStop,
                  CloseCancel, IInv, Positions, vars
    <3>3. closepc' \notin {"idle", "disconnect", "wait"}
            => \/ closepc \notin {"idle", "disconnect", "wait"}
               \/ closepc = "wait" /\ closepc' = "queue"
      BY <2>2 DEF PublishCheck, CloseDisconnect, CloseWait, CloseQueue, CloseTest, CloseStop,
                  CloseCancel, vars
    <3>4. QED
      BY <1>3, <3>1, <3>2, <3>3 DEF IInv, OwedSettled
  <2>3. CASE StartCall \/ LoopTurn \/ Dial \/ Ping \/ Register \/ TopTurn \/ LinkTurn \/ Leave
    <3>1. UNCHANGED <<draining, closepc, qclosed, owed>>
      BY <2>3 DEF StartCall, LoopTurn, Dial, Ping, Register, TopTurn, LinkTurn, Leave,
                  queueVars, auxVars
    <3>2. wpc' \notin Publishing => wpc \notin Publishing \/ ~draining
      BY <2>3 DEF Publishing, StartCall, LoopTurn, Dial, Ping, Register, TopTurn, LinkTurn,
                  Leave, AfterLink
    <3>3. QED
      BY <1>3, <3>1, <3>2 DEF IInv, OwedSettled
  <2>4. QED
    BY <2>1, <2>2, <2>3
<1>8. QED
  BY <1>1, <1>2, <1>3, <1>4, <1>5, <1>6, <1>7 DEF IInv

(* The invariant holds in every reachable state.                             *)
THEOREM Invariance == Spec => []IInv
<1>1. Init => IInv
  BY InitInv
<1>2. IInv /\ [Next]_vars => IInv'
  BY PublishEnqueueStep, TakeStep, PublishStep, PublishFailedStep, ControlStep
     DEF Next, Running, Work, Terminating
<1>3. QED
  BY <1>1, <1>2, PTL DEF Spec

(* The queue, the batch and what Redis has hold accepted messages only,      *)
(* within their bounds, and a draining publisher counts its retries within   *)
(* theirs (pub.go:34-69, 270-276).                                           *)
THEOREM TypeCorrect == Spec => []TypeOK
<1>1. IInv => TypeOK
  BY DEF IInv
<1>2. QED
  BY <1>1, Invariance, PTL

(* When Close has waited for the publishing loop, what it owed was sent,     *)
(* unless a batch was dropped after its retries (pub.go:96-101, 206-220).    *)
THEOREM DrainKeepsEarlierHolds == Spec => []DrainKeepsEarlier
<1>1. ASSUME IInv PROVE DrainKeepsEarlier
  <2>1. SUFFICES ASSUME closepc \notin {"idle", "disconnect", "wait"}, ~dropped,
                        NEW k \in 1 .. owed
                 PROVE  k \in Elements(sent)
    BY DEF DrainKeepsEarlier
  <2>2. owed <= Settled /\ owed \in Nat /\ Settled \in Nat
    BY <1>1, <2>1, Lengths DEF IInv, OwedSettled
  <2>3. k \in 1 .. Settled
    BY <2>2
  <2>4. QED
    BY <1>1, <2>1, <2>3 DEF IInv, SettledSent
<1>2. QED
  BY <1>1, Invariance, PTL

(* The publisher keeps the promise of Outbox with a batch as the window: a   *)
(* retried batch repeats and reorders messages only within itself, and none  *)
(* is dropped before Close (pub.go:241-280).                                 *)
THEOREM KeepsPromiseHolds == Spec => KeepsPromise
<1>1. Init => Promise!Init
  <2> SUFFICES ASSUME Init PROVE Promise!Init
    OBVIOUS
  <2>1. Settled = 0
    <3>1. IInv /\ accepted = 0
      BY InitInv DEF Init
    <3>2. QED
      BY <3>1, Lengths
  <2>2. QED
    BY <2>1 DEF Init, Promise!Init, Settled
<1>2. ASSUME IInv, [Next]_vars
      PROVE  [Promise!Next]_(Promise!outVars)
  <2>1. /\ accepted \in Nat /\ Settled \in Nat /\ Len(batch) \in Nat
        /\ Len(batch) <= QueueSize /\ QueueSize \in Nat
        /\ Settled + Len(batch) <= accepted
    <3>1. Len(queue) \in Nat /\ Settled + Len(batch) + Len(queue) = accepted
      BY <1>2, Lengths
    <3>2. QED
      BY <1>2, <3>1, Lengths
  <2>2. Settled + Len(batch) \in {Settled} \cup Promise!Current
    <3>1. CASE Len(batch) = 0
      BY <2>1, <3>1
    <3>2. CASE Len(batch) > 0
      <4>1. Settled + Len(batch) \in Settled + 1 .. accepted
            /\ Settled + Len(batch) <= Settled + QueueSize
        BY <2>1, <3>2
      <4>2. QED
        BY <4>1 DEF Promise!Current, Settled
    <3>3. QED
      BY <2>1, <3>1, <3>2
  <2>3. CASE PublishEnqueue
    <3>1. \/ accepted' = accepted + 1 /\ UNCHANGED <<Settled, sent, draining>>
          \/ UNCHANGED <<accepted, Settled, sent, draining>>
      BY <1>2, <2>3, PublishEnqueueStep
    <3>2. Promise!Accept \/ UNCHANGED <<accepted, Settled, sent, draining>>
      BY <2>1, <3>1 DEF Promise!Accept, Settled
    <3>3. QED
      BY <3>2 DEF Promise!Next, Promise!outVars, Settled
  <2>4. CASE Take \/ Drain
    <3>1. UNCHANGED <<accepted, Settled, sent, draining>>
      BY <1>2, <2>4, TakeStep
    <3>2. QED
      BY <3>1 DEF Promise!outVars, Settled
  <2>5. CASE Publish
    <3>1. UNCHANGED <<accepted, draining>>
      BY <1>2, <2>5, PublishStep
    <3>2. CASE sent' = sent \o batch /\ Settled' = Settled + Len(batch)
      <4>1. Settled + 1 .. Settled' \subseteq Promise!Range(batch)
        <5>1. ASSUME NEW k \in Settled + 1 .. Settled'
              PROVE  \E i \in DOMAIN batch : batch[i] = k
          <6>1. k - Settled \in 1 .. Len(batch) /\ Settled + (k - Settled) = k
            BY <2>1, <3>2
          <6>2. batch[k - Settled] = k
            BY <1>2, <6>1, BatchCurrent
          <6>3. DOMAIN batch = 1 .. Len(batch)
            BY <1>2, Lengths
          <6>4. QED
            BY <6>1, <6>2, <6>3
        <5>2. QED
          BY <5>1 DEF Promise!Range
      <4>2. Promise!Attempt(batch, Settled')
        BY <3>1, <3>2, <4>1 DEF Promise!Attempt, Settled
      <4>3. Settled' \in {Settled} \cup Promise!Current
        BY <2>2, <3>2
      <4>4. batch \in Promise!Batches
        BY <1>2, BatchCurrent
      <4>5. QED
        BY <4>2, <4>3, <4>4 DEF Promise!Next, Settled
    <3>3. CASE Settled' = Settled /\ \E q \in Promise!Batches : sent' = sent \o q
      <4>1. PICK q \in Promise!Batches : sent' = sent \o q
        BY <3>3
      <4>2. Settled + 1 .. Settled = {}
        BY <2>1
      <4>3. Promise!Attempt(q, Settled)
        BY <3>1, <3>3, <4>1, <4>2 DEF Promise!Attempt, Settled
      <4>4. QED
        BY <4>3 DEF Promise!Next, Settled
    <3>4. QED
      BY <1>2, <2>5, <3>2, <3>3, PublishStep
  <2>6. CASE PublishFailed
    <3>1. UNCHANGED <<accepted, draining, sent>>
      BY <1>2, <2>6, PublishFailedStep
    <3>2. CASE Settled' = Settled
      BY <3>1, <3>2 DEF Promise!outVars, Settled
    <3>3. CASE draining /\ Settled' = Settled + Len(batch) /\ Settled' # Settled
      <4>1. Settled' \in Promise!Current
        BY <2>2, <3>3
      <4>2. Promise!Discard(Settled')
        BY <3>1, <3>3 DEF Promise!Discard, Settled
      <4>3. QED
        BY <4>1, <4>2 DEF Promise!Next
    <3>4. QED
      BY <1>2, <2>6, <3>2, <3>3, PublishFailedStep
  <2>7. CASE \/ PublishCheck \/ CloseCall \/ Closer \/ StartCall \/ LoopTurn \/ Dial
             \/ Ping \/ Register \/ TopTurn \/ LinkTurn \/ Leave \/ UNCHANGED vars
    <3>1. UNCHANGED <<accepted, Settled, sent>> /\ (draining' = draining \/ draining' = TRUE)
      BY <1>2, <2>7, ControlStep
    <3>2. QED
      BY <3>1 DEF Promise!Next, Promise!Close, Promise!outVars, Settled
  <2>8. QED
    BY <1>2, <2>3, <2>4, <2>5, <2>6, <2>7 DEF Next, Running, Work, Terminating
<1>3. QED
  BY <1>1, <1>2, Invariance, PTL DEF Spec, KeepsPromise, Promise!Spec

-----------------------------------------------------------------------------
(* RedisSub                                                                  *)

(* startSubscription is registered from its wg.Add to its wg.Done.           *)
InSubscription == wpc \in {"subscribe", "receive", "callback", "error", "leave"} => registered

(* Close cancels the context before it looks at the WaitGroup.               *)
CancelledFirst == closepc \in {"wait", "returned"} => cancelled

SubIInv == SubTypeOK /\ InSubscription /\ CancelledFirst /\ QuietAfterClose

(* At the start there is no subscription, and nobody has called Close        *)
(* (NewRedisSub, sub.go:32-57).                                              *)
LEMMA SubInitInv == SubInit => SubIInv
<1> SUFFICES ASSUME SubInit PROVE SubIInv
  OBVIOUS
<1>1. SubTypeOK
  <2>1. faults \in 0 .. MaxFaults
    BY RedisSubAssumption DEF SubInit, RedisSubAssumption
  <2>2. QED
    BY <2>1 DEF SubInit, SubTypeOK
<1>2. InSubscription /\ CancelledFirst /\ QuietAfterClose
  BY DEF SubInit, InSubscription, CancelledFirst, QuietAfterClose
<1>3. QED
  BY <1>1, <1>2 DEF SubIInv

(* Steps of the goroutine: the WaitGroup goes with the subscription, and no  *)
(* callback starts under a cancelled context (sub.go:97-211).                *)
LEMMA WorkStep ==
  ASSUME SubIInv, Subscribe \/ SubWork \/ Message
  PROVE  SubIInv'
<1> USE DEF SubIInv, SubTypeOK, InSubscription, CancelledFirst, QuietAfterClose,
            flagVars, redisVars, SubReachable
<1>1. CASE Subscribe
  BY <1>1 DEF Subscribe
<1>2. CASE SubLoopTurn
  BY <1>2 DEF SubLoopTurn
<1>3. CASE SubDial
  BY <1>3 DEF SubDial
<1>4. CASE SubPing
  BY <1>4 DEF SubPing
<1>5. CASE SubRegister
  BY <1>5 DEF SubRegister
<1>6. CASE Receive
  BY <1>6 DEF Receive
<1>7. CASE CallbackReturn
  BY <1>7 DEF CallbackReturn
<1>8. CASE ReceiveEnds
  BY <1>8 DEF ReceiveEnds
<1>9. CASE OnError
  BY <1>9 DEF OnError
<1>10. CASE SubLeave
  BY <1>10 DEF SubLeave
<1>11. CASE Message
  <2>1. closepc # "returned"
    BY <1>11 DEF Message
  <2>2. QED
    BY <1>11, <2>1 DEF Message
<1>12. QED
  BY <1>1, <1>2, <1>3, <1>4, <1>5, <1>6, <1>7, <1>8, <1>9, <1>10, <1>11 DEF SubWork

(* Steps of Close: its wait ends outside a subscription (sub.go:79-90).      *)
LEMMA CloseStep ==
  ASSUME SubIInv, SubCloseCall \/ SubCloser
  PROVE  SubIInv'
<1> USE DEF SubIInv, SubTypeOK, InSubscription, CancelledFirst, QuietAfterClose,
            flagVars, redisVars
<1>1. CASE SubCloseCall
  BY <1>1 DEF SubCloseCall
<1>2. CASE SubCloseDisconnect
  BY <1>2 DEF SubCloseDisconnect
<1>3. CASE SubCloseTest
  BY <1>3 DEF SubCloseTest
<1>4. CASE SubCloseStop
  BY <1>4 DEF SubCloseStop
<1>5. CASE SubCloseCancel
  BY <1>5 DEF SubCloseCancel
<1>6. CASE SubCloseWait
  <2>1. wpc # "callback"
    BY <1>6 DEF SubCloseWait
  <2>2. QED
    BY <1>6, <2>1 DEF SubCloseWait
<1>7. QED
  BY <1>1, <1>2, <1>3, <1>4, <1>5, <1>6 DEF SubCloser

(* The comings and goings of Redis disturb none of it.                       *)
LEMMA RedisStep ==
  ASSUME SubIInv, RedisDown \/ RedisUp
  PROVE  SubIInv'
<1> USE DEF SubIInv, SubTypeOK, InSubscription, CancelledFirst, QuietAfterClose, flagVars
<1>1. CASE RedisDown
  <2>1. faults' \in 0 .. MaxFaults
    BY <1>1, RedisSubAssumption DEF RedisDown, RedisSubAssumption
  <2>2. QED
    BY <1>1, <2>1 DEF RedisDown
<1>2. CASE RedisUp
  BY <1>2 DEF RedisUp
<1>3. QED
  BY <1>1, <1>2

(* The invariant holds in every reachable state.                             *)
THEOREM SubInvariance == SubSpec => []SubIInv
<1>1. SubInit => SubIInv
  BY SubInitInv
<1>2. SubIInv /\ [SubNext]_subVars => SubIInv'
  <2> SUFFICES ASSUME SubIInv, [SubNext]_subVars PROVE SubIInv'
    OBVIOUS
  <2>1. CASE Subscribe \/ SubWork \/ Message
    BY <2>1, WorkStep
  <2>2. CASE SubCloseCall \/ SubCloser
    BY <2>2, CloseStep
  <2>3. CASE RedisDown \/ RedisUp
    BY <2>3, RedisStep
  <2>4. CASE UNCHANGED subVars
    BY <2>4 DEF subVars, flagVars, redisVars, SubIInv, SubTypeOK, InSubscription,
         CancelledFirst, QuietAfterClose
  <2>5. QED
    BY <2>1, <2>2, <2>3, <2>4 DEF SubNext, SubRunning, SubTerminating
<1>3. QED
  BY <1>1, <1>2, PTL DEF SubSpec

(* The flags, the handler and the three pieces of control state keep their   *)
(* types (the fields of RedisSub, sub.go:18-30).                             *)
THEOREM SubTypeCorrect == SubSpec => []SubTypeOK
<1>1. SubIInv => SubTypeOK
  BY DEF SubIInv
<1>2. QED
  BY <1>1, SubInvariance, PTL

(* Once Close has returned no message reaches the application any more: a    *)
(* subscription that Close's wait did not see finds its context cancelled    *)
(* (sub.go:82-87, 134-147, 177).                                             *)
THEOREM QuietAfterCloseHolds == SubSpec => []QuietAfterClose
<1>1. SubIInv => QuietAfterClose
  BY DEF SubIInv
<1>2. QED
  BY <1>1, SubInvariance, PTL
=============================================================================
