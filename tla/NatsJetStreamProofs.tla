------------------------ MODULE NatsJetStreamProofs ------------------------
(* NatsJetStream, hence NatsClient, for every size of the queue and number   *)
(* of messages, connections, losses and restarts: its types, NothingSkipped, *)
(* and that a client keeps the promise of Outbox.                            *)
EXTENDS NatsJetStream, LockedRingBufferProofs

\* Messages that left the batch.
Settled == accepted - Len(queue) - Len(batch)

(* Batch and queue together are the accepted messages that are not settled   *)
(* yet, in the order of Publish.                                             *)
InOrder ==
  /\ Settled \in 0 .. accepted
  /\ Numbered(batch, Settled)
  /\ Numbered(queue, Settled + Len(batch))

(* The drain pipe is started by the Start that returns, hence once, and has  *)
(* a batch while it works on one.                                            *)
Positions ==
  /\ startpc = "returned" <=> wpc # "off"
  /\ wpc \in {"off", "take"} => batch = << >>
  /\ wpc \in {"check", "publish", "failed"} => batch # << >>

(* A client that consumes publishes nothing, and only such a client makes    *)
(* the durable consumer.                                                     *)
Roles ==
  /\ role = "consumer" => accepted = 0 /\ sent = << >> /\ pubpc = "idle"
  /\ consumer # 0 => role = "consumer"

(* The durable consumer stays where it was made, and only messages that the  *)
(* application has handled are acknowledged to it.                           *)
Durable ==
  /\ first = consumer
  /\ acked \subseteq handled
  /\ hpc # "idle" => pending # << >>
  /\ hpc = "ack" => Head(pending) \in handled

PublisherInv == ClientTypeOK /\ InOrder /\ Positions
ServerTypeOK ==
  /\ consumer \in 0 .. StreamEnd + 1 /\ first \in 0 .. StreamEnd + 1
  /\ acked \subseteq Offset /\ handled \subseteq Offset
  /\ subscribed \in BOOLEAN /\ restarts \in 0 .. MaxRestarts
  /\ pending \in Seq(Offset) /\ Len(pending) <= Prefetch
  /\ hpc \in {"idle", "handle", "ack"}
ConsumerInv == ServerTypeOK /\ Durable
IInv == PublisherInv /\ ConsumerInv /\ Roles

LEMMA ConstantTypes ==
  /\ QueueSize \in Nat \ {0} /\ MaxMessages \in Nat /\ MaxConns \in Nat /\ MaxLosses \in Nat
  /\ StreamEnd \in Nat /\ Prefetch \in Nat \ {0} /\ MaxRestarts \in Nat /\ MaxSent \in Nat
BY NatsAssumption, JetStreamAssumption DEF NatsAssumption, JetStreamAssumption

LEMMA InvImpliesTypes == IInv => TypeOK
BY DEF IInv, PublisherInv, ConsumerInv, ServerTypeOK, TypeOK

(* A client without messages and connections satisfies what is said of the   *)
(* publisher, when it is new and when the program starts again.              *)
Fresh == role \in {"core", "js", "consumer"} /\ ClientInit
NoMessages == accepted = 0 /\ Settled = 0

LEMMA FreshPublisher == Fresh => PublisherInv /\ NoMessages
<1> SUFFICES ASSUME Fresh PROVE PublisherInv /\ NoMessages
  OBVIOUS
<1> USE DEF Fresh
<1>1. /\ queue = << >> /\ batch = << >> /\ sent = << >> /\ accepted = 0
      /\ conns = 0 /\ conn = 0 /\ losses = 0
      /\ link = [c \in Conns |-> "none"] /\ events = [c \in Conns |-> << >>]
      /\ MaxMessages \in Nat /\ QueueSize \in Nat /\ MaxConns \in Nat /\ MaxLosses \in Nat
  BY ConstantTypes DEF ClientInit
<1>2. Len(<< >>) = 0 /\ << >> \in Seq(1 .. 0) /\ << >> \in Seq({"connect", "disconnect"})
  OBVIOUS
<1>3. /\ accepted \in 0 .. MaxMessages
      /\ queue \in Seq(1 .. accepted) /\ Len(queue) <= QueueSize
      /\ batch \in Seq(1 .. accepted) /\ Len(batch) <= QueueSize
      /\ sent \in Seq(1 .. accepted)
      /\ conns \in 0 .. MaxConns /\ conn \in 0 .. conns /\ losses \in 0 .. MaxLosses
  BY <1>1, <1>2
<1>4. /\ link \in [Conns -> {"none", "up", "down", "closed"}]
      /\ events \in [Conns -> Seq({"connect", "disconnect"})]
  BY <1>1, <1>2
<1>5. ClientTypeOK
  BY <1>3, <1>4 DEF ClientInit, ClientTypeOK
<1>6. Settled = 0
  <2>1. Len(queue) = 0 /\ Len(batch) = 0
    BY <1>1, <1>2
  <2>2. accepted = 0
    BY <1>1
  <2>3. QED
    BY <2>1, <2>2 DEF Settled
<1>7. InOrder
  BY <1>1, <1>2, <1>6 DEF InOrder, Numbered
<1>8. Positions
  BY DEF ClientInit, Positions
<1>9. QED
  BY <1>1, <1>5, <1>6, <1>7, <1>8 DEF PublisherInv, NoMessages

(* There is no durable consumer before a client makes it                     *)
(* (nats_jetstream.go:45-73).                                                *)
LEMMA InitInv == Init => IInv
<1> SUFFICES ASSUME Init PROVE IInv
  OBVIOUS
<1>1. PublisherInv
  BY FreshPublisher DEF Init, Fresh
<1>2. Roles
  BY DEF Init, ClientInit, Roles
<1>3. ConsumerInv
  <2>1. << >> \in Seq(Offset) /\ Len(<< >>) = 0
    OBVIOUS
  <2>2. 0 \in 0 .. StreamEnd + 1 /\ 0 \in 0 .. MaxRestarts /\ 0 <= Prefetch
    BY ConstantTypes
  <2>3. QED
    BY <2>1, <2>2 DEF Init, ConsumerInv, ServerTypeOK, Durable
<1>4. QED
  BY <1>1, <1>2, <1>3 DEF IInv

(* What the arithmetic of the steps needs of the types.                      *)
LEMMA Lengths ==
  ASSUME PublisherInv
  PROVE  /\ accepted \in Nat /\ Len(queue) \in Nat /\ Len(batch) \in Nat
         /\ Settled \in Nat /\ Settled + Len(batch) + Len(queue) = accepted
         /\ Settled <= accepted
         /\ queue \in Seq(1 .. accepted) /\ Len(queue) <= QueueSize
         /\ batch \in Seq(1 .. accepted) /\ Len(batch) <= QueueSize
         /\ sent \in Seq(1 .. accepted)
<1>1. /\ accepted \in 0 .. MaxMessages /\ MaxMessages \in Nat
      /\ queue \in Seq(1 .. accepted) /\ batch \in Seq(1 .. accepted)
      /\ sent \in Seq(1 .. accepted) /\ Len(queue) <= QueueSize /\ Len(batch) <= QueueSize
  BY ConstantTypes DEF PublisherInv, ClientTypeOK
<1>2. Len(queue) \in Nat /\ Len(batch) \in Nat /\ Settled \in 0 .. accepted
  BY <1>1 DEF PublisherInv, InOrder
<1>3. QED
  BY <1>1, <1>2 DEF Settled

(* Publish appends the next number, or is refused (nats_core.go:154-159).    *)
LEMMA PublishEnqueueStep ==
  ASSUME PublisherInv, PublishEnqueue
  PROVE  /\ PublisherInv'
         /\ \/ accepted' = accepted + 1 /\ Settled' = Settled
            \/ UNCHANGED <<accepted, Settled>>
         /\ UNCHANGED <<role, sent, draining>> /\ pubpc = "enqueue" /\ pubpc' = "idle"
<1>1. /\ UNCHANGED <<lifeVars, startpc, linkVars, qclosed, pipeVars>>
      /\ pubpc = "enqueue" /\ pubpc' = "idle"
  BY DEF PublishEnqueue
<1>2. /\ accepted \in Nat /\ Len(queue) \in Nat /\ Len(batch) \in Nat /\ Settled \in Nat
      /\ Settled + Len(batch) + Len(queue) = accepted
      /\ QueueSize \in Nat /\ MaxMessages \in Nat
  BY Lengths, ConstantTypes
<1>3. CASE UNCHANGED <<queue, accepted>>
  <2>1. Settled' = Settled
    BY <1>1, <1>3 DEF Settled, pipeVars
  <2>2. QED
    BY <1>1, <1>3, <2>1 DEF PublisherInv, ClientTypeOK, InOrder, Positions, lifeVars,
                            linkVars, pipeVars
<1>4. CASE Accepts(queue, qclosed, QueueSize) /\ accepted < MaxMessages
           /\ accepted' = accepted + 1 /\ queue' = Append(queue, accepted + 1)
  <2> DEFINE m == accepted + 1
  <2>1. 1 .. accepted \subseteq 1 .. m /\ m \in 1 .. m /\ Len(queue) < QueueSize
    BY <1>2, <1>4 DEF Accepts
  <2>2. /\ queue \in Seq(1 .. m) /\ batch \in Seq(1 .. m) /\ sent \in Seq(1 .. m)
    <3>1. /\ queue \in Seq(1 .. accepted) /\ batch \in Seq(1 .. accepted)
          /\ sent \in Seq(1 .. accepted)
      BY Lengths
    <3> HIDE DEF m
    <3>2. QED
      BY <2>1, <3>1, WiderSeq
  <2>3. /\ queue' \in Seq(1 .. m) /\ Len(queue') = Len(queue) + 1
        /\ Numbered(queue', Settled + Len(batch))
    <3>1. Numbered(queue, Settled + Len(batch)) /\ Settled + Len(batch) \in Nat
      BY <1>2 DEF PublisherInv, InOrder
    <3>2. m = Settled + Len(batch) + Len(queue) + 1 /\ queue' = Append(queue, m)
      BY <1>2, <1>4
    <3> HIDE DEF m
    <3>3. QED
      BY <2>1, <2>2, <3>1, <3>2, NumberedAppend
  <2>4. Settled' = Settled
    BY <1>1, <1>2, <1>4, <2>3 DEF Settled, pipeVars
  <2>5. ClientTypeOK'
    <3>1. accepted' \in 0 .. MaxMessages /\ Len(queue') <= QueueSize
      BY <1>2, <1>4, <2>1, <2>3
    <3>2. queue' \in Seq(1 .. accepted') /\ batch' \in Seq(1 .. accepted')
          /\ sent' \in Seq(1 .. accepted')
      BY <1>1, <1>4, <2>2, <2>3 DEF pipeVars
    <3> HIDE DEF m
    <3>3. QED
      BY <1>1, <3>1, <3>2 DEF PublisherInv, ClientTypeOK, lifeVars, linkVars, pipeVars
  <2>6. InOrder'
    <3>1. Settled' \in 0 .. accepted'
      BY <1>2, <1>4, <2>4
    <3>2. QED
      BY <1>1, <2>3, <2>4, <3>1 DEF PublisherInv, InOrder, pipeVars
  <2>7. Positions'
    BY <1>1 DEF PublisherInv, Positions, pipeVars
  <2>8. QED
    BY <1>1, <1>4, <2>4, <2>5, <2>6, <2>7 DEF PublisherInv, lifeVars, pipeVars
<1>5. QED
  BY <1>1, <1>3, <1>4 DEF PublishEnqueue, lifeVars, pipeVars

(* DequeueTo moves messages from the queue to the empty buffer, or lets the  *)
(* pipe leave a queue that is closed and empty (nats_core.go:239-252).       *)
LEMMA PipeTakeStep ==
  ASSUME PublisherInv, PipeTake
  PROVE  PublisherInv' /\ UNCHANGED <<accepted, Settled, sent, draining, role, pubpc>>
<1>1. /\ wpc = "take" /\ batch = << >> /\ startpc = "returned"
      /\ UNCHANGED <<lifeVars, startpc, linkVars, qclosed, accepted, pubpc, sent>>
  BY DEF PipeTake, PublisherInv, Positions
<1>2. CASE wpc' = "exited" /\ UNCHANGED <<queue, batch>>
  <2>1. Settled' = Settled
    BY <1>1, <1>2 DEF Settled
  <2>2. QED
    BY <1>1, <1>2, <2>1 DEF PublisherInv, ClientTypeOK, InOrder, Positions, lifeVars, linkVars
<1>3. CASE /\ queue # << >> /\ wpc' = "check"
           /\ batch' = Taken(queue, QueueSize) /\ queue' = Left(queue, QueueSize)
  <2> DEFINE a == Taken(queue, QueueSize)
             b == Left(queue, QueueSize)
  <2>1. /\ accepted \in Nat /\ Len(queue) \in Nat /\ Settled \in Nat
        /\ Settled + Len(batch) + Len(queue) = accepted
        /\ QueueSize \in Nat /\ QueueSize # 0 /\ Len(batch) = 0
    <3>1. Len(batch) = 0
      BY <1>1
    <3>2. QED
      BY <3>1, Lengths, ConstantTypes
  <2>2. queue \in Seq(1 .. accepted) /\ Len(queue) <= QueueSize /\ Numbered(queue, Settled)
    BY <2>1 DEF PublisherInv, ClientTypeOK, InOrder
  <2>3. /\ a \in Seq(1 .. accepted) /\ b \in Seq(1 .. accepted)
        /\ Len(a) <= QueueSize /\ Len(b) <= Len(queue)
    BY <2>1, <2>2, TakenAndLeft
  <2>4. /\ Len(a) \in Nat /\ Len(b) \in Nat /\ Len(a) + Len(b) = Len(queue)
        /\ a # << >> /\ batch' = a /\ queue' = b
    BY <1>3, <2>1, <2>2, TakenThenLeft
  <2>5. Numbered(a, Settled) /\ Numbered(b, Settled + Len(a))
    BY <2>1, <2>2, NumberedTaken
  <2> HIDE DEF a, b
  <2>6. Settled' = Settled
    BY <1>1, <2>1, <2>4 DEF Settled
  <2>7. ClientTypeOK'
    <3>1. Len(b) <= QueueSize
      BY <2>1, <2>2, <2>3, <2>4
    <3>2. QED
      BY <1>1, <1>3, <2>3, <2>4, <3>1 DEF PublisherInv, ClientTypeOK, lifeVars, linkVars
  <2>8. InOrder'
    BY <1>1, <2>4, <2>5, <2>6 DEF PublisherInv, InOrder
  <2>9. Positions'
    BY <1>1, <1>3, <2>4 DEF Positions
  <2>10. QED
    BY <1>1, <2>6, <2>7, <2>8, <2>9 DEF PublisherInv, lifeVars
<1>4. QED
  BY <1>2, <1>3 DEF PipeTake

(* A message that nats.go takes is the next one, and settled with the answer *)
(* to it; a lost answer settles nothing (nats_core.go:261-271,               *)
(* nats_jetstream.go:278-288, 460-481).                                      *)
LEMMA PublishStep ==
  ASSUME PublisherInv, CorePublish \/ PublishData
  PROVE  /\ PublisherInv' /\ role # "consumer"
         /\ UNCHANGED <<accepted, draining, role, pubpc>>
         /\ \/ UNCHANGED <<Settled, sent>>
            \/ /\ Settled + 1 \in 1 .. accepted
               /\ sent' = Append(sent, Settled + 1)
               /\ Settled' \in {Settled, Settled + 1}
<1>1. /\ wpc = "publish" /\ batch # << >> /\ startpc = "returned" /\ role # "consumer"
      /\ UNCHANGED <<lifeVars, startpc, linkVars, queueVars>>
  BY DEF CorePublish, PublishData, PublisherInv, Positions
<1>2. /\ accepted \in Nat /\ Len(queue) \in Nat /\ Len(batch) \in Nat /\ Settled \in Nat
      /\ Settled + Len(batch) + Len(queue) = accepted
      /\ batch \in Seq(1 .. accepted) /\ Len(batch) <= QueueSize
      /\ sent \in Seq(1 .. accepted) /\ QueueSize \in Nat
  BY Lengths, ConstantTypes
<1>3. /\ Head(batch) = Settled + 1 /\ Head(batch) \in 1 .. accepted
      /\ Tail(batch) \in Seq(1 .. accepted) /\ Len(Tail(batch)) = Len(batch) - 1
      /\ Len(batch) >= 1 /\ Numbered(Tail(batch), Settled + 1)
      /\ Tail(batch) = << >> <=> Len(batch) = 1
  <2> DEFINE S == 1 .. accepted
  <2>1. Numbered(batch, Settled) /\ Settled \in Nat
    BY <1>2 DEF PublisherInv, InOrder
  <2>2. batch \in Seq(S) /\ batch # << >>
    BY <1>1, <1>2
  <2> HIDE DEF S
  <2>3. /\ Head(batch) = Settled + 1 /\ Head(batch) \in S
        /\ Tail(batch) \in Seq(S) /\ Len(Tail(batch)) = Len(batch) - 1
        /\ Len(batch) >= 1 /\ Numbered(Tail(batch), Settled + 1)
        /\ Tail(batch) = << >> <=> Len(batch) = 1
    BY <2>1, <2>2, NumberedTail
  <2>4. QED
    BY <2>3 DEF S
<1>4. Head(batch) = Settled + 1 /\ Settled + 1 \in 1 .. accepted
  BY <1>3
<1>5. Append(sent, Settled + 1) \in Seq(1 .. accepted)
  <2> DEFINE k == Settled + 1
             S == 1 .. accepted
  <2>1. k \in S /\ sent \in Seq(S)
    BY <1>2, <1>4
  <2> HIDE DEF k, S
  <2>2. Append(sent, k) \in Seq(S)
    BY <2>1, AppendProperties
  <2>3. QED
    BY <2>2 DEF k, S
<1>6. CASE PipeSent
  <2>1. /\ sent' = Append(sent, Settled + 1) /\ batch' = Tail(batch)
        /\ wpc' = IF Len(batch) = 1 THEN "take" ELSE "check"
    BY <1>4, <1>6 DEF PipeSent
  <2>2. Len(batch') = Len(batch) - 1
    BY <1>3, <2>1
  <2>3. Settled' = Settled + 1
    BY <1>1, <1>2, <2>2 DEF Settled, queueVars
  <2>4. ClientTypeOK'
    <3>1. /\ batch' \in Seq(1 .. accepted') /\ sent' \in Seq(1 .. accepted')
          /\ Len(batch') <= QueueSize
      BY <1>1, <1>2, <1>3, <1>5, <2>1, <2>2 DEF queueVars
    <3>2. QED
      BY <1>1, <2>1, <3>1 DEF PublisherInv, ClientTypeOK, lifeVars, linkVars, queueVars
  <2>5. InOrder'
    <3>1. Settled + 1 + Len(Tail(batch)) = Settled + Len(batch)
      BY <1>2, <1>3
    <3>2. Settled' \in 0 .. accepted'
      BY <1>1, <1>2, <1>4, <2>3 DEF queueVars
    <3>3. QED
      BY <1>1, <1>3, <2>1, <2>3, <3>1, <3>2 DEF PublisherInv, InOrder, queueVars
  <2>6. Positions'
    BY <1>1, <1>3, <2>1 DEF Positions
  <2>7. QED
    BY <1>1, <1>4, <2>1, <2>3, <2>4, <2>5, <2>6 DEF PublisherInv, lifeVars, queueVars
<1>7. CASE wpc' \in {"exited", "failed"} /\ UNCHANGED batch
           /\ (sent' = sent \/ sent' = Append(sent, Head(batch)))
  <2>1. Settled' = Settled
    BY <1>1, <1>7 DEF Settled, queueVars
  <2>2. ClientTypeOK'
    <3>1. sent' \in Seq(1 .. accepted')
      BY <1>1, <1>2, <1>4, <1>5, <1>7 DEF queueVars
    <3>2. QED
      BY <1>1, <1>7, <3>1 DEF PublisherInv, ClientTypeOK, lifeVars, linkVars, queueVars
  <2>3. InOrder' /\ Positions'
    BY <1>1, <1>7, <2>1 DEF PublisherInv, InOrder, Positions, queueVars
  <2>4. QED
    BY <1>1, <1>4, <1>7, <2>1, <2>2, <2>3 DEF PublisherInv, lifeVars, queueVars
<1>8. QED
  BY <1>6, <1>7 DEF CorePublish, PublishData, PipeError


(* nats.go adds an event to those of one connection, or tells a callback of  *)
(* the oldest.                                                               *)
LEMMA EventsTyped ==
  ASSUME NEW E, NEW f \in [Conns -> Seq(E)], NEW c
  PROVE  /\ \A e \in E : [f EXCEPT ![c] = Append(@, e)] \in [Conns -> Seq(E)]
         /\ c \in Conns /\ f[c] # << >>
              => Head(f[c]) \in E /\ [f EXCEPT ![c] = Tail(@)] \in [Conns -> Seq(E)]
<1>1. ASSUME NEW e \in E
      PROVE  [f EXCEPT ![c] = Append(@, e)] \in [Conns -> Seq(E)]
  <2>1. \A d \in Conns : Append(f[d], e) \in Seq(E)
    BY AppendProperties
  <2>2. QED
    BY <2>1
<1>2. ASSUME c \in Conns, f[c] # << >>
      PROVE  Head(f[c]) \in E /\ [f EXCEPT ![c] = Tail(@)] \in [Conns -> Seq(E)]
  <2>1. f[c] \in Seq(E)
    BY <1>2
  <2>2. Head(f[c]) \in E /\ Tail(f[c]) \in Seq(E)
    BY <1>2, <2>1, HeadTailProperties
  <2>3. QED
    BY <2>2
<1>3. QED
  BY <1>1, <1>2

(* The connections, whatever is done to them (nats_core.go:135-139,          *)
(* 163-236).                                                                 *)
LEMMA LinkStep ==
  ASSUME ClientTypeOK,
         \/ CoreConnect \/ JsConnect \/ StartStore \/ CloseConn \/ SyncFails
         \/ \E c \in Conns : LinkLost(c) \/ LinkEnds(c) \/ Callback(c)
         \/ UNCHANGED linkVars
  PROVE  /\ connected' \in BOOLEAN
         /\ conns' \in 0 .. MaxConns /\ conn' \in 0 .. conns' /\ losses' \in 0 .. MaxLosses
         /\ link' \in [Conns -> {"none", "up", "down", "closed"}]
         /\ events' \in [Conns -> Seq({"connect", "disconnect"})]
<1> DEFINE E == {"connect", "disconnect"}
           L == {"none", "up", "down", "closed"}
<1>1. /\ connected \in BOOLEAN /\ link \in [Conns -> L] /\ events \in [Conns -> Seq(E)]
      /\ conns \in 0 .. MaxConns /\ conn \in 0 .. conns /\ losses \in 0 .. MaxLosses
      /\ MaxConns \in Nat /\ MaxLosses \in Nat
  BY ConstantTypes DEF ClientTypeOK
<1>2. ASSUME NEW c, NEW e \in E, Reports(c, e)
      PROVE  events' \in [Conns -> Seq(E)]
  <2> HIDE DEF E
  <2>1. [events EXCEPT ![c] = Append(@, e)] \in [Conns -> Seq(E)]
    BY <1>1, EventsTyped
  <2>2. QED
    BY <1>1, <1>2, <2>1 DEF Reports
<1>3. \A c : \A l \in L : [link EXCEPT ![c] = l] \in [Conns -> L]
  BY <1>1
<1>4. CASE CoreConnect \/ JsConnect
  <2>1. /\ conns < MaxConns /\ conns' = conns + 1 /\ conn' = conns + 1
        /\ link' = [link EXCEPT ![conns + 1] = "up"]
        /\ UNCHANGED <<connected, losses>>
        /\ Reports(conns + 1, "connect")
    BY <1>4 DEF CoreConnect, JsConnect, Connects
  <2>2. events' \in [Conns -> Seq(E)] /\ link' \in [Conns -> L]
    BY <1>2, <1>3, <2>1
  <2>3. QED
    BY <1>1, <2>1, <2>2
<1>5. CASE StartStore \/ UNCHANGED linkVars
  BY <1>1, <1>5 DEF StartStore, linkVars
<1>6. ASSUME NEW c, Closing(c)
      PROVE  events' \in [Conns -> Seq(E)] /\ link' \in [Conns -> L]
  BY <1>1, <1>2, <1>3, <1>6 DEF Closing
<1>7. CASE CloseConn \/ SyncFails
  <2>1. UNCHANGED <<connected, conn, conns, losses>>
    BY <1>7 DEF CloseConn, SyncFails
  <2>2. UNCHANGED <<link, events>> \/ Closing(conn)
    BY <1>7 DEF CloseConn, SyncFails
  <2>3. events' \in [Conns -> Seq(E)] /\ link' \in [Conns -> L]
    BY <1>1, <1>6, <2>2
  <2>4. QED
    BY <1>1, <2>1, <2>3
<1>8. ASSUME NEW c \in Conns, LinkLost(c)
      PROVE  /\ events' \in [Conns -> Seq(E)] /\ link' \in [Conns -> L]
             /\ losses' \in 0 .. MaxLosses /\ UNCHANGED <<connected, conn, conns>>
  BY <1>1, <1>2, <1>3, <1>8 DEF LinkLost
<1>9. ASSUME NEW c \in Conns, LinkEnds(c)
      PROVE  link' \in [Conns -> L] /\ UNCHANGED <<connected, conn, conns, losses, events>>
  BY <1>3, <1>9 DEF LinkEnds
<1>10. ASSUME NEW c \in Conns, Callback(c)
       PROVE  /\ connected' \in BOOLEAN /\ events' \in [Conns -> Seq(E)]
              /\ UNCHANGED <<conn, conns, link, losses>>
  <2>1. /\ events[c] # << >> /\ connected' = (Head(events[c]) = "connect")
        /\ events' = [events EXCEPT ![c] = Tail(@)]
        /\ UNCHANGED <<conn, conns, link, losses>>
    BY <1>10 DEF Callback
  <2> HIDE DEF E
  <2>2. events' \in [Conns -> Seq(E)]
    BY <1>1, <2>1, EventsTyped
  <2>3. QED
    BY <2>1, <2>2
<1>11. QED
  BY <1>1, <1>4, <1>5, <1>7, <1>8, <1>9, <1>10

(* The other steps of the publisher move no message: Start, Close, the       *)
(* connections, and the decisions of the pipe (nats_core.go:72-143,          *)
(* 154-157, 252-288, nats_jetstream.go:76-168).                              *)
Control ==
  \/ PublishCheck \/ CoreConnect \/ Starter \/ Closer \/ ParentCancel
  \/ \E c \in Conns : LinkLost(c) \/ LinkEnds(c) \/ Callback(c)
  \/ PipeCheck \/ PipeFailed
  \/ JsConnect \/ UpsertJetstream \/ SyncFails \/ CloseCall
  \/ UpsertConsumer \/ JsSubscribe \/ UNCHANGED clientVars

LEMMA ControlStep ==
  ASSUME PublisherInv, Control
  PROVE  /\ PublisherInv'
         /\ UNCHANGED <<role, accepted, Settled, sent>>
         /\ draining' = draining \/ draining' = TRUE
         /\ pubpc' = pubpc \/ role # "consumer"
<1> USE DEF Starter, Closer
<1>1. UNCHANGED <<role, accepted, queue, batch, sent>>
  BY DEF Control, PublishCheck, CoreConnect, JsConnect, Connects, StartCheck, StartStore,
         CoreSync, StartDrainPipe, CloseCall, CloseQueue, CloseConn, CloseCancel,
         ParentCancel, LinkLost, LinkEnds, Callback, PipeCheck, PipeFailed, UpsertJetstream,
         SyncFails, UpsertConsumer, JsSubscribe, clientVars, lifeVars, queueVars, pipeVars
<1>2. /\ draining' = draining \/ draining' = TRUE
      /\ pubpc' \in {"idle", "enqueue"}
      /\ pubpc' = pubpc \/ role # "consumer"
  BY DEF Control, PublishCheck, CoreConnect, JsConnect, Connects, StartCheck, StartStore,
         CoreSync, StartDrainPipe, CloseCall, CloseQueue, CloseConn, CloseCancel,
         ParentCancel, LinkLost, LinkEnds, Callback, PipeCheck, PipeFailed, UpsertJetstream,
         SyncFails, UpsertConsumer, JsSubscribe, PublisherInv, ClientTypeOK, clientVars,
         lifeVars, queueVars, pipeVars
<1>3. Settled' = Settled
  BY <1>1 DEF Settled
<1>4. InOrder'
  BY <1>1, <1>3 DEF PublisherInv, InOrder
<1>5. ClientTypeOK'
  <2>1. /\ {draining, cancelled, qclosed}' \subseteq BOOLEAN
        /\ startpc' \in {"idle", "upsert", "check", "store", "sync", "subscribe", "pipe",
                         "returned"}
        /\ closepc' \in {"idle", "queue", "conn", "cancel", "returned"}
        /\ wpc' \in {"off", "take", "check", "publish", "failed", "exited"}
    BY DEF PublisherInv, ClientTypeOK, Control, PublishCheck, CoreConnect, JsConnect,
           Connects, StartCheck, StartStore, CoreSync, StartDrainPipe, CloseCall, CloseQueue,
           CloseConn, CloseCancel, ParentCancel, LinkLost, LinkEnds, Callback, PipeCheck,
           PipeFailed, UpsertJetstream, SyncFails, UpsertConsumer, JsSubscribe, clientVars,
           lifeVars, queueVars, pipeVars
  <2>2. \/ CoreConnect \/ JsConnect \/ StartStore \/ CloseConn \/ SyncFails
        \/ \E c \in Conns : LinkLost(c) \/ LinkEnds(c) \/ Callback(c)
        \/ UNCHANGED linkVars
    BY DEF Control, PublishCheck, StartCheck, CoreSync, StartDrainPipe, CloseCall,
           CloseQueue, CloseCancel, ParentCancel, PipeCheck, PipeFailed, UpsertJetstream,
           UpsertConsumer, JsSubscribe, clientVars
  <2>3. /\ connected' \in BOOLEAN
        /\ conns' \in 0 .. MaxConns /\ conn' \in 0 .. conns' /\ losses' \in 0 .. MaxLosses
        /\ link' \in [Conns -> {"none", "up", "down", "closed"}]
        /\ events' \in [Conns -> Seq({"connect", "disconnect"})]
    BY <2>2, LinkStep DEF PublisherInv
  <2>4. QED
    BY <1>1, <1>2, <2>1, <2>3 DEF PublisherInv, ClientTypeOK
<1>6. Positions'
  <2>1. /\ startpc' = "returned" <=> wpc' # "off"
        /\ wpc' \in {"off", "take"} => wpc \in {"off", "take"}
        /\ wpc' \in {"check", "publish", "failed"} => wpc \in {"check", "publish", "failed"}
    BY DEF PublisherInv, Positions, Control, PublishCheck, CoreConnect, JsConnect, Connects,
           StartCheck, StartStore, CoreSync, StartDrainPipe, CloseCall, CloseQueue,
           CloseConn, CloseCancel, ParentCancel, LinkLost, LinkEnds, Callback, PipeCheck,
           PipeFailed, UpsertJetstream, SyncFails, UpsertConsumer, JsSubscribe, clientVars,
           pipeVars
  <2>2. QED
    BY <1>1, <2>1 DEF PublisherInv, Positions
<1>7. QED
  BY <1>1, <1>2, <1>3, <1>4, <1>5, <1>6 DEF PublisherInv


(* Start makes the durable consumer or takes the one there is, the server    *)
(* delivers, the application handles and acknowledges, Close ends the        *)
(* subscription and a restart forgets what the client knew                   *)
(* (nats_jetstream.go:76-121, 313-371, 417-458).                             *)
LEMMA ConsumerStep ==
  ASSUME ConsumerInv,
         \/ UpsertConsumer \/ JsSubscribe \/ JsCloseCall \/ Handler \/ Restart
         \/ \E o \in Offset : Deliver(o)
         \/ UNCHANGED jsVars
  PROVE  ConsumerInv' /\ (consumer' # consumer => role = "consumer")
<1>1. /\ StreamEnd \in Nat /\ MaxRestarts \in Nat /\ Prefetch \in Nat
      /\ pending \in Seq(Offset) /\ Len(pending) <= Prefetch /\ first = consumer
      /\ hpc # "idle" => pending # << >>
  BY ConstantTypes DEF ConsumerInv, ServerTypeOK, Durable
<1>2. pending # << >> => /\ Head(pending) \in Offset /\ Tail(pending) \in Seq(Offset)
                         /\ Len(Tail(pending)) = Len(pending) - 1 /\ Len(pending) \in Nat
  BY <1>1, HeadAndTail
<1>3. CASE UNCHANGED jsVars
  BY <1>3 DEF ConsumerInv, ServerTypeOK, Durable, jsVars, serverVars, deliverVars
<1>4. CASE UpsertConsumer
  <2>1. /\ role = "consumer" /\ UNCHANGED <<acked, deliverVars, restarts>>
        /\ consumer' \in IF consumer = 0 THEN Offset ELSE {consumer}
        /\ first' = IF first = 0 THEN consumer' ELSE first
    BY <1>4 DEF UpsertConsumer
  <2>2. first' = consumer'
    BY <1>1, <2>1
  <2>3. Offset \subseteq 0 .. StreamEnd + 1
    BY <1>1 DEF Offset
  <2>4. consumer' \in 0 .. StreamEnd + 1
    BY <2>1, <2>3 DEF ConsumerInv, ServerTypeOK
  <2>5. QED
    BY <2>1, <2>2, <2>4 DEF ConsumerInv, ServerTypeOK, Durable, deliverVars
<1>5. CASE JsSubscribe \/ JsCloseCall
  <2>1. subscribed' \in BOOLEAN /\ UNCHANGED <<serverVars, pending, hpc, handled, restarts>>
    BY <1>5 DEF JsSubscribe, JsCloseCall
  <2>2. QED
    BY <2>1 DEF ConsumerInv, ServerTypeOK, Durable, serverVars
<1>6. ASSUME NEW o \in Offset, Deliver(o)
      PROVE  ConsumerInv' /\ consumer' = consumer
  <2>1. /\ Len(pending) < Prefetch /\ pending' = Append(pending, o)
        /\ UNCHANGED <<serverVars, subscribed, hpc, handled, restarts>>
    BY <1>6 DEF Deliver
  <2>2. /\ pending' \in Seq(Offset) /\ Len(pending') = Len(pending) + 1
        /\ \A i \in 1 .. Len(pending) : pending'[i] = pending[i]
        /\ Len(pending) \in Nat
    BY <1>1, <2>1, AppendProperties
  <2>3. pending' # << >> /\ Len(pending') <= Prefetch
    BY <1>1, <2>1, <2>2
  <2>4. pending # << >> => Head(pending') = Head(pending)
    <3>1. pending # << >> => Head(pending) = pending[1] /\ 1 \in 1 .. Len(pending)
      BY <1>1, <2>2
    <3>2. Head(pending') = pending'[1]
      BY <2>2, <2>3
    <3>3. QED
      BY <2>2, <3>1, <3>2
  <2>5. QED
    BY <1>1, <2>1, <2>2, <2>3, <2>4 DEF ConsumerInv, ServerTypeOK, Durable, serverVars
<1>7. CASE HandlerCall
  BY <1>7 DEF HandlerCall, ConsumerInv, ServerTypeOK, Durable, serverVars
<1>8. CASE HandlerReturn
  BY <1>1, <1>2, <1>8 DEF HandlerReturn, ConsumerInv, ServerTypeOK, Durable, serverVars
<1>9. ASSUME NEW o \in Offset, Acked(o), o \in handled', handled \subseteq handled',
             handled' \subseteq Offset
      PROVE  acked' \subseteq Offset /\ (acked \subseteq handled => acked' \subseteq handled')
  <2>1. acked' = acked \/ acked' = acked \cup {o}
    BY <1>9 DEF Acked
  <2>2. QED
    BY <1>9, <2>1 DEF ConsumerInv, ServerTypeOK
<1>10. CASE Ack
  <2>1. /\ hpc = "handle" /\ handled' = handled \cup {Head(pending)}
        /\ Acked(Head(pending))
        /\ UNCHANGED <<consumer, first, subscribed, pending, hpc, restarts>>
    BY <1>10 DEF Ack
  <2>2. handled' \subseteq Offset /\ Head(pending) \in Offset
    BY <1>1, <1>2, <2>1 DEF ConsumerInv, ServerTypeOK
  <2>3. acked' \subseteq Offset /\ acked' \subseteq handled'
    BY <1>9, <2>1, <2>2 DEF ConsumerInv, Durable
  <2>4. QED
    BY <2>1, <2>2, <2>3 DEF ConsumerInv, ServerTypeOK, Durable
<1>11. CASE HandlerAck
  <2>1. /\ hpc = "ack" /\ hpc' = "idle" /\ pending' = Tail(pending)
        /\ Acked(Head(pending))
        /\ UNCHANGED <<consumer, first, subscribed, handled, restarts>>
    BY <1>11 DEF HandlerAck
  <2>2. /\ Head(pending) \in Offset /\ Head(pending) \in handled
        /\ pending' \in Seq(Offset) /\ Len(pending') = Len(pending) - 1 /\ Len(pending) \in Nat
    BY <1>1, <1>2, <2>1 DEF ConsumerInv, Durable
  <2>3. Len(pending') <= Prefetch
    BY <1>1, <2>2
  <2>4. acked' \subseteq Offset /\ acked' \subseteq handled'
    BY <1>9, <2>1, <2>2 DEF ConsumerInv, ServerTypeOK, Durable
  <2>5. QED
    BY <2>1, <2>2, <2>3, <2>4 DEF ConsumerInv, ServerTypeOK, Durable
<1>12. CASE Restart
  <2>1. /\ restarts < MaxRestarts /\ restarts' = restarts + 1
        /\ subscribed' = FALSE /\ pending' = << >> /\ hpc' = "idle"
        /\ UNCHANGED <<serverVars, handled>>
    BY <1>12 DEF Restart
  <2>2. restarts' \in 0 .. MaxRestarts
    BY <1>1, <2>1 DEF ConsumerInv, ServerTypeOK
  <2>3. << >> \in Seq(Offset) /\ Len(<< >>) <= Prefetch
    BY <1>1
  <2>4. QED
    BY <2>1, <2>2, <2>3 DEF ConsumerInv, ServerTypeOK, Durable, serverVars
<1>13. QED
  BY <1>3, <1>4, <1>5, <1>6, <1>7, <1>8, <1>10, <1>11, <1>12
     DEF Handler, JsSubscribe, JsCloseCall, HandlerCall, HandlerReturn, Ack, HandlerAck,
         Restart, jsVars, serverVars

(* A restart happens to a client that consumes: it loses no message that was *)
(* accepted.                                                                 *)
LEMMA RestartStep ==
  ASSUME IInv, Restart
  PROVE  /\ PublisherInv' /\ Roles'
         /\ UNCHANGED <<accepted, Settled, sent>> /\ restarts' > 0
<1>1. /\ consumer # 0 /\ consumer' = consumer /\ ClientReset /\ restarts' = restarts + 1
  BY DEF Restart, serverVars
<1>2. /\ role = "consumer" /\ accepted = 0 /\ sent = << >>
      /\ role' = role /\ role \in {"core", "js", "consumer"}
  BY <1>1 DEF IInv, Roles, ClientReset, PublisherInv, ClientTypeOK
<1>3. PublisherInv' /\ accepted' = 0 /\ Settled' = 0
  <2>1. Fresh'
    BY <1>1, <1>2 DEF ClientReset, ClientInit, Conns, Fresh
  <2>2. Fresh' => PublisherInv' /\ NoMessages'
    BY FreshPublisher, PTL
  <2>3. QED
    BY <2>1, <2>2 DEF NoMessages
<1>4. Settled = 0
  BY <1>2, Lengths DEF IInv
<1>5. Roles'
  BY <1>1, <1>2, <1>3 DEF Roles, ClientReset
<1>6. restarts' > 0
  <2>1. restarts \in Nat
    BY ConstantTypes DEF IInv, ConsumerInv, ServerTypeOK
  <2>2. QED
    BY <1>1, <2>1
<1>7. QED
  BY <1>1, <1>2, <1>3, <1>4, <1>5, <1>6 DEF ClientReset

(* What each step does to the messages of the publisher.                     *)
Accepting == accepted' = accepted + 1 /\ UNCHANGED <<Settled, sent, draining>>
Sending ==
  /\ Settled + 1 \in 1 .. accepted /\ sent' = Append(sent, Settled + 1)
  /\ Settled' \in {Settled, Settled + 1}
  /\ UNCHANGED <<accepted, draining>>
Moving == UNCHANGED <<accepted, Settled, sent>> /\ (draining' = draining \/ draining' = TRUE)

LEMMA PublisherStep ==
  ASSUME IInv, [Next]_vars, ~Restart
  PROVE  /\ PublisherInv' /\ Roles'
         /\ Accepting \/ Sending \/ Moving
         /\ UNCHANGED restarts
<1>1. UNCHANGED restarts
  BY DEF Next, JsConnect, UpsertJetstream, SyncFails, UpsertConsumer, JsSubscribe,
         PublishData, Deliver, Handler, HandlerCall, Ack, HandlerReturn, HandlerAck,
         JsCloseCall, Terminating, vars, jsVars
<1>2. \/ UpsertConsumer \/ JsSubscribe \/ JsCloseCall \/ Handler
      \/ \E o \in Offset : Deliver(o)
      \/ UNCHANGED jsVars
  BY DEF Next, JsConnect, UpsertJetstream, SyncFails, PublishData, Terminating, vars
<1>3. consumer' # consumer => role = "consumer"
  BY <1>2, ConsumerStep DEF IInv
<1>4. PublisherInv /\ Roles
  BY DEF IInv
<1>5. CASE PublishEnqueue
  <2>1. /\ PublisherInv'
        /\ Accepting \/ Moving
        /\ UNCHANGED <<role, sent>> /\ pubpc = "enqueue" /\ pubpc' = "idle"
    BY <1>4, <1>5, PublishEnqueueStep DEF Accepting, Moving
  <2>2. Roles'
    BY <1>3, <1>4, <2>1 DEF Roles
  <2>3. QED
    BY <1>1, <2>1, <2>2
<1>6. CASE PipeTake
  <2>1. PublisherInv' /\ UNCHANGED <<accepted, Settled, sent, draining, role, pubpc>>
    BY <1>4, <1>6, PipeTakeStep
  <2>2. Roles'
    BY <1>3, <1>4, <2>1 DEF Roles
  <2>3. QED
    BY <1>1, <2>1, <2>2 DEF Moving
<1>7. CASE CorePublish \/ PublishData
  <2>1. /\ PublisherInv' /\ role # "consumer" /\ role' = role
        /\ Sending \/ Moving
    BY <1>4, <1>7, PublishStep DEF Sending, Moving
  <2>2. Roles'
    BY <1>3, <1>4, <2>1 DEF Roles
  <2>3. QED
    BY <1>1, <2>1, <2>2
<1>8. CASE Control
  <2>1. /\ PublisherInv' /\ UNCHANGED <<role, accepted, sent>> /\ Moving
        /\ pubpc' = pubpc \/ role # "consumer"
    BY <1>4, <1>8, ControlStep DEF Moving
  <2>2. Roles'
    BY <1>3, <1>4, <2>1 DEF Roles
  <2>3. QED
    BY <1>1, <2>1, <2>2
<1>9. PublishEnqueue \/ PipeTake \/ CorePublish \/ PublishData \/ Control
  BY DEF Next, ClientStep, Pipe, Control, Deliver, Handler, HandlerCall, Ack, HandlerReturn,
         HandlerAck, JsCloseCall, Terminating, vars
<1>10. QED
  BY <1>5, <1>6, <1>7, <1>8, <1>9

(* The invariant holds in every reachable state.                             *)
THEOREM Invariance == Spec => []IInv
<1>1. Init => IInv
  BY InitInv
<1>2. ASSUME IInv, [Next]_vars
      PROVE  IInv'
  <2>1. PublisherInv' /\ Roles'
    BY <1>2, PublisherStep, RestartStep
  <2>2. \/ UpsertConsumer \/ JsSubscribe \/ JsCloseCall \/ Handler \/ Restart
        \/ \E o \in Offset : Deliver(o)
        \/ UNCHANGED jsVars
    BY <1>2 DEF Next, JsConnect, UpsertJetstream, SyncFails, PublishData, Terminating, vars
  <2>3. ConsumerInv'
    BY <1>2, <2>2, ConsumerStep DEF IInv
  <2>4. QED
    BY <2>1, <2>3 DEF IInv
<1>3. QED
  BY <1>1, <1>2, PTL DEF Spec

(* The client's connections, callbacks, queue and buffer, and the server's   *)
(* durable consumer, stay within their bounds (nats_core.go:40-69, 239-250,  *)
(* nats_jetstream.go:45-73).                                                 *)
THEOREM TypeCorrect == Spec => []TypeOK
BY InvImpliesTypes, Invariance, PTL

(* From the first message of the durable consumer on, a message is handled   *)
(* or will be delivered, whatever position a restarted program asks for      *)
(* (nats_jetstream.go:329-347, 435-455).                                     *)
THEOREM NothingSkippedHolds == Spec => []NothingSkipped
<1>1. IInv => NothingSkipped
  BY DEF IInv, ConsumerInv, Durable, NothingSkipped
<1>2. QED
  BY <1>1, Invariance, PTL

(* One message is a batch.                                                   *)
LEMMA BatchOfOne ==
  ASSUME NEW k \in Promise!Current
  PROVE  <<k>> \in Promise!Batches /\ k \in Promise!Range(<<k>>)
<1>1. <<k>> \in [1 .. 1 -> Promise!Current] /\ <<k>>[1] = k /\ DOMAIN <<k>> = 1 .. 1
  OBVIOUS
<1>2. 1 \in 0 .. 1 /\ 1 \in 1 .. 1 /\ \A i, j \in 1 .. 1 : ~ i < j
  OBVIOUS
<1>3. <<k>> \in UNION {[1 .. n -> Promise!Current] : n \in 0 .. 1}
  BY <1>1, <1>2
<1>4. QED
  BY <1>1, <1>2, <1>3 DEF Promise!Batches, Promise!Range

(* A client keeps the promise of Outbox, one message at a time: it sends in  *)
(* the order of Publish and passes over none before Close, through losses    *)
(* of the connection, late callbacks and lost answers (nats_core.go:239-288, *)
(* nats_jetstream.go:258-308).                                               *)
THEOREM KeepsPromiseHolds == Spec => KeepsPromise
<1>1. Init => Promise!Init
  <2> SUFFICES ASSUME Init PROVE Promise!Init
    OBVIOUS
  <2>1. Settled = 0 /\ accepted = 0
    BY FreshPublisher DEF Init, Fresh, NoMessages
  <2>2. QED
    BY <2>1 DEF Init, ClientInit, Promise!Init, Settled
<1>2. ASSUME IInv, [Next]_vars
      PROVE  [Promise!Next]_(Promise!outVars)
  <2> DEFINE closing == draining \/ restarts > 0
  <2>1. accepted \in Nat /\ Settled \in Nat /\ sent \in Seq(1 .. accepted)
    BY <1>2, Lengths DEF IInv
  <2>2. CASE Restart
    <3>1. UNCHANGED <<accepted, Settled, sent>> /\ closing'
      BY <1>2, <2>2, RestartStep
    <3>2. QED
      BY <3>1 DEF Promise!Next, Promise!Close, Settled
  <2>3. CASE ~Restart /\ Accepting
    <3>1. accepted' = accepted + 1 /\ UNCHANGED <<Settled, sent, draining, restarts>>
      BY <1>2, <2>3, PublisherStep DEF Accepting
    <3>2. Promise!Accept
      BY <2>1, <3>1 DEF Promise!Accept, Settled
    <3>3. QED
      BY <3>2 DEF Promise!Next
  <2>4. CASE ~Restart /\ Sending
    <3> DEFINE k == Settled + 1
    <3>1. /\ k \in 1 .. accepted /\ sent' = Append(sent, k) /\ Settled' \in {Settled, k}
          /\ UNCHANGED <<accepted, draining, restarts>>
      BY <1>2, <2>4, PublisherStep DEF Sending
    <3>2. k \in Promise!Current
      BY <2>1, <3>1 DEF Promise!Current, Settled
    <3>3. Settled + 1 .. Settled' \subseteq {k}
      BY <2>1, <3>1
    <3>4. sent' = sent \o <<k>>
      BY <2>1, <3>1
    <3>5. Promise!Attempt(<<k>>, Settled')
      BY <3>1, <3>2, <3>3, <3>4, BatchOfOne DEF Promise!Attempt, Settled
    <3>6. Settled' \in {Settled} \cup Promise!Current
      BY <3>1, <3>2
    <3>7. QED
      BY <3>2, <3>5, <3>6, BatchOfOne DEF Promise!Next, Settled
  <2>5. CASE ~Restart /\ Moving
    <3>1. /\ UNCHANGED <<accepted, Settled, sent, restarts>>
          /\ draining' = draining \/ draining' = TRUE
      BY <1>2, <2>5, PublisherStep DEF Moving
    <3>2. QED
      BY <3>1 DEF Promise!Next, Promise!Close, Promise!outVars, Settled
  <2>6. QED
    BY <1>2, <2>2, <2>3, <2>4, <2>5, PublisherStep
<1>3. QED
  BY <1>1, <1>2, Invariance, PTL DEF Spec, KeepsPromise, Promise!Spec
=============================================================================
