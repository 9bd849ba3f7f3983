# kmq-utils: a TLA+ model

`kmq-utils` wraps six message queues (Kafka, RabbitMQ, RocketMQ, Redis, MQTT,
NATS) behind clients of one shape. A publisher puts messages into a bounded,
closable queue; one goroutine moves them to the client library; `Close` stops
the intake and drains. A consumer is called by the library, puts messages into
such a queue, one goroutine hands them to the application; `Close` stops the
intake and drains. What is hard is the same everywhere: several goroutines, a
queue, a few atomic flags, contexts and WaitGroups, and a `Close` that may come
at any moment, together with connections that fail. The repository has no
tests.

This directory holds TLA+ modules of those clients, the TLC runs that check
them, and proofs about them checked by TLAPS. `PROJECT.json` lists the
components, the runs, the source lines behind every definition, the findings,
the hazards and the theorems.

## Inventory

| Component | Source | State it keeps | Operations | Hard part | Correct when |
|---|---|---|---|---|---|
| Kafka consumer group | `kafkamq/sub.go`, `config_sarama.go` | queue, context tree, session marks, `once`, WaitGroup | `Subscribe`, `SyncSubscribe`, `Close`, `Setup`, `Cleanup`, `ConsumeClaim`, `Ack` | rebalances, crashes, a full queue during shutdown | no commit passes over a message not enqueued; order; shutdown ends |
| Kafka async producer | `kafkamq/pub.go` | queue, two WaitGroups, sub-context | `Publish`, `PublishArray`, `Start`, `Close` | three parties waiting for one another | all drained and flushed, nobody waits for ever |
| RabbitMQ producer | `rabbitmq/pub.go` | queue, `started`, `draining` | `Publish`, `Start`, `Close` | endless retries against a draining shutdown | order, nothing skipped, sender leaves |
| RabbitMQ consumer | `rabbitmq/sub.go` | `isClosed`, two WaitGroups | `SyncSubscribe`, handler, `Close` | deliveries racing with `Close` | nothing removed unseen, silence after `OnExit` |
| RocketMQ producer | `rocketmq/pub.go` | queue, `started`, `draining` | `Publish*`, `Start`, `Close` | answers of asynchronous sends | no message dropped in silence |
| RocketMQ push consumer | `rocketmq/sub.go` | queue, `draining`, context | callback, `SyncSubscribe`, `Close` | callbacks blocked on a full queue | confirmed messages are handled |
| RocketMQ pull consumer | `rocketmq/sub.go` | queue, `draining`, contexts | pull loops, `SyncSubscribe`, `Close` | pull loops outliving `Close` | what a loop brings arrives in order and without gaps; bounded leftover |
| Redis publisher | `redismq/pub.go`, `rediskit.go` | queue, `draining`, `connected`, handler pointer | `Publish`, `Start`, `Close`, `reconnectLoop` | a batch retried over a lost connection | repetition within a batch only |
| Redis subscriber | `redismq/sub.go`, `rediskit.go` | `draining`, `connected`, handler pointer, WaitGroup | `Subscribe`, `SyncSubscribe`, `Close`, `reconnectLoop`, `onError` | `Close` between two steps of the reconnection, a pointer read without a lock | subscribes again after a loss; silence after `Close` |
| MQTT client | `mqtt/mqtt_client.go` | queue, `started`, `draining`, `connected` | `Start`, `Publish`, `Close`, paho's `OnConnect` and `OnConnectionLost` | callbacks late and out of order, reconnect against drain | order; subscribed again after a reconnect; the drain pipe leaves |
| NATS core client | `natsmq/nats_core.go` | queue, `draining`, `connected`, the connection | `Start` (may be repeated), `Publish`, `Close`, nats.go's callbacks | a `Start` that failed half-way, reconnects nobody reports | order; delivers while it believes in its connection; the drain pipe leaves |
| NATS JetStream client | `natsmq/nats_jetstream.go`, `config.go` | the same | the same, the upserts of stream and consumer, the handler's acknowledgements | a program that restarts onto a half acknowledged durable consumer | nothing skipped across restarts |
| Builders, Kerberos, log adapters | `*/config.go`, `kerberos_samara.go` | none shared | setters | none | not modelled |

The topics of MQTT and NATS come from the configuration (`conf.Topics()`) and
are subscribed to when a connection is made; there is no operation to add one.

They interact only inside one client: callers, goroutines of the client, the
callbacks of its library and `Close` share the queue, the flags and the
contexts. Two clients meet only in the broker.

## Modules

| Module | Models | Main variables and the code they stand for |
|---|---|---|
| `LockedRingBuffer` | the queue of `kutils` (external) | operators only: what an enqueue accepts, what a dequeue takes and leaves |
| `KafkaConsumer` | `kafkamq/sub.go`, `Ack` | `mainpc`, `lpc`, `wpc`, `cpc[p]`, `closepc` are the goroutines; `marked` and `committed` the offsets; `sess`, `setups` the sarama session and the `sync.Once` |
| `MCKafkaConsumer` | instances of it | start offsets |
| `Outbox` | what every publisher promises | `accepted`, `settled`, `sent`, `closing` |
| `RabbitProducer` | `rabbitmq/pub.go` | `startpc`, `wpc`, `closepc`, `queue`, `batch` (the sender's buffer) |
| `RocketClient`, `RocketConsumer` | the state the three RocketMQ clients, and the two consumers, have in common | `queue`, `batch`, `mq` the client of the library; `hand`, `mainpc`, `handled` |
| `RocketProducer` | `rocketmq/pub.go` | the same as `RabbitProducer`, plus `pending`, `delivered`, `reported` for asynchronous sends |
| `KafkaProducer` | `kafkamq/pub.go` | the same as `RabbitProducer`, plus the reader (`rpc`), sarama (`input`, `inflight`, `results`) |
| `RedisClient` | the state `RedisPub` and `RedisSub` have in common | `connected`, `handler`, `registered`, `wpc` |
| `RedisPub` | `redismq/pub.go` | `connected`, `handler`, and one program counter for `reconnectLoop`, `dbConnect`, `startPublish`, `PublishArray`, which run in one goroutine |
| `RocketPushConsumer` | `PushConsumer` | `cbpc[c]` the library's callbacks, `hand[c]` what each still holds, `confirmed`, `refused` the answers to the broker |
| `RocketPullConsumer` | `PullConsumer` | `ppc[l]` the pull loops, `mainpc`, `remainLen` the length read before the drain |
| `RabbitConsumer` | `rabbitmq/sub.go` | `hpc[h]` the library's handlers, `ready`, `unacked`, `gone` the broker's queue |
| `RedisSub` | `redismq/sub.go` | `wpc`, one program counter for `reconnectLoop`, `dbConnect`, `startSubscription` and the application's callback, which run in one goroutine; `closepc`; `handler` the pointer both use; `up`, `broken` Redis |
| `MqttClient` | `mqtt/mqtt_client.go` | `link` paho's connection, `connected` what the client believes of it; `ups`, `subs`, `losts` the callbacks on their way; `subscribed`, `refused` how the last SUBSCRIBE went; `wpc` the drain pipe |
| `NatsClient` | `nats_core.go`, and what `nats_jetstream.go` repeats of it | `link[c]`, `events[c]` each connection and its undelivered callbacks, `conn` the one the client holds, `connected` |
| `NatsJetStream` | composes `NatsClient` with the rest of `nats_jetstream.go` and the server's durable consumer | `consumer`, `acked` the server; `subscribed`, `pending`, `hpc` the deliveries; `role` says which client a behaviour has: `"core"`, `"js"` (publishes) or `"consumer"` |
| `KafkaConsumerProofs`, `KafkaProducerProofs`, `MqttClientProofs`, `NatsJetStreamProofs`, `LockedRingBufferProofs` | theorems about the module of that name | |
| `RabbitProofs`, `RedisProofs`, `RocketProofs` | theorems about the modules of one package | |

A proof module of a package extends all its components. So where two of them
have an operator of one name, the consumer's has a prefix, mostly that of the Go
receiver: `ConsumerInit`, `SubInit`, `PushInit` and `PullInit` beside the `Init`
of the producers. The loops that pull are `Puller...`.

Each action is one atomic step of one goroutine: a load or store of an atomic
flag, one operation on the queue, one call of the library, or a wait that ends.
What the code reads in one step and uses in a later one is two actions with a
program counter between them. Messages are numbers in the order of
acceptance, so order, loss and repetition are visible and contents are not.
Sleeps are left out: a sleep is a place where others may run, and every place
is. Timeouts (the 20 s of the producers' `Close`) may fire at any time.
Operators named `Bug_...` are not part of any specification. Each is a
plausible mistake in the definition that follows it, and shows that a property
would notice.

### What is taken from outside the repository

`kutils` is not in the tree, nor are the libraries. The models use them as the code does:

- *LockedRingBuffer*: a bounded FIFO. `Enqueue` blocks while it is full and
  returns false once it is closed; `TryEnqueue` does not block; `DequeueTo`
  blocks and returns 0 only when closed and empty; the validity flag of the
  `Try` operations is false only when closed and empty.
- *kcontext*: a child is cancelled with its parent.
- *sarama*: the session ends when one `ConsumeClaim` returns, on a rebalance,
  or with the context; a mark only rises, a reset only lowers; `Commit` writes
  all marks of the session; at the end of a session the marks are written if
  automatic commit is on; `group.Close` waits for `Consume`;
  `AsyncProducer.Close` closes the input and reads the results itself.
- *rocketmq-client-go*: `Shutdown` and `Unsubscribe` do not wait for callbacks.
  A pull names no topic, and the loops of a pull consumer share one client, so
  nothing is assumed of the topic of what a loop brings.
- *go-rabbitmq*: with `AutoAck` the broker removes a message on delivery and
  the handler's answer is ignored; `Run` returns when the consumer is closed,
  or fails.
- *kredis*: an attempt to publish a batch may fail after any part of it reached
  Redis: `Picks` chooses the messages that did, which keep their order.
  `SyncPSubscribeReceive` ends with an error when the connection is lost,
  and without one only when it is stopped or cancelled.
- *paho* (v1.5.1, with `ConnectRetry` and `AutoReconnect`): dials again until
  `Disconnect`; runs `OnConnect` and `OnConnectionLost` on a goroutine each, so
  they may come late and in another order; `Disconnect` reports no loss; a
  message published while it reconnects is kept, or its token completes.
- *nats.go*: `ConnectHandler` is for the first connection only, and the client
  gives no `ReconnectHandler`; the callbacks of one connection are in order;
  `Close` reports a disconnect; `Publish` buffers while it reconnects; it
  acknowledges by itself each message of an asynchronous JetStream
  subscription made without `ManualAck`.

## Runs

Run `tlc -config X.cfg M` in this directory.

| Run | Question | Checks | Bounds |
|---|---|---|---|
| `kafka_consumer` | what do a rewind, rebalances, acknowledgements, a shutdown and a crash cost? | `CrashLossBounded`, `QuietAfterReturn`, `Accounted`, `SessionOrder`, `ShutdownCompletes`, `QueuedIsHandled`, `NoLateRewind` | 1 partition of 3 messages, buffer 1, automatic commit, a requested start, 2 sessions, 1 crash (219,000 states) |
| `kafka_consumer_ack` | does `Ack` confirm what its comment says? | `AckCommitsOnlyAcked`, violated | 1 partition of 2 messages, buffer 2, manual mode |
| `rabbit_producer` | is every accepted message sent, in order? | `DrainsBeforeExit`, `KeepsPromise`, `SenderLeaves` | queue 2, 5 messages, 3 failures that had reached the broker |
| `rocket_producer` | the same, with answers that come late | `NoSilentDrop`, `KeepsPromise`, `SenderLeaves` | queue 2, 4 messages, 1 such failure, asynchronous |
| `kafka_producer` | do sender, reader and sarama end together? | `DrainedAtClose`, `KeepsPromise`, `CloseReturns` | queue 2, channels 2, 5 messages |
| `redis_pub` | what does a batch retried over lost connections repeat or lose? | `DrainKeepsEarlier`, `KeepsPromise`, `CloseReturns` | queue 2, batch 1, 4 messages, 3 retries (the code's number), 1 partial failure |
| `redis_sub` | is a lost subscription made again, and none after `Close`? | `QuietAfterClose`, `Resubscribes`, `ShutdownCompletes` | 2 outages |
| `rocket_push` | do broker and application agree on what is consumed? | `BrokerAgrees`, `HandledBeforeExit`, `CallbacksFinish`, `PushCloseReturns` | 2 callbacks, queue 2, deliveries of up to 2, 3 messages |
| `rocket_pull` | what do pull loops that outlive `Close` leave? | `LoopOrder`, `LeftoverBounded`, `PullersFreed`, `PullCloseReturns` | 2 pull loops of 2 messages, queue 3, pulls of up to 2 |
| `rabbit_consumer` | can a delivery slip past `Close`, or be removed unseen? | `QuietAfterExit`, `RemovedWereShown`, `CloseReturns` | 2 handlers, 3 messages, manual acknowledgement |
| `mqtt` | does the client come back after losses it learns of late? | `KeepsPromise`, `Realigned`, `PipeLeaves` | queue 2, 2 messages, 1 attempt that times out after all, 2 connections (236,000 states) |
| `nats` | do core and JetStream clients lose or skip messages across failed starts and restarts? | `NothingSkipped`, `KeepsPromise`, `PipeLeaves`, `Delivers` | queue 1, 2 messages, 2 connections, 1 loss, a stream of 2, prefetch 2, 2 restarts (321,000 states) |

Why these bounds are enough. A hazard needs a queue that is full, a worker
that holds a batch, and one more message on its way: a queue of one or two and
two to five messages give all three at once. Two sessions give a first one and
one after a rebalance or a restart. One crash can come at any step.
`CrashLossBounded` needs more messages than a queue and a buffer hold, hence
the buffer of one and the log of three. Two connections give an old one whose
callbacks are late and a new one. The automatic mode of Kafka includes the
manual one: the application may acknowledge in both, and only the automatic
commits are taken away. The asynchronous RocketMQ mode includes the synchronous
sends, which `Close` turns on. `RabbitConsumer` is run in the manual mode only:
in the automatic one the broker forgets a message on delivery and nothing is
left to lose or keep. The infinite behaviours (retries without end) are cycles
of the finite graph, so the liveness properties see them. Deadlock is checked
in every run: a state in which all have finished, or the process has panicked,
has a stuttering step `Terminating`, and any other state without a step is an error. A system that
waits for the environment (nobody has closed yet) always has a step of the
environment. No symmetry is used.

Where a property has a premise, the premise is what the code does not
guarantee; the other cases are under Findings.

- `Realigned`: the subscriptions are promised in whatever order the callbacks
  come, unless the broker refuses them (`refused`); that the client also
  believes in its connection is promised only if the callbacks are in order.
- `PipeLeaves` of MQTT admits a pipe that believes in a connection `Disconnect`
  has closed, and `Delivers` is about a client that goes on believing in its
  connection.
- `DrainKeepsEarlier` is about a publisher that `Close` found connected.
- `CloseReturns` of the Redis publisher and `ShutdownCompletes` of the subscriber
  admit the panic of `Close`, but not once the publishing loop or the
  subscription is registered: the panic needs a loop that is still dialling.
- `HandledBeforeExit` is about a queue closed before its length was read.
  `BrokerAgrees` counts a message in an open queue as on its way, also one that
  stays there because `SyncSubscribe` returned on a cancellation from outside.
- `LeftoverBounded` is about a plain `Close`, without that cancellation.

### Fairness

Weak fairness of each goroutine: the Go scheduler runs what can run. A call of
a library that has a timeout (a send, a pull) returns. The application's
handler returns. The goroutines a library starts for callbacks run
(`MqttClient`, `NatsJetStream`), and a SUBSCRIBE they wait for is answered, or
its connection ends. Nothing is assumed of the broker (it need not
deliver or start a session), of `Close` or cancellation (nobody must call it),
nor of a crash; Redis and the network may fail for ever. Three assumptions are
about a library or the environment: in `RabbitConsumer`, `Run` returns once the
consumer is closed; in `KafkaProducer`, sarama answers each message, as its
retries are bounded; in `NatsJetStream`, a message offered again and again is
taken in the end (strong fairness of `Sends`), as one that a server refuses
for ever would stop the drain pipe.

### Findings

One run checks what a comment of the source says, and TLC finds that the code
does otherwise. The comment is quoted in `PROJECT.json`.

| Run | Comment | What happens |
|---|---|---|
| `kafka_consumer_ack` | `config_sarama.go:63` | `Ack` commits all marks, and every enqueued message is marked, so it confirms later messages, and other partitions, too |

The models, and the reading they took, show further states a reader of the
comments would not expect. No run is kept for them.

Kafka and RocketMQ:

- The Kafka worker does not leave only when the queue is closed and drained
  (`kafkamq/sub.go:184`): it also leaves by its context, after a look at the
  queue that is out of date, and marked messages stay in the queue.
- `ResetOffset` only lowers an offset: a requested start above the committed
  one is ignored (`kafkamq/sub.go:309`).
- `PublishArray` takes as many messages as fit and returns true if any did
  (`kafkamq/pub.go:191`).
- `Close` before the spawned goroutine has registered with the WaitGroup waits
  for nothing: `kafkamq/sub.go:254`, `kafkamq/pub.go:241` (where sarama is then
  closed under a running sender, which panics), `rocketmq/pub.go:181` (during
  the start-up sleep), and the consumers.
- A message the closed queue of a push consumer refused is confirmed to the
  broker (`rocketmq/sub.go:229`).
- The final drain of the pull consumer leaves behind what is enqueued after the
  length was read (`rocketmq/sub.go:477`, comment at 522); its pull loops look
  at a context `Close` does not cancel and never stop (356, comment at 496).
  The drain of the push consumer does the same when the parent context is
  cancelled while callbacks run (200): its queue is still open then, and what
  they add stays in it. `Close` closes the queue first.
- The pull loops share one client and pull without a topic
  (`rocketmq/sub.go:361`, 391). Two of them may hold messages of one topic and
  enqueue them in turn, so the order within a topic, which the option `Order`
  speaks of (`rocketmq/config.go:66`), is not kept by this code alone. What
  holds is the order of what one loop brings (`LoopOrder`).

RabbitMQ and Redis:

- Under automatic acknowledgement a RabbitMQ delivery refused while closing is
  lost, because `NackRequeue` has no effect there (`rabbitmq/sub.go:103`).
- A `Publish` of Redis between its look at `draining` and its enqueue is
  accepted after the drain (`redismq/pub.go:115`, comment at 208). A handler
  that `dbConnect` makes after `Close` is never stopped (104).
- `Close` of a Redis subscriber and of a publisher reads its handler twice while
  `dbConnect` drops and replaces it, and `Stop` may be called on nil
  (`redismq/sub.go:82`, 83, 150; `redismq/pub.go:104`, 105, 184). Both need a
  loop that is still dialling. `Close` of a subscriber called from within the
  application's callback waits for itself.

MQTT:

- `OnConnect` subscribes again while the client drains, against the comment at
  `mqtt_client.go:166`. A loss handled after a newer connection leaves
  `connected` false until the next reconnection.
- A SUBSCRIBE that is refused, or fails otherwise, on a live connection is only
  logged (`mqtt_client.go:243`). It is not repeated before the next connection,
  so a client may stay connected for ever without its subscriptions.
- After a `Close` that timed out, `Disconnect` (186) reports no loss: a pipe
  with a message left believes in the connection and tries for ever.
- The log at 180 says "drained successfully" also when the pipe gave up. A
  second `Start` returns nil before the client is ready (67). `started` stays
  true after a failure of TLS. A `Start` overlapped by `Close` leaves a
  connection up.

NATS:

- `connected` is cleared on a disconnect and never set again after a
  reconnect: nothing is sent from then on, and `Close` drops it (comments at
  `nats_core.go:261` and 277). The drain pipe returns at 278-283 although the
  comment above it says it keeps trying.
- `Close` calls `conn.Close` right after `Drain`, so deliveries may be dropped
  and handlers may still run (comment at 115). `allowReconnect = false` does
  not turn off the reconnection of nats.go, whose default is on.
- In JetStream a failed upsert leaves its connection open (243-252), a failure
  of `syncSubscriptions` leaves `conn` non-nil, so that `Publish` accepts what
  no pipe takes, and 362 uses a consumer that is nil after a failed
  `Subscribe`. `upsertConsumer` does not look at the timestamp when the
  consumer exists. `AUTO_COMMIT_NONE` (`config.go:20`) is not manual, as
  nats.go acknowledges by itself.

The passing runs state what does hold in spite of these. For instance
`LeftoverBounded` says that a plain `Close` of a pull consumer leaves one
message of each pull loop at most; `LoopOrder` that a loop whose messages are
partly passed over by a `Close` loses the last of them only; `DrainKeepsEarlier` that all that was accepted
before `Close` found the Redis publisher connected is drained; `BrokerAgrees`
that nothing is confirmed unhandled before the queue is closed; `QuietAfterExit`
that a registration with a WaitGroup that is already waited for does no harm in
the RabbitMQ consumer, because `isClosed` is looked at after it; and
`NothingSkipped` that a JetStream consumer skips nothing whatever position a
restarted program asks for.

### The abstract publisher

`Outbox` states what a caller of any `Publish` may rely on: messages go to the
library in the order of acceptance, at most `Window` are being attempted, an
attempt may be repeated, and none is passed over unless the publisher is
closing. `KeepsPromise` of each of the six publishing clients is `Outbox!Spec`
under a refinement mapping: `settled` is the number of accepted messages that
are neither in the queue nor in the worker's buffer, and `Window` is 1 for the
five clients that send one message at a time and the batch for Redis. So the
run of `redis_pub` also says how far a retry can reorder: within a batch only.
For NATS a restarted program counts as closing, as it forgets its queue.

## Proofs

`tlapm M.tla` checks module `M`. The theorems hold for every value of the
constants that the module's assumption allows: every finite set of partitions,
log length and buffer, every queue size, every bound on messages, connections,
failures, sessions and crashes. The bounds that TLC needs are constants of the
specification, so the theorems are about behaviours within any bounds.

Kafka consumer (`KafkaConsumerProofs`):

- `Invariance`: `Spec => []IInv`. `Accounted` alone is not inductive: a commit
  writes marks, so the marks must be accounted for (`PassedAccounted`); a mark
  comes from a claim, which marks only what it has enqueued, so the position of
  a claim must be as well, and a claim between enqueue and mark holds a message
  that is in the queue; a mark also comes from `Ack`, and passes over nothing
  only because the acknowledged message is behind its claim
  (`InFlightBehindClaim`). A crash empties the queue and the buffer, and what
  was committed and not handled becomes `lost`. `ClaimsInSession` and
  `BatchHandledFirst` tie program counters to the data, `MarksAhead` is what
  `NoLateRewind` needs. `TypeCorrect` and `AccountedHolds` are parts of it.
- `NoLateRewindHolds`: from `MarksAhead`, only a session with `setups = 1` can
  write a lower offset.
- `QuietAfterReturnHolds`: when `SyncSubscribe` has returned the loop and the
  worker have ended, so there is no session, no claim and no batch, and nothing
  starts one (`ShutDown`).
- `SessionOrderHolds`: of each partition and session, the worker's buffer and
  the queue form one ascending pipe (`Pipe`, `Ascending`) between what was
  handled and the position of the claim; a claim adds at its end
  (`EnqueueAscends`), a handler takes at
  its front (`HandleAscends`).
- `CrashLossBoundedHolds`: a crash loses what was committed and not handled
  (`Unhandled`), wherever it is. It is the accounting of `IInv` that says where:
  a committed offset was handled, was lost before, or is in the queue or the
  buffer. So what is newly lost fits the places of these two (`Places`), and the
  bound is a fact about cardinalities. A mark before its enqueue, or a commit
  past the marks, would break it.

Publishers (`RabbitProofs`, `KafkaProducerProofs`, `RocketProofs`,
`MqttClientProofs`, `RedisProofs`, `NatsJetStreamProofs`), each
`KeepsPromiseHolds`: `Spec => Outbox!Spec`. The invariant says that buffer and queue together hold
the messages `settled + 1, settled + 2, ...` in this order (`Numbered`), and
where the worker has a buffer at all. Each step is then a step of `Outbox` or a
stutter: an attempt is of `settled + 1`, because that is the head of the
buffer. What an append and a batch dequeue do to the numbering is proved once,
in `LockedRingBufferProofs`, about the operators of the queue. Each module
proves `TypeCorrect` as well, and what its run checks of a shutdown:
`DrainsBeforeExitHolds`, `DrainedAtCloseHolds`, `NoSilentDropHolds`.

- Redis. The window is a batch, and an attempt may be any part of it: the
  proof shows that the positions `Picks` chooses make a sequence of the window
  (`PartCurrent`). `DrainKeepsEarlierHolds` is about what left the batch without
  being dropped (`SettledSent`), and about when `Close` may go on. It waits
  until the publishing loop has left the WaitGroup; that loop leaves a publisher
  that is not draining only after a loss, and then a later `Close` owes nothing,
  and a draining one only with its queue empty (`Positions`, `OwedSettled`).
- NATS. `Numbered` also holds for the client that consumes and for one whose
  program restarts, because these have accepted nothing (`Roles`). The drain
  pipe starts once, with the `Start` that returns, so that two connections
  never mean two pipes (`Positions`).

Consumers:

- RabbitMQ: `QuietAfterExitHolds` rests on the order of `isClosed`, the closed
  consumer and the WaitGroup (`ClosedFirst`), and `RemovedWereShownHolds` on a
  message being with one handler at a time (`OneHolder`).
- Redis: `QuietAfterCloseHolds` rests on the context being cancelled before
  `Close` looks at the WaitGroup.
- RocketMQ, push: `BrokerAgrees` is not inductive, as it says nothing of a
  delivery under way. `Deliveries` does: before the look at `draining` none of
  it has been enqueued, afterwards each of its messages is in the hand of the
  callback or was taken charge of, unless the queue was closed; and two
  callbacks share no message. `HandledBeforeExitHolds` needs that a closed queue
  does not grow, so the length read before the drain stays true
  (`ClosedBeforeDrain`).
- RocketMQ, pull: for `LoopOrderHolds` the hand of a pull loop holds the last
  messages it pulled, in order (`HandsNumbered`), and all the consumer has got
  of that loop is older (`BehindPuller`), so an enqueue adds at the end of the
  pipe of buffer and queue. There is no gap because all that a
  loop has let go was got, as long as it can bring more (`NothingPassedOver`): it
  passes a message over only while draining or at a closed queue, and then
  enqueues no more. `LeftoverBoundedHolds` counts the pull loops that
  have looked at `draining` and will still enqueue: what the drain leaves and
  what they add is at most one message of each pull loop (`DrainedFirst`).
- NATS JetStream: `NothingSkippedHolds`: the durable consumer stays where it
  was made, because `upsertConsumer` takes the one there is, and only what the
  application has handled is acknowledged to it (`Durable`), whatever was under
  way when the program or the connection died.

Every inductive invariant was model-checked on the instance of its run before
it was proved. Every safety invariant, action property and refinement the
passing runs check is thus a theorem. Only model-checked is the liveness (and
with it every use of fairness), which is out of the prover's reach:
`ShutdownCompletes`, `QueuedIsHandled`, `SenderLeaves`, `CloseReturns`,
`PushCloseReturns`, `PullCloseReturns`, `CallbacksFinish`, `PullersFreed`,
`Resubscribes`, `Realigned`, `PipeLeaves` and `Delivers`.

## Not modelled, and why

- Builders, the Kerberos login, log adapters: no shared state, nothing ordered.
  What the builders choose appears as constants.
- Contents, keys, headers and routing: no property is about them.
- What is received over MQTT and NATS core goes from the library to the
  application without touching the client.
- The redelivery of unacknowledged RabbitMQ messages after a lost connection:
  the library reconnects by itself, the code sees a second handler only, which
  the model has.
- A second call of `Close`: guarded by a compare-and-swap in most clients, so
  it does nothing; in `RedisPub` and the Kafka clients it repeats idempotent
  steps.
- A Redis handler made by `dbConnect` after `Close` has looked at the pointer
  is modelled, its memory effects (an unlocked pointer) are a choice of the
  value read. The failover of `rediskit.go` between the clients of a cluster is
  abstracted to an attempt that fails.
- JetStream has explicit acknowledgement and one subscription; a client that
  publishes and one that consumes share only `Start` and `Close` and are
  separate behaviours. The connection callbacks of the one that consumes are
  left out: they set a flag only the sending of messages looks at. Only a
  program with a durable consumer restarts, as
  a publisher keeps nothing across a restart.
- Callers of `Publish` that wait on a full queue are a disabled step: the
  caller that waits for ever when `Close` comes without `Start`
  (`rabbitmq/pub.go:174`) is a hazard without a property.

## Plan

Done, in this order, the most important first: `LockedRingBuffer`,
`KafkaConsumer` with its proofs, `Outbox`, the four producers, the RocketMQ and
RabbitMQ consumers, `RedisSub`, `MqttClient`, `NatsClient` and `NatsJetStream`;
then the proofs of the safety of each and of the refinement of `Outbox` by the
six publishers.

Left:

1. A composition of a producer, a broker and a consumer, end to end: what is
   acknowledged to the publisher reaches the application at least once.
2. Two JetStream subscriptions, whose durable consumers share one connection.
