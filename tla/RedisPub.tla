------------------------------ MODULE RedisPub ------------------------------
(* redismq/pub.go over redismq/rediskit.go: a RedisPub, its callers and the  *)
(* Redis client.                                                             *)
(*                                                                           *)
(* Start runs everything in one goroutine (wpc): the reconnect loop, and     *)
(* inside it, while connected, the publishing loop.  It runs beside the      *)
(* caller of Close (closepc) and a caller of Publish (pubpc).                *)
EXTENDS Naturals, Sequences, LockedRingBuffer, RedisClient

CONSTANTS
  QueueSize,          \* capacity of the queue
  DefaultBatchSize,   \* smallest batch of the publishing loop
  MaxDrainRetries,    \* attempts to publish a batch while draining
  MaxMessages,        \* bound on the accepted messages
  MaxEchoes           \* bound on the attempts that fail after reaching Redis

ASSUME RedisPubAssumption ==
  /\ QueueSize \in Nat \ {0} /\ DefaultBatchSize \in Nat \ {0}
  /\ MaxDrainRetries \in Nat \ {0} /\ MaxMessages \in Nat /\ MaxEchoes \in Nat

VARIABLES
  queue,
  qclosed,
  accepted,      \* number of messages the queue took
  pubpc,         \* a caller of Publish
  batch,         \* the messages PublishArray works on
  retries,       \* its failures while draining
  back,          \* where it returns to: "drain" or "top"
  sent,          \* messages Redis took, in order
  echoes,        \* attempts that failed after reaching Redis
  dropped,       \* a batch was dropped while draining
  owed           \* messages accepted when Close found the publisher connected

queueVars == <<queue, qclosed, accepted>>
linkVars  == <<connected, handler>>
workVars  == <<registered, wpc, batch, retries, back>>
auxVars   == <<sent, echoes, dropped, owed>>
vars == <<draining, linkVars, queueVars, pubpc, closepc, workVars, auxVars>>

Init ==
  /\ draining = FALSE /\ connected = FALSE /\ handler = "live"
  /\ queue = << >> /\ qclosed = FALSE /\ accepted = 0
  /\ pubpc = "idle" /\ closepc = "idle"
  /\ registered = FALSE /\ wpc = "off" /\ batch = << >> /\ retries = 0 /\ back = "top"
  /\ sent = << >> /\ echoes = 0 /\ dropped = FALSE /\ owed = 0

BatchSize ==
  IF QueueSize \div 4 > DefaultBatchSize THEN QueueSize \div 4 ELSE DefaultBatchSize
-----------------------------------------------------------------------------
(* Publish looks at draining, then enqueues; a full queue makes it wait, a   *)
(* closed one refuses.                                                       *)

PublishCheck ==
  /\ pubpc = "idle" /\ ~draining
  /\ pubpc' = "enqueue"
  /\ UNCHANGED <<draining, linkVars, queueVars, closepc, workVars, auxVars>>

Room == Accepts(queue, qclosed, QueueSize)

PublishEnqueue ==
  /\ pubpc = "enqueue"
  /\ \/ /\ Room /\ accepted < MaxMessages
        /\ accepted' = accepted + 1
        /\ queue' = Append(queue, accepted + 1)
     \/ /\ qclosed
        /\ UNCHANGED <<queue, accepted>>
  /\ pubpc' = "idle"
  /\ UNCHANGED <<draining, linkVars, qclosed, closepc, workVars, auxVars>>
-----------------------------------------------------------------------------
(* Close                                                                     *)

CloseCall ==
  /\ closepc = "idle"
  /\ closepc' = "disconnect" /\ draining' = TRUE
  /\ owed' = IF registered /\ connected THEN accepted ELSE 0
  /\ UNCHANGED <<linkVars, queueVars, pubpc, workVars, sent, echoes, dropped>>

CloseDisconnect ==
  /\ closepc = "disconnect"
  /\ closepc' = "wait" /\ connected' = FALSE
  /\ UNCHANGED <<draining, handler, queueVars, pubpc, workVars, auxVars>>

\* wg.Wait
CloseWait ==
  /\ closepc = "wait" /\ ~registered
  /\ closepc' = "queue"
  /\ UNCHANGED <<draining, linkVars, queueVars, pubpc, workVars, auxVars>>

CloseQueue ==
  /\ closepc = "queue"
  /\ closepc' = "test" /\ qclosed' = TRUE
  /\ UNCHANGED <<draining, linkVars, queue, accepted, pubpc, workVars, auxVars>>

\* The handler is read twice: for the test and for the call of Stop.  When
\* dbConnect drops it in between, Stop is called on nil and panics.
CloseTest ==
  /\ closepc = "test"
  /\ closepc' = IF handler = "nil" THEN "cancel" ELSE "stop"
  /\ UNCHANGED <<draining, linkVars, queueVars, pubpc, workVars, auxVars>>

CloseStop ==
  /\ closepc = "stop"
  /\ \/ /\ handler = "nil"
        /\ closepc' = "panicked"
        /\ UNCHANGED handler
     \/ /\ handler # "nil"
        /\ closepc' = "cancel" /\ handler' = "stopped"
  /\ UNCHANGED <<draining, connected, queueVars, pubpc, workVars, auxVars>>

\* Stop takes the client away from the toolkit.  Without a client each of the
\* toolkit's calls answers with an error; with one, Redis may still refuse.
Reachable == handler = "live"

\* The context is cancelled; nothing of Start waits for it.
CloseCancel ==
  /\ closepc = "cancel"
  /\ closepc' = "returned"
  /\ UNCHANGED <<draining, linkVars, queueVars, pubpc, workVars, auxVars>>
-----------------------------------------------------------------------------
(* Start: the reconnect loop                                                 *)

StartCall ==
  /\ wpc = "off"
  /\ wpc' = "loop"
  /\ UNCHANGED <<draining, linkVars, queueVars, pubpc, closepc, registered, batch, retries,
                 back, auxVars>>

\* Leave while draining; wait while connected; else connect.
LoopTurn ==
  /\ wpc = "loop"
  /\ wpc' = IF draining THEN "exited" ELSE IF connected THEN "loop" ELSE "dial"
  /\ UNCHANGED <<draining, linkVars, queueVars, pubpc, closepc, registered, batch, retries,
                 back, auxVars>>

\* dbConnect makes a handler if there is none, and pings.
Dial ==
  /\ wpc = "dial"
  /\ handler' = IF handler = "nil" THEN "live" ELSE handler
  /\ wpc' = "ping"
  /\ UNCHANGED <<draining, connected, queueVars, pubpc, closepc, registered, batch, retries,
                 back, auxVars>>

\* A stopped handler fails the ping.  After a failure the handler is dropped.
Ping ==
  /\ wpc = "ping"
  /\ \/ /\ Reachable
        /\ connected' = TRUE /\ wpc' = "register"
        /\ UNCHANGED handler
     \/ /\ connected' = FALSE /\ wpc' = "loop"
        /\ handler' = "nil"
  /\ UNCHANGED <<draining, queueVars, pubpc, closepc, registered, batch, retries, back,
                 auxVars>>

\* startPublish registers with the WaitGroup.
Register ==
  /\ wpc = "register"
  /\ registered' = TRUE /\ wpc' = "top"
  /\ UNCHANGED <<draining, linkVars, queueVars, pubpc, closepc, batch, retries, back, auxVars>>
-----------------------------------------------------------------------------
(* startPublish                                                              *)

\* Each turn looks at draining first, then at connected (and draining again).
TopTurn ==
  /\ wpc = "top"
  /\ wpc' = IF draining THEN "drain" ELSE "link"
  /\ UNCHANGED <<draining, linkVars, queueVars, pubpc, closepc, registered, batch, retries,
                 back, auxVars>>

Bug_AfterLink == IF ~connected THEN "leave" ELSE "take"
AfterLink == IF ~connected /\ ~draining THEN "leave" ELSE "take"

LinkTurn ==
  /\ wpc = "link"
  /\ wpc' = AfterLink
  /\ UNCHANGED <<draining, linkVars, queueVars, pubpc, closepc, registered, batch, retries,
                 back, auxVars>>

\* PublishArray is called with the first n messages of the queue.
Begin(n, ret) ==
  /\ batch' = Taken(queue, n) /\ queue' = Left(queue, n)
  /\ retries' = 0 /\ back' = ret /\ wpc' = "publish"

Take ==
  /\ wpc = "take"
  /\ \/ queue # << >> /\ Begin(BatchSize, "top")
     \/ /\ queue = << >>
        /\ wpc' = IF qclosed THEN "leave" ELSE "top"
        /\ UNCHANGED <<queue, batch, retries, back>>
  /\ UNCHANGED <<draining, linkVars, qclosed, accepted, pubpc, closepc, registered, auxVars>>

\* Draining: everything that is left, until nothing is.
Drain ==
  /\ wpc = "drain"
  /\ \/ queue # << >> /\ Begin(QueueSize, "drain")
     \/ /\ queue = << >>
        /\ wpc' = "leave"
        /\ UNCHANGED <<queue, batch, retries, back>>
  /\ UNCHANGED <<draining, linkVars, qclosed, accepted, pubpc, closepc, registered, sent,
                 echoes, dropped, owed>>

\* The positions of some of n messages, in order.
Picks(n) ==
  {p \in UNION {[1 .. k -> 1 .. n] : k \in 0 .. n} :
     \A i, j \in DOMAIN p : i < j => p[i] < p[j]}

\* An attempt publishes the whole batch, or some of it (in order) and fails.
Done == batch' = << >> /\ wpc' = back

\* A failed attempt outside draining marks the link broken.
Publish ==
  /\ wpc = "publish"
  /\ \/ /\ Reachable
        /\ sent' = sent \o batch
        /\ Done
        /\ UNCHANGED <<connected, echoes>>
     \/ /\ wpc' = "failed"
        /\ connected' = (connected /\ draining)
        /\ \E p \in Picks(Len(batch)) :
             /\ p # << >> => Reachable /\ echoes < MaxEchoes
             /\ sent' = sent \o [i \in 1 .. Len(p) |-> batch[p[i]]]
             /\ echoes' = IF p = << >> THEN echoes ELSE echoes + 1
        /\ UNCHANGED batch
  /\ UNCHANGED <<draining, handler, queueVars, pubpc, closepc, registered, retries, back,
                 dropped, owed>>

\* While draining the batch is dropped after the last retry; else it is tried
\* again after a pause, for ever.
GivesUp == draining /\ retries + 1 >= MaxDrainRetries

Bug_PublishFailed ==
  /\ wpc = "failed"
  /\ retries' = retries + 1
  /\ IF retries' >= MaxDrainRetries
       THEN Done
       ELSE wpc' = "publish" /\ UNCHANGED batch
  /\ UNCHANGED <<draining, linkVars, queueVars, pubpc, closepc, registered, back, sent,
                 echoes, dropped, owed>>
Bug_RetryForever ==
  /\ wpc = "failed"
  /\ wpc' = "publish"
  /\ UNCHANGED <<draining, linkVars, queueVars, pubpc, closepc, registered, batch, retries,
                 back, sent, echoes, dropped, owed>>
PublishFailed ==
  /\ wpc = "failed"
  /\ retries' = IF draining THEN retries + 1 ELSE retries
  /\ IF GivesUp
       THEN Done /\ dropped' = TRUE
       ELSE wpc' = "publish" /\ UNCHANGED <<batch, dropped>>
  /\ UNCHANGED <<draining, linkVars, queueVars, pubpc, closepc, registered, back, sent,
                 echoes, owed>>

Leave ==
  /\ wpc = "leave"
  /\ registered' = FALSE /\ wpc' = "loop"
  /\ UNCHANGED <<draining, linkVars, queueVars, pubpc, closepc, batch, retries, back, auxVars>>

Terminating ==
  /\ closepc = "panicked" \/ (closepc = "returned" /\ wpc = "exited")
  /\ UNCHANGED vars

Work == LoopTurn \/ Dial \/ Ping \/ Register \/ TopTurn \/ LinkTurn \/ Take \/ Drain
          \/ Publish \/ PublishFailed \/ Leave
Closer ==
  CloseDisconnect \/ CloseWait \/ CloseQueue \/ CloseTest \/ CloseStop \/ CloseCancel

\* A panic ends the process.
Running ==
  /\ closepc # "panicked"
  /\ PublishCheck \/ PublishEnqueue \/ CloseCall \/ Closer \/ StartCall \/ Work

Next == Running \/ Terminating

Spec == Init /\ [][Next]_vars

(* Both goroutines run; the calls of the Redis client return.                *)
FairSpec == Spec /\ WF_vars(Running /\ Work) /\ WF_vars(Running /\ Closer)
-----------------------------------------------------------------------------
TypeOK ==
  /\ {draining, connected, qclosed, registered, dropped} \subseteq BOOLEAN
  /\ handler \in {"live", "stopped", "nil"}
  /\ accepted \in 0 .. MaxMessages /\ echoes \in 0 .. MaxEchoes
  /\ owed \in 0 .. accepted
  /\ queue \in Seq(1 .. accepted) /\ Len(queue) <= QueueSize
  /\ batch \in Seq(1 .. accepted) /\ Len(batch) <= QueueSize
  /\ sent \in Seq(1 .. accepted)
  /\ retries \in 0 .. MaxDrainRetries /\ back \in {"top", "drain"}
  /\ pubpc \in {"idle", "enqueue"}
  /\ closepc \in {"idle", "disconnect", "wait", "queue", "test", "stop", "cancel", "returned",
                  "panicked"}
  /\ wpc \in {"off", "loop", "dial", "ping", "register", "top", "link", "take", "drain",
              "publish", "failed", "leave", "exited"}

(* The publisher keeps the promise of Outbox with a batch as the window: a   *)
(* retried batch may repeat and reorder messages, but only within itself,    *)
(* and none is dropped before Close (pub.go:241-280).                        *)
Promise == INSTANCE Outbox WITH
  Window  <- QueueSize,
  settled <- accepted - Len(queue) - Len(batch),
  closing <- draining
KeepsPromise == Promise!Spec

(* What was accepted before Close found the publisher connected is sent when *)
(* Close goes on, unless a batch was dropped after its retries               *)
(* (pub.go:96-101, 206-220).                                                 *)
DrainKeepsEarlier ==
  closepc \notin {"idle", "disconnect", "wait"} /\ ~dropped
    => \A k \in 1 .. owed : k \in Elements(sent)

(* Close goes on to its end, whatever Redis does: the retries of a draining  *)
(* publisher are bounded (pub.go:270-276).  It may panic on a handler that   *)
(* dbConnect drops between the two reads of Close (pub.go:104-105, 184), but *)
(* only if the loop was still dialling when Close began: a publishing loop   *)
(* that Close finds, or that registers beside it, dials no more.             *)
CloseReturns ==
  /\ (closepc = "wait") ~> (closepc \in {"returned", "panicked"})
  /\ (draining /\ registered) ~> (closepc = "returned")
=============================================================================
