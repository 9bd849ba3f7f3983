---------------------------- MODULE NatsJetStream ----------------------------
(* natsmq/nats_jetstream.go: what a NatsJetStreamClient adds to NatsClient,  *)
(* and the durable consumer the server keeps for it across restarts of the   *)
(* program.  A client that publishes and one that consumes share nothing but *)
(* the connection and Start and Close: a behaviour has one or the other.     *)
(*                                                                           *)
(* Messages of the stream are numbered in the order of their timestamps.     *)
EXTENDS NatsClient

CONSTANTS
  StreamEnd,      \* messages 1 .. StreamEnd are in the stream
  Prefetch,       \* bound on the deliveries that wait in the client
  MaxRestarts,    \* bound on the restarts of the program
  MaxSent         \* bound on the messages stored although their sender saw an error

ASSUME JetStreamAssumption ==
  StreamEnd \in Nat /\ Prefetch \in Nat \ {0} /\ MaxRestarts \in Nat /\ MaxSent \in Nat

Offset == 1 .. StreamEnd

VARIABLES
  consumer,       \* the first message of the durable consumer; 0: there is none
  acked,          \* messages acknowledged to it
  subscribed,     \* the client's subscription to it
  pending,        \* deliveries that wait for the handler
  hpc,            \* the goroutine that calls the handler
  handled,        \* messages the application has handled
  first,          \* the first message of the consumer made first
  restarts

serverVars  == <<consumer, acked, first>>
deliverVars == <<subscribed, pending, hpc, handled>>
jsVars == <<serverVars, deliverVars, restarts>>
vars == <<clientVars, jsVars>>

Init ==
  /\ ClientInit /\ role \in {"core", "js", "consumer"}
  /\ consumer = 0 /\ acked = {} /\ first = 0 /\ restarts = 0
  /\ subscribed = FALSE /\ pending = << >> /\ hpc = "idle" /\ handled = {}

JetStream == role # "core"
-----------------------------------------------------------------------------
(* Start                                                                     *)

JsConnect ==
  /\ JetStream /\ Connects("upsert")
  /\ UNCHANGED jsVars

\* The stream is made or updated.  A failure ends Start but not the
\* connection, which a next Start forgets.
UpsertJetstream ==
  /\ startpc = "upsert"
  /\ startpc' \in {"check", "idle"}
  /\ UNCHANGED <<lifeVars, linkVars, queueVars, pipeVars, jsVars>>

\* A failure of syncSubscriptions closes the connection.
SyncFails ==
  /\ JetStream /\ startpc \in {"sync", "subscribe"}
  /\ startpc' = "idle" /\ Closing(conn)
  /\ UNCHANGED <<lifeVars, connected, conn, conns, losses, queueVars, pipeVars, jsVars>>

\* The consumer is made to begin at the timestamp this client was given, or at
\* the first message; an existing one is taken as it is.
Bug_UpsertConsumer ==
  /\ role = "consumer" /\ startpc = "sync" /\ link[conn] = "up"
  /\ startpc' = "subscribe"
  /\ consumer' \in Offset
  /\ first' = IF first = 0 THEN consumer' ELSE first
  /\ UNCHANGED <<lifeVars, linkVars, queueVars, pipeVars, acked, deliverVars, restarts>>
UpsertConsumer ==
  /\ role = "consumer" /\ startpc = "sync" /\ link[conn] = "up"
  /\ startpc' = "subscribe"
  /\ consumer' \in IF consumer = 0 THEN Offset ELSE {consumer}
  /\ first' = IF first = 0 THEN consumer' ELSE first
  /\ UNCHANGED <<lifeVars, linkVars, queueVars, pipeVars, acked, deliverVars, restarts>>

JsSubscribe ==
  /\ startpc = "subscribe" /\ link[conn] = "up"
  /\ startpc' = "pipe" /\ subscribed' = TRUE
  /\ UNCHANGED <<lifeVars, linkVars, queueVars, pipeVars, serverVars, pending, hpc,
                 handled, restarts>>
-----------------------------------------------------------------------------
(* The drain pipe waits for the server's acknowledgement of each message.    *)

\* The acknowledgement comes; or an error, which may hide a message that the
\* server has stored.
PublishData ==
  /\ role = "js" /\ wpc = "publish"
  /\ \/ link[conn] = "up" /\ PipeSent
     \/ PipeError
     \/ /\ link[conn] = "up" /\ Len(sent) < MaxSent
        /\ sent' = Append(sent, Head(batch)) /\ wpc' = "failed"
        /\ UNCHANGED batch
  /\ UNCHANGED <<lifeVars, startpc, linkVars, queueVars, jsVars>>
-----------------------------------------------------------------------------
(* Deliveries                                                                *)

Receiving == subscribed /\ link[conn] = "up"

\* The server delivers a message until it is acknowledged.
Deliver(o) ==
  /\ Receiving /\ o >= consumer /\ o \notin acked /\ Len(pending) < Prefetch
  /\ pending' = Append(pending, o)
  /\ UNCHANGED <<clientVars, serverVars, subscribed, hpc, handled, restarts>>

\* The handler of the application is called while the connection is not
\* closed; then its message is the head of pending.
HandlerCall ==
  /\ hpc = "idle" /\ pending # << >> /\ link[conn] # "closed"
  /\ hpc' = "handle"
  /\ UNCHANGED <<clientVars, serverVars, subscribed, pending, handled, restarts>>

\* An acknowledgement is lost, or is written to a connection not closed.
Acked(o) ==
  acked' \in IF link[conn] = "closed" THEN {acked} ELSE {acked, acked \cup {o}}

\* The application acknowledges what it is handling itself (NatsMessage.Ack).
Ack ==
  /\ hpc = "handle"
  /\ handled' = handled \cup {Head(pending)}
  /\ Acked(Head(pending))
  /\ UNCHANGED <<clientVars, consumer, first, subscribed, pending, hpc, restarts>>

HandlerReturn ==
  /\ hpc = "handle"
  /\ hpc' = "ack" /\ handled' = handled \cup {Head(pending)}
  /\ UNCHANGED <<clientVars, serverVars, subscribed, pending, restarts>>

\* natsHandler acknowledges in the native mode, and nats.go in either mode.
HandlerAck ==
  /\ hpc = "ack"
  /\ hpc' = "idle" /\ pending' = Tail(pending)
  /\ Acked(Head(pending))
  /\ UNCHANGED <<clientVars, consumer, first, subscribed, handled, restarts>>

\* Close drains the subscription: nothing more is delivered.
JsCloseCall ==
  /\ CloseCall
  /\ subscribed' = FALSE
  /\ UNCHANGED <<serverVars, pending, hpc, handled, restarts>>

\* The program ends, by itself or in a crash, and starts again; before there
\* is a consumer that is a first start.
Restart ==
  /\ consumer # 0 /\ restarts < MaxRestarts
  /\ restarts' = restarts + 1
  /\ ClientReset
  /\ subscribed' = FALSE /\ pending' = << >> /\ hpc' = "idle"
  /\ UNCHANGED <<serverVars, handled>>

Terminating ==
  /\ closepc = "returned" /\ wpc \in {"off", "exited"} /\ hpc = "idle"
  /\ UNCHANGED vars

Handler == HandlerCall \/ Ack \/ HandlerReturn \/ HandlerAck

Next ==
  \/ ClientStep /\ UNCHANGED jsVars
  \/ JsConnect \/ UpsertJetstream \/ SyncFails \/ UpsertConsumer \/ JsSubscribe
  \/ PublishData
  \/ \E o \in Offset : Deliver(o)
  \/ Handler \/ JsCloseCall \/ Restart \/ Terminating

Spec == Init /\ [][Next]_vars

Sends == ((CorePublish /\ UNCHANGED jsVars) \/ PublishData) /\ batch' = Tail(batch)

(* The goroutines of Close and of the drain pipe run, and nats.go's for the  *)
(* callbacks; a message that is offered again and again is taken in the end. *)
FairSpec ==
  /\ Spec
  /\ WF_vars(Closer /\ UNCHANGED jsVars)
  /\ WF_vars((Pipe /\ UNCHANGED jsVars) \/ PublishData)
  /\ WF_vars(\E c \in Conns : Callback(c) /\ UNCHANGED jsVars)
  /\ SF_vars(Sends)
-----------------------------------------------------------------------------
TypeOK ==
  /\ ClientTypeOK
  /\ consumer \in 0 .. StreamEnd + 1
  /\ first \in 0 .. StreamEnd + 1
  /\ acked \subseteq Offset /\ handled \subseteq Offset
  /\ subscribed \in BOOLEAN /\ restarts \in 0 .. MaxRestarts
  /\ pending \in Seq(Offset) /\ Len(pending) <= Prefetch
  /\ hpc \in {"idle", "handle", "ack"}

(* The client keeps the promise of Outbox, one message at a time             *)
(* (nats_core.go:252-288, nats_jetstream.go:271-307).                        *)
Promise == INSTANCE Outbox WITH
  Window  <- 1,
  settled <- accepted - Len(queue) - Len(batch),
  closing <- draining \/ restarts > 0
KeepsPromise == Promise!Spec

(* After Close the drain pipe leaves, even if Close did not wait for it, or  *)
(* ran while Start was still connecting (nats_core.go:109-143, 252-283).     *)
PipeLeaves == draining ~> (wpc \in {"off", "exited"} \/ ~draining)

(* A message accepted is sent, as long as the client goes on believing in    *)
(* its connection; late callbacks, those of a connection that an earlier     *)
(* Start left behind too, only delay it (nats_core.go:83-86, 252-288).       *)
Delivers ==
  <>[](startpc = "returned" /\ connected /\ link[conn] = "up" /\ ~cancelled)
    => \A m \in 1 .. MaxMessages :
         accepted >= m ~> accepted - Len(queue) - Len(batch) >= m

(* From the first message of the first consumer on nothing is skipped: a     *)
(* message is handled, or will be delivered, whatever position a restarted   *)
(* program asks for (nats_jetstream.go:435-455, 329-347).                    *)
NothingSkipped ==
  \A o \in Offset :
    first # 0 /\ o >= first => o \in handled \/ (o >= consumer /\ o \notin acked)
=============================================================================
