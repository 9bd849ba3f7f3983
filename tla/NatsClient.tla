----------------------------- MODULE NatsClient -----------------------------
(* natsmq/nats_core.go over nats.go: the part of a NatsCoreClient that a     *)
(* NatsJetStreamClient repeats word for word (see NatsJetStream): Start,     *)
(* Close, Publish, the goroutine of startDrainPipe, and the connections.     *)
(*                                                                           *)
(* nats.go connects again by itself.  It tells the client of the first       *)
(* connection and of every loss, in order, on a goroutine of its own; of a   *)
(* reconnection it tells nobody, as the client gives no ReconnectHandler.    *)
(* A Start that fails may be called again, with a connection of its own.     *)
EXTENDS Naturals, Sequences, LockedRingBuffer

CONSTANTS
  QueueSize,      \* capacity of the queue
  MaxMessages,    \* bound on the accepted messages
  MaxConns,       \* bound on the connections made by Start
  MaxLosses       \* bound on the losses of a connection

ASSUME NatsAssumption ==
  QueueSize \in Nat \ {0} /\ MaxMessages \in Nat /\ MaxConns \in Nat /\ MaxLosses \in Nat

VARIABLES
  role,           \* a "core" or a "js" client that publishes, or a js "consumer"
  draining,       \* set by Close
  cancelled,      \* the context
  startpc,        \* Start; "idle" when it may be called (again)
  closepc,        \* Close
  connected,      \* what the client believes of the connection
  conn,           \* its connection; 0: none
  conns,          \* number of connections made
  link,           \* of each connection: "none", "up", "down" (reconnecting), "closed"
  events,         \* of each connection: the callbacks that have not run yet
  losses,
  queue,
  qclosed,
  accepted,       \* number of messages the queue took
  pubpc,          \* a caller of Publish
  wpc,            \* the drain pipe
  batch,          \* the messages it took and is not done with
  sent            \* messages nats.go took, in order

lifeVars  == <<role, draining, cancelled, closepc>>
linkVars  == <<connected, conn, conns, link, events, losses>>
queueVars == <<queue, qclosed, accepted, pubpc>>
pipeVars  == <<wpc, batch, sent>>
clientVars == <<lifeVars, startpc, linkVars, queueVars, pipeVars>>

Conns == 1 .. MaxConns

ClientInit ==
  /\ draining = FALSE /\ cancelled = FALSE /\ startpc = "idle" /\ closepc = "idle"
  /\ connected = FALSE /\ conn = 0 /\ conns = 0 /\ losses = 0
  /\ link = [c \in Conns |-> "none"] /\ events = [c \in Conns |-> << >>]
  /\ queue = << >> /\ qclosed = FALSE /\ accepted = 0 /\ pubpc = "idle"
  /\ wpc = "off" /\ batch = << >> /\ sent = << >>

\* Another program, another client.
ClientReset ==
  /\ draining' = FALSE /\ cancelled' = FALSE /\ startpc' = "idle" /\ closepc' = "idle"
  /\ connected' = FALSE /\ conn' = 0 /\ conns' = 0 /\ losses' = 0
  /\ link' = [c \in Conns |-> "none"] /\ events' = [c \in Conns |-> << >>]
  /\ queue' = << >> /\ qclosed' = FALSE /\ accepted' = 0 /\ pubpc' = "idle"
  /\ wpc' = "off" /\ batch' = << >> /\ sent' = << >>
  /\ UNCHANGED role
-----------------------------------------------------------------------------
(* Publish                                                                   *)

PublishCheck ==
  /\ role # "consumer" /\ pubpc = "idle" /\ ~draining /\ conn # 0
  /\ pubpc' = "enqueue"
  /\ UNCHANGED <<lifeVars, startpc, linkVars, queue, qclosed, accepted, pipeVars>>

PublishEnqueue ==
  /\ pubpc = "enqueue"
  /\ \/ /\ Accepts(queue, qclosed, QueueSize) /\ accepted < MaxMessages
        /\ accepted' = accepted + 1
        /\ queue' = Append(queue, accepted + 1)
     \/ /\ qclosed
        /\ UNCHANGED <<queue, accepted>>
  /\ pubpc' = "idle"
  /\ UNCHANGED <<lifeVars, startpc, linkVars, qclosed, pipeVars>>
-----------------------------------------------------------------------------
(* Start.  A Connect that fails leaves no trace.                             *)

\* nats.go reports an event of c.  The callbacks of a consumer are left out:
\* they set connected, which only the sending of messages looks at.
Reports(c, event) ==
  events' = IF role = "consumer" THEN events ELSE [events EXCEPT ![c] = Append(@, event)]

Connects(next) ==
  /\ startpc = "idle" /\ conns < MaxConns
  /\ startpc' = next
  /\ conns' = conns + 1 /\ conn' = conns + 1
  /\ link' = [link EXCEPT ![conns + 1] = "up"]
  /\ Reports(conns + 1, "connect")
  /\ UNCHANGED <<lifeVars, connected, losses, queueVars, pipeVars>>

CoreConnect == role = "core" /\ Connects("check")

\* Start asks nats.go whether it is connected...
StartCheck ==
  /\ startpc = "check"
  /\ startpc' = IF link[conn] = "up" THEN "store" ELSE "sync"
  /\ UNCHANGED <<lifeVars, linkVars, queueVars, pipeVars>>

\* ...and says so, whatever callback ran in between.
StartStore ==
  /\ startpc = "store"
  /\ startpc' = "sync" /\ connected' = TRUE
  /\ UNCHANGED <<lifeVars, conn, conns, link, events, losses, queueVars, pipeVars>>

\* A topic that cannot be subscribed is logged and passed over.  What is
\* delivered is followed for a consumer only.
CoreSync ==
  /\ role # "consumer" /\ startpc = "sync"
  /\ startpc' = "pipe"
  /\ UNCHANGED <<lifeVars, linkVars, queueVars, pipeVars>>

StartDrainPipe ==
  /\ startpc = "pipe"
  /\ startpc' = "returned" /\ wpc' = "take"
  /\ UNCHANGED <<lifeVars, linkVars, queueVars, batch, sent>>
-----------------------------------------------------------------------------
(* Close.  The subscriptions drain on goroutines of nats.go.                 *)

CloseCall ==
  /\ closepc = "idle"
  /\ closepc' = "queue" /\ draining' = TRUE
  /\ UNCHANGED <<role, cancelled, startpc, linkVars, queueVars, pipeVars>>

\* The wait for the drain pipe is over when it has left, or after twenty
\* seconds.
Bug_CloseQueue ==
  /\ closepc = "queue"
  /\ closepc' = "conn"
  /\ UNCHANGED <<role, draining, cancelled, startpc, linkVars, queueVars, pipeVars>>
CloseQueue ==
  /\ closepc = "queue"
  /\ closepc' = "conn" /\ qclosed' = TRUE
  /\ UNCHANGED <<role, draining, cancelled, startpc, linkVars, queue, accepted, pubpc, pipeVars>>

\* conn.Close: a loss that nats.go reports like the others.
Closing(c) ==
  /\ link' = [link EXCEPT ![c] = "closed"]
  /\ IF link[c] = "closed" THEN UNCHANGED events ELSE Reports(c, "disconnect")

\* The connection is drained and, without waiting for that, closed.
CloseConn ==
  /\ closepc = "conn"
  /\ closepc' = "cancel"
  /\ IF conn = 0 THEN UNCHANGED <<link, events>> ELSE Closing(conn)
  /\ UNCHANGED <<role, draining, cancelled, startpc, connected, conn, conns, losses, queueVars,
                 pipeVars>>

CloseCancel ==
  /\ closepc = "cancel"
  /\ closepc' = "returned" /\ cancelled' = TRUE
  /\ UNCHANGED <<role, draining, startpc, linkVars, queueVars, pipeVars>>

\* The owner of the parent context cancels it without calling Close.  Only the
\* messages of the drain pipe depend on it.
ParentCancel ==
  /\ role # "consumer" /\ ~cancelled
  /\ cancelled' = TRUE
  /\ UNCHANGED <<role, draining, closepc, startpc, linkVars, queueVars, pipeVars>>
-----------------------------------------------------------------------------
(* The connections and their callbacks                                       *)

LinkLost(c) ==
  /\ link[c] = "up" /\ losses < MaxLosses
  /\ losses' = losses + 1
  /\ link' = [link EXCEPT ![c] = "down"]
  /\ Reports(c, "disconnect")
  /\ UNCHANGED <<lifeVars, startpc, connected, conn, conns, queueVars, pipeVars>>

\* nats.go reconnects, or has tried often enough and closes the connection.
LinkEnds(c) ==
  /\ link[c] = "down"
  /\ \/ link' = [link EXCEPT ![c] = "up"]
     \/ link' = [link EXCEPT ![c] = "closed"]
  /\ UNCHANGED <<lifeVars, startpc, connected, conn, conns, events, losses, queueVars, pipeVars>>

\* ConnectHandler and DisconnectHandler
Callback(c) ==
  /\ events[c] # << >>
  /\ connected' = (Head(events[c]) = "connect")
  /\ events' = [events EXCEPT ![c] = Tail(@)]
  /\ UNCHANGED <<lifeVars, startpc, conn, conns, link, losses, queueVars, pipeVars>>
-----------------------------------------------------------------------------
(* The drain pipe                                                            *)

\* DequeueTo sleeps until there are messages, or none will come.
PipeTake ==
  /\ wpc = "take"
  /\ \/ /\ queue # << >>
        /\ batch' = Taken(queue, QueueSize) /\ queue' = Left(queue, QueueSize)
        /\ wpc' = "check"
     \/ /\ Drained(queue, qclosed)
        /\ wpc' = "exited"
        /\ UNCHANGED <<queue, batch>>
  /\ UNCHANGED <<lifeVars, startpc, linkVars, qclosed, accepted, pubpc, sent>>

PipeCheck ==
  /\ wpc = "check"
  /\ wpc' = IF cancelled THEN "exited" ELSE IF connected THEN "publish" ELSE "failed"
  /\ UNCHANGED <<lifeVars, startpc, linkVars, queueVars, batch, sent>>

\* nats.go took the message.
Bug_PipeSent ==
  /\ batch' = Tail(batch)
  /\ wpc' = IF Len(batch) = 1 THEN "take" ELSE "check"
  /\ sent' \in {sent, Append(sent, Head(batch))}
PipeSent ==
  /\ sent' = Append(sent, Head(batch))
  /\ batch' = Tail(batch)
  /\ wpc' = IF Len(batch) = 1 THEN "take" ELSE "check"

\* An error; that of a closed connection ends a draining pipe.
PipeError ==
  /\ wpc' = IF draining /\ link[conn] = "closed" THEN "exited" ELSE "failed"
  /\ UNCHANGED <<batch, sent>>

\* While nats.go reconnects it keeps messages in a buffer that may be full.
CorePublish ==
  /\ role = "core" /\ wpc = "publish"
  /\ (link[conn] # "closed" /\ PipeSent) \/ PipeError
  /\ UNCHANGED <<lifeVars, startpc, linkVars, queueVars>>

\* Without a connection a draining pipe gives up what it has; else a pause.
Bug_PipeFailed ==
  /\ wpc = "failed"
  /\ wpc' = IF ~connected THEN "exited" ELSE "check"
  /\ UNCHANGED <<lifeVars, startpc, linkVars, queueVars, batch, sent>>
PipeFailed ==
  /\ wpc = "failed"
  /\ wpc' = IF draining /\ ~connected THEN "exited" ELSE "check"
  /\ UNCHANGED <<lifeVars, startpc, linkVars, queueVars, batch, sent>>

Starter == StartCheck \/ StartStore \/ CoreSync \/ StartDrainPipe
Closer == CloseQueue \/ CloseConn \/ CloseCancel
Pipe == PipeTake \/ PipeCheck \/ CorePublish \/ PipeFailed

\* What a client of either kind does; CloseCall is completed in NatsJetStream.
ClientStep ==
  \/ PublishCheck \/ PublishEnqueue \/ CoreConnect \/ Starter
  \/ Closer \/ ParentCancel
  \/ \E c \in Conns : LinkLost(c) \/ LinkEnds(c) \/ Callback(c)
  \/ Pipe
-----------------------------------------------------------------------------
ClientTypeOK ==
  /\ role \in {"core", "js", "consumer"}
  /\ {draining, cancelled, connected, qclosed} \subseteq BOOLEAN
  /\ startpc \in {"idle", "upsert", "check", "store", "sync", "subscribe", "pipe", "returned"}
  /\ closepc \in {"idle", "queue", "conn", "cancel", "returned"}
  /\ conns \in 0 .. MaxConns /\ conn \in 0 .. conns /\ losses \in 0 .. MaxLosses
  /\ link \in [Conns -> {"none", "up", "down", "closed"}]
  /\ events \in [Conns -> Seq({"connect", "disconnect"})]
  /\ accepted \in 0 .. MaxMessages
  /\ queue \in Seq(1 .. accepted) /\ Len(queue) <= QueueSize
  /\ batch \in Seq(1 .. accepted) /\ Len(batch) <= QueueSize
  /\ sent \in Seq(1 .. accepted)
  /\ pubpc \in {"idle", "enqueue"}
  /\ wpc \in {"off", "take", "check", "publish", "failed", "exited"}
=============================================================================
