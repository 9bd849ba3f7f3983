----------------------------- MODULE MqttClient -----------------------------
(* mqtt/mqtt_client.go over paho: an MqttClient, a caller of each of Start,  *)
(* Close and Publish, the goroutine of startDrainPipe, and the connection.   *)
(*                                                                           *)
(* paho keeps the connection: it dials again for ever, until Disconnect.  It *)
(* tells the client of each connection and of each loss on a goroutine of    *)
(* its own, so the client may learn of them late and out of order.           *)
EXTENDS Naturals, Sequences, LockedRingBuffer

CONSTANTS
  QueueSize,      \* capacity of the queue
  MaxMessages,    \* bound on the accepted messages
  MaxEchoes,      \* bound on the attempts that time out although paho has the message
  MaxLinks        \* bound on the connections

ASSUME MqttAssumption ==
  QueueSize \in Nat \ {0} /\ MaxMessages \in Nat /\ MaxEchoes \in Nat /\ MaxLinks \in Nat

VARIABLES
  draining,       \* set by Close
  ctxDone,        \* the context is cancelled
  connected,      \* what the client believes of the connection
  link,           \* paho: "none", "down" (dialling), "up", "closed" (Disconnect)
  links,          \* number of connections made, the number of the last one
  ups,            \* connections whose OnConnect has not run yet
  subs,           \* connections whose OnConnect is about to subscribe
  losts,          \* connections whose OnConnectionLost has not run yet
  subscribed,     \* the broker has the subscriptions
  refused,        \* it refused them on the present connection
  queue,
  qclosed,
  accepted,       \* number of messages the queue took
  pubpc,          \* a caller of Publish
  startpc,        \* Start
  closepc,        \* Close
  registered,     \* the drain pipe is in the WaitGroup
  wpc,            \* the drain pipe
  batch,          \* the messages it took and is not done with
  sent,           \* messages paho took, in order
  echoes          \* attempts that timed out although paho had the message

lifeVars  == <<draining, ctxDone, startpc, closepc>>
linkVars  == <<connected, link, links, ups, subs, losts, subscribed, refused>>
queueVars == <<queue, qclosed, accepted, pubpc>>
pipeVars  == <<registered, wpc, batch, sent, echoes>>
vars == <<lifeVars, linkVars, queueVars, pipeVars>>

Init ==
  /\ draining = FALSE /\ ctxDone = FALSE /\ startpc = "idle" /\ closepc = "idle"
  /\ connected = FALSE /\ link = "none" /\ links = 0
  /\ ups = {} /\ subs = {} /\ losts = {} /\ subscribed = FALSE /\ refused = FALSE
  /\ queue = << >> /\ qclosed = FALSE /\ accepted = 0 /\ pubpc = "idle"
  /\ registered = FALSE /\ wpc = "off" /\ batch = << >> /\ sent = << >> /\ echoes = 0
-----------------------------------------------------------------------------
(* Publish looks at draining and for a client, then enqueues; a full queue   *)
(* makes it wait, a closed one refuses.                                      *)

PublishCheck ==
  /\ pubpc = "idle" /\ ~draining /\ link # "none"
  /\ pubpc' = "enqueue"
  /\ UNCHANGED <<lifeVars, linkVars, queue, qclosed, accepted, pipeVars>>

PublishEnqueue ==
  /\ pubpc = "enqueue"
  /\ \/ /\ Accepts(queue, qclosed, QueueSize) /\ accepted < MaxMessages
        /\ accepted' = accepted + 1
        /\ queue' = Append(queue, accepted + 1)
     \/ /\ qclosed
        /\ UNCHANGED <<queue, accepted>>
  /\ pubpc' = "idle"
  /\ UNCHANGED <<lifeVars, linkVars, qclosed, pipeVars>>
-----------------------------------------------------------------------------
(* Start, which runs once                                                    *)

\* The certificates may be unreadable; else a client is made and dials.
StartCall ==
  /\ startpc = "idle"
  /\ \/ startpc' = "failed" /\ UNCHANGED link
     \/ startpc' = "connecting" /\ link' = "down"
  /\ UNCHANGED <<draining, ctxDone, closepc, connected, links, ups, subs, losts, subscribed,
                 refused, queueVars, pipeVars>>

\* Connect's token completes with the first connection, or with Disconnect.
StartConnected ==
  /\ startpc = "connecting" /\ (links > 0 \/ link = "closed")
  /\ startpc' = "pipe"
  /\ UNCHANGED <<draining, ctxDone, closepc, linkVars, queueVars, pipeVars>>

StartDrainPipe ==
  /\ startpc = "pipe"
  /\ startpc' = "returned" /\ registered' = TRUE /\ wpc' = "take"
  /\ UNCHANGED <<draining, ctxDone, closepc, linkVars, queueVars, batch, sent, echoes>>
-----------------------------------------------------------------------------
(* Close                                                                     *)

CloseCall ==
  /\ closepc = "idle"
  /\ closepc' = "unsubscribe" /\ draining' = TRUE
  /\ UNCHANGED <<ctxDone, startpc, linkVars, queueVars, pipeVars>>

\* If the client believes in its connection it unsubscribes, which may fail.
CloseUnsubscribe ==
  /\ closepc = "unsubscribe"
  /\ closepc' = "queue"
  /\ \/ connected /\ link = "up" /\ subscribed' = FALSE
     \/ UNCHANGED subscribed
  /\ UNCHANGED <<draining, ctxDone, startpc, connected, link, links, ups, subs, losts,
                 refused, queueVars, pipeVars>>

CloseQueue ==
  /\ closepc = "queue"
  /\ closepc' = "wait" /\ qclosed' = TRUE
  /\ UNCHANGED <<draining, ctxDone, startpc, linkVars, queue, accepted, pubpc, pipeVars>>

\* wg.Wait returns, or twenty seconds have passed.
CloseWait ==
  /\ closepc = "wait"
  /\ closepc' = "disconnect"
  /\ UNCHANGED <<draining, ctxDone, startpc, linkVars, queueVars, pipeVars>>

\* Disconnect ends the dialling too; it is not a loss: OnConnectionLost is not
\* called.
CloseDisconnect ==
  /\ closepc = "disconnect"
  /\ closepc' = "cancel"
  /\ link' = IF link = "none" THEN "none" ELSE "closed"
  /\ subscribed' = FALSE
  /\ UNCHANGED <<draining, ctxDone, startpc, connected, links, ups, subs, losts, refused,
                 queueVars, pipeVars>>

CloseCancel ==
  /\ closepc = "cancel"
  /\ closepc' = "returned" /\ ctxDone' = TRUE
  /\ UNCHANGED <<draining, startpc, linkVars, queueVars, pipeVars>>

\* The owner of the parent context cancels it without calling Close.
ParentCancel ==
  /\ ~ctxDone
  /\ ctxDone' = TRUE
  /\ UNCHANGED <<draining, startpc, closepc, linkVars, queueVars, pipeVars>>
-----------------------------------------------------------------------------
(* The connection and its callbacks                                          *)

LinkUp ==
  /\ link = "down" /\ links < MaxLinks
  /\ link' = "up" /\ links' = links + 1 /\ ups' = ups \cup {links + 1}
  /\ refused' = FALSE
  /\ UNCHANGED <<lifeVars, connected, subs, losts, subscribed, queueVars, pipeVars>>

\* Whether the broker keeps the subscriptions depends on the session.
LinkLost ==
  /\ link = "up"
  /\ link' = "down" /\ losts' = losts \cup {links}
  /\ subscribed' \in {subscribed, FALSE}
  /\ UNCHANGED <<lifeVars, connected, links, ups, subs, refused, queueVars, pipeVars>>

\* The handler of OnConnect marks the client connected...
Bug_OnConnect(c) ==
  /\ c \in ups
  /\ connected' = TRUE /\ ups' = ups \ {c}
  /\ subs' = IF c = 1 THEN subs \cup {c} ELSE subs
  /\ UNCHANGED <<lifeVars, link, links, losts, subscribed, refused, queueVars, pipeVars>>
OnConnect(c) ==
  /\ c \in ups
  /\ connected' = TRUE /\ ups' = ups \ {c} /\ subs' = subs \cup {c}
  /\ UNCHANGED <<lifeVars, link, links, losts, subscribed, refused, queueVars, pipeVars>>

\* ...and subscribes, draining or not.  The token fails without a connection,
\* and when the broker refuses; a failure is logged, and the handler is done.
SyncSubscriptions(c) ==
  /\ c \in subs
  /\ subs' = subs \ {c}
  /\ \/ link = "up" /\ subscribed' = TRUE /\ refused' = FALSE
     \/ link = "up" /\ refused' = TRUE /\ UNCHANGED subscribed
     \/ link # "up" /\ UNCHANGED <<subscribed, refused>>
  /\ UNCHANGED <<lifeVars, connected, link, links, ups, losts, queueVars, pipeVars>>

OnConnectionLost(c) ==
  /\ c \in losts
  /\ connected' = FALSE /\ losts' = losts \ {c}
  /\ UNCHANGED <<lifeVars, link, links, ups, subs, subscribed, refused, queueVars, pipeVars>>
-----------------------------------------------------------------------------
(* The drain pipe                                                            *)

\* DequeueTo sleeps until there are messages, or none will come.
PipeTake ==
  /\ wpc = "take"
  /\ \/ /\ queue # << >>
        /\ batch' = Taken(queue, QueueSize) /\ queue' = Left(queue, QueueSize)
        /\ wpc' = "check" /\ UNCHANGED registered
     \/ /\ Drained(queue, qclosed)
        /\ wpc' = "exited" /\ registered' = FALSE
        /\ UNCHANGED <<queue, batch>>
  /\ UNCHANGED <<lifeVars, linkVars, qclosed, accepted, pubpc, sent, echoes>>

PipeCheck ==
  /\ wpc = "check"
  /\ wpc' = IF connected THEN "publish" ELSE "failed"
  /\ UNCHANGED <<lifeVars, linkVars, queueVars, registered, batch, sent, echoes>>

\* The token completes; or fails; or is waited for in vain, and paho, which
\* keeps the message while it dials, delivers it later.
Bug_PipePublish ==
  /\ wpc = "publish"
  /\ batch' = Tail(batch)
  /\ wpc' = IF Len(batch) = 1 THEN "take" ELSE "check"
  /\ sent' \in {sent, Append(sent, Head(batch))}
  /\ UNCHANGED <<lifeVars, linkVars, queueVars, registered, echoes>>
PipePublish ==
  /\ wpc = "publish"
  /\ \/ /\ link # "closed"
        /\ sent' = Append(sent, Head(batch))
        /\ batch' = Tail(batch)
        /\ wpc' = IF Len(batch) = 1 THEN "take" ELSE "check"
        /\ UNCHANGED echoes
     \/ wpc' = "failed" /\ UNCHANGED <<batch, sent, echoes>>
     \/ /\ link # "closed" /\ echoes < MaxEchoes
        /\ sent' = Append(sent, Head(batch))
        /\ echoes' = echoes + 1 /\ wpc' = "failed"
        /\ UNCHANGED batch
  /\ UNCHANGED <<lifeVars, linkVars, queueVars, registered>>

\* Give up, with what is left in the buffer, or pause and try again.
Bug_GivesUp == FALSE
GivesUp == (ctxDone \/ draining) /\ ~connected

PipeFailed ==
  /\ wpc = "failed"
  /\ wpc' = IF GivesUp THEN "exited" ELSE "check"
  /\ registered' = ~GivesUp
  /\ UNCHANGED <<lifeVars, linkVars, queueVars, batch, sent, echoes>>

Terminating ==
  /\ closepc = "returned" /\ wpc \in {"off", "exited"}
  /\ UNCHANGED vars

Starter == StartConnected \/ StartDrainPipe
Closer == CloseUnsubscribe \/ CloseQueue \/ CloseWait \/ CloseDisconnect \/ CloseCancel
Callback(c) == OnConnect(c) \/ SyncSubscriptions(c) \/ OnConnectionLost(c)
Pipe == PipeTake \/ PipeCheck \/ PipePublish \/ PipeFailed

Next ==
  \/ PublishCheck \/ PublishEnqueue \/ StartCall \/ Starter
  \/ CloseCall \/ Closer \/ ParentCancel
  \/ LinkUp \/ LinkLost
  \/ \E c \in 1 .. MaxLinks : Callback(c)
  \/ Pipe \/ Terminating

Spec == Init /\ [][Next]_vars

(* The goroutines run: the client's, and those paho starts for its handlers. *)
(* A SUBSCRIBE is answered, or its connection ends.                          *)
FairSpec ==
  /\ Spec /\ WF_vars(Starter) /\ WF_vars(Closer) /\ WF_vars(Pipe)
  /\ \A c \in 1 .. MaxLinks : WF_vars(Callback(c))
-----------------------------------------------------------------------------
TypeOK ==
  /\ {draining, ctxDone, connected, subscribed, refused, qclosed, registered} \subseteq BOOLEAN
  /\ link \in {"none", "down", "up", "closed"} /\ links \in 0 .. MaxLinks
  /\ ups \subseteq 1 .. links /\ subs \subseteq 1 .. links /\ losts \subseteq 1 .. links
  /\ accepted \in 0 .. MaxMessages /\ echoes \in 0 .. MaxEchoes
  /\ queue \in Seq(1 .. accepted) /\ Len(queue) <= QueueSize
  /\ batch \in Seq(1 .. accepted) /\ Len(batch) <= QueueSize
  /\ sent \in Seq(1 .. accepted)
  /\ pubpc \in {"idle", "enqueue"}
  /\ startpc \in {"idle", "failed", "connecting", "pipe", "returned"}
  /\ closepc \in {"idle", "unsubscribe", "queue", "wait", "disconnect", "cancel", "returned"}
  /\ wpc \in {"off", "take", "check", "publish", "failed", "exited"}

(* The client keeps the promise of Outbox, one message at a time, through    *)
(* losses of the connection it learns of late (mqtt_client.go:261-274).      *)
Promise == INSTANCE Outbox WITH
  Window  <- 1,
  settled <- accepted - Len(queue) - Len(batch),
  closing <- draining
KeepsPromise == Promise!Spec

(* Callbacks in order: a client learns of a loss before it is connected      *)
(* again.                                                                    *)
InOrder == losts = {} \/ link # "up"

(* After any number of losses a client that stays connected has its          *)
(* subscriptions, in whatever order it learned of connections and losses,    *)
(* unless the broker refused them: a failed SUBSCRIBE is not repeated before *)
(* the next connection.  It also believes in the connection, if the          *)
(* callbacks are in order (mqtt_client.go:120-137, 241-245).                 *)
Realigned ==
  <>[](link = "up" /\ ~draining) =>
    /\ <>[](subscribed \/ refused)
    /\ []InOrder => <>[]connected

(* After Close the drain pipe leaves, unless Disconnect came while the       *)
(* client believed in its connection: nothing tells it of the end, and a     *)
(* message that is left is tried for ever (mqtt_client.go:263-273).          *)
PipeLeaves == draining ~> (wpc \in {"off", "exited"} \/ (connected /\ link = "closed"))
=============================================================================
