--------------------------- MODULE RocketConsumer ---------------------------
(* rocketmq/sub.go: the state a PushConsumer and a PullConsumer have in      *)
(* common.  Threads of the library, or pull loops, put messages into the     *)
(* queue; SyncSubscribe hands them to the application.                       *)
EXTENDS RocketClient, LockedRingBuffer

CONSTANT ChanSize    \* capacity of the queue

VARIABLES
  hand,          \* messages a thread or a pull loop has not enqueued yet
  mainpc,        \* SyncSubscribe
  remainLen,     \* length of the queue when its loop ended
  handled        \* messages given to the application

\* Messages in the queue, or with SyncSubscribe and not handled yet.
InFlight == Elements(queue) \cup Elements(batch)
=============================================================================
