---------------------------- MODULE RocketClient ----------------------------
(* rocketmq: the state the three clients of the package have in common, a    *)
(* bounded queue with a goroutine that empties it, the flag and the context  *)
(* of a shutdown, and the client of the RocketMQ library below.              *)

CONSTANT MaxMessages   \* bound on the messages

VARIABLES
  draining,      \* set by Close
  ctxDone,       \* the client's context is cancelled
  mq,            \* the library's client: "new", "running", "failed" or "shutdown"
  queue,
  qclosed,
  batch,         \* what the goroutine dequeued and has not done with yet
  closepc        \* Close
=============================================================================
