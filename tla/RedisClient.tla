---------------------------- MODULE RedisClient -----------------------------
(* redismq: the state RedisPub and RedisSub have in common.  One goroutine   *)
(* connects, works on its connection and connects again; Close runs beside.  *)

VARIABLES
  draining,      \* set by Close
  connected,
  handler,       \* the RedisToolkit: "live", "stopped" or "nil"
  registered,    \* the work on a connection is in the WaitGroup
  wpc,           \* the goroutine
  closepc        \* Close
=============================================================================
