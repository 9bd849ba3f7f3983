------------------------------ MODULE RedisSub ------------------------------
(* redismq/sub.go over redismq/rediskit.go: a RedisSub, the goroutine of its *)
(* Subscribe (wpc), a caller of Close (closepc), and Redis.                  *)
(*                                                                           *)
(* The goroutine dials, subscribes and stays in the subscription, whose      *)
(* callback runs on it, until the subscription ends; then it dials again.    *)
EXTENDS Naturals, RedisClient

CONSTANT MaxFaults    \* bound on the times Redis becomes unreachable

ASSUME RedisSubAssumption == MaxFaults \in Nat

VARIABLES
  cancelled,     \* the context
  up,            \* Redis can be reached
  broken,        \* the connection of the subscription was lost
  faults         \* number of times Redis became unreachable

flagVars  == <<draining, connected, handler, cancelled>>
redisVars == <<up, broken, faults>>
subVars == <<flagVars, registered, wpc, closepc, redisVars>>

SubInit ==
  /\ draining = FALSE /\ connected = FALSE /\ handler = "live" /\ cancelled = FALSE
  /\ registered = FALSE /\ wpc = "off" /\ closepc = "idle"
  /\ up = TRUE /\ broken = FALSE /\ faults = 0

\* A client made of a cancelled context reaches nothing.
SubReachable == handler = "live" /\ ~cancelled
Subscribed == wpc \in {"receive", "callback"} /\ ~broken
-----------------------------------------------------------------------------
(* SyncSubscribe runs once: reconnectLoop.                                   *)

Subscribe ==
  /\ wpc = "off"
  /\ wpc' = "loop"
  /\ UNCHANGED <<flagVars, registered, closepc, redisVars>>

\* Leave while draining; wait while connected; else connect.
SubLoopTurn ==
  /\ wpc = "loop" /\ (draining \/ ~connected)
  /\ wpc' = IF draining THEN "exited" ELSE "dial"
  /\ UNCHANGED <<flagVars, registered, closepc, redisVars>>

\* dbConnect makes a handler if there is none...
SubDial ==
  /\ wpc = "dial"
  /\ handler' = IF handler = "nil" THEN "live" ELSE handler
  /\ wpc' = "ping"
  /\ UNCHANGED <<draining, connected, cancelled, registered, closepc, redisVars>>

\* ...and pings.  After a failure the handler is stopped and dropped.
SubPing ==
  /\ wpc = "ping"
  /\ \/ /\ up /\ SubReachable
        /\ connected' = TRUE /\ wpc' = "register"
        /\ UNCHANGED handler
     \/ /\ ~(up /\ SubReachable)
        /\ connected' = FALSE /\ wpc' = "loop" /\ handler' = "nil"
  /\ UNCHANGED <<draining, cancelled, registered, closepc, redisVars>>
-----------------------------------------------------------------------------
(* startSubscription                                                         *)

Bug_SubRegister ==
  /\ wpc = "register"
  /\ wpc' = "subscribe"
  /\ UNCHANGED <<flagVars, registered, closepc, redisVars>>
SubRegister ==
  /\ wpc = "register"
  /\ registered' = TRUE /\ wpc' = "subscribe"
  /\ UNCHANGED <<flagVars, closepc, redisVars>>

\* SyncPSubscribeReceive: a stopped toolkit has no client and returns at once,
\* without an error; an unreachable Redis is reported to the callback.
Receive ==
  /\ wpc = "subscribe"
  /\ wpc' = IF handler = "stopped" THEN "leave"
            ELSE IF up /\ SubReachable THEN "receive" ELSE "error"
  /\ broken' = FALSE
  /\ UNCHANGED <<flagVars, registered, closepc, up, faults>>

\* A message: the handler of the application runs.
Message ==
  /\ Subscribed /\ wpc = "receive" /\ SubReachable
  /\ wpc' = "callback"
  /\ UNCHANGED <<flagVars, registered, closepc, redisVars>>

CallbackReturn ==
  /\ wpc = "callback"
  /\ wpc' = "receive"
  /\ UNCHANGED <<flagVars, registered, closepc, redisVars>>

\* The subscription ends with an error when its connection is lost, with or
\* without one when its client is stopped or its context cancelled.
ReceiveEnds ==
  /\ wpc = "receive"
  /\ \/ (broken \/ ~SubReachable) /\ wpc' = "error"
     \/ ~SubReachable /\ wpc' = "leave"
  /\ UNCHANGED <<flagVars, registered, closepc, redisVars>>

\* onError: the application is told, the link is marked broken.
Bug_OnError ==
  /\ wpc = "error"
  /\ wpc' = "leave"
  /\ UNCHANGED <<flagVars, registered, closepc, redisVars>>
OnError ==
  /\ wpc = "error"
  /\ connected' = FALSE /\ wpc' = "leave"
  /\ UNCHANGED <<draining, handler, cancelled, registered, closepc, redisVars>>

SubLeave ==
  /\ wpc = "leave"
  /\ registered' = FALSE /\ wpc' = "loop"
  /\ UNCHANGED <<flagVars, closepc, redisVars>>
-----------------------------------------------------------------------------
(* Close                                                                     *)

SubCloseCall ==
  /\ closepc = "idle"
  /\ closepc' = "disconnect" /\ draining' = TRUE
  /\ UNCHANGED <<connected, handler, cancelled, registered, wpc, redisVars>>

SubCloseDisconnect ==
  /\ closepc = "disconnect"
  /\ closepc' = "test" /\ connected' = FALSE
  /\ UNCHANGED <<draining, handler, cancelled, registered, wpc, redisVars>>

\* The handler is read twice: for the test and for the call of Stop.  When
\* dbConnect drops it in between, Stop is called on nil and panics.
SubCloseTest ==
  /\ closepc = "test"
  /\ closepc' = IF handler = "nil" THEN "cancel" ELSE "stop"
  /\ UNCHANGED <<flagVars, registered, wpc, redisVars>>

SubCloseStop ==
  /\ closepc = "stop"
  /\ \/ /\ handler = "nil"
        /\ closepc' = "panicked"
        /\ UNCHANGED handler
     \/ /\ handler # "nil"
        /\ closepc' = "cancel" /\ handler' = "stopped"
  /\ UNCHANGED <<draining, connected, cancelled, registered, wpc, redisVars>>

Bug_SubCloseCancel ==
  /\ closepc = "cancel" /\ ~registered
  /\ closepc' = "wait" /\ cancelled' = TRUE
  /\ UNCHANGED <<draining, connected, handler, registered, wpc, redisVars>>
SubCloseCancel ==
  /\ closepc = "cancel"
  /\ closepc' = "wait" /\ cancelled' = TRUE
  /\ UNCHANGED <<draining, connected, handler, registered, wpc, redisVars>>

\* wg.Wait
SubCloseWait ==
  /\ closepc = "wait" /\ ~registered
  /\ closepc' = "returned"
  /\ UNCHANGED <<flagVars, registered, wpc, redisVars>>
-----------------------------------------------------------------------------
(* Redis                                                                     *)

RedisDown ==
  /\ up /\ faults < MaxFaults
  /\ up' = FALSE /\ broken' = TRUE /\ faults' = faults + 1
  /\ UNCHANGED <<flagVars, registered, wpc, closepc>>

RedisUp ==
  /\ ~up
  /\ up' = TRUE
  /\ UNCHANGED <<flagVars, registered, wpc, closepc, broken, faults>>

SubWork ==
  \/ SubLoopTurn \/ SubDial \/ SubPing \/ SubRegister
  \/ Receive \/ CallbackReturn \/ ReceiveEnds \/ OnError \/ SubLeave
SubCloser == SubCloseDisconnect \/ SubCloseTest \/ SubCloseStop \/ SubCloseCancel \/ SubCloseWait

\* A panic ends the process.
SubRunning ==
  /\ closepc # "panicked"
  /\ Subscribe \/ SubWork \/ Message \/ SubCloseCall \/ SubCloser \/ RedisDown \/ RedisUp

SubTerminating ==
  /\ closepc = "panicked" \/ (closepc = "returned" /\ wpc = "exited")
  /\ UNCHANGED subVars

SubNext == SubRunning \/ SubTerminating

SubSpec == SubInit /\ [][SubNext]_subVars

(* Both goroutines run, and the callbacks of the application return.         *)
SubFairSpec == SubSpec /\ WF_subVars(SubRunning /\ SubWork) /\ WF_subVars(SubRunning /\ SubCloser)
-----------------------------------------------------------------------------
SubTypeOK ==
  /\ {draining, connected, cancelled, registered, up, broken} \subseteq BOOLEAN
  /\ handler \in {"live", "stopped", "nil"}
  /\ wpc \in {"off", "loop", "dial", "ping", "register", "subscribe", "receive", "callback",
              "error", "leave", "exited"}
  /\ closepc \in {"idle", "disconnect", "test", "stop", "cancel", "wait", "returned",
                  "panicked"}
  /\ faults \in 0 .. MaxFaults

(* Once Close has returned no message reaches the application any more, even *)
(* if the goroutine was between its ping and its registration when Close     *)
(* looked at the WaitGroup, or has made a handler that Close did not stop    *)
(* (sub.go:82-87, 135-145, 177).                                             *)
QuietAfterClose == closepc = "returned" => wpc # "callback"

(* While Redis can be reached and Close is not called, a subscriber whose    *)
(* connection was lost is subscribed again (the comment of onError,          *)
(* sub.go:167-169).                                                          *)
Resubscribes == <>[](up /\ ~draining /\ wpc # "off") => <>[]Subscribed

(* Close returns and the goroutine leaves, whatever Redis does.  Close may   *)
(* panic on a handler that dbConnect drops between its two reads             *)
(* (sub.go:82-83, 150), but only if the loop was still dialling: a           *)
(* subscription that Close finds, or that registers beside it, ends and is   *)
(* not dialled again.                                                        *)
ShutdownCompletes ==
  /\ draining ~> \/ closepc = "returned" /\ wpc \in {"off", "exited"}
                 \/ closepc = "panicked"
  /\ (draining /\ registered) ~> (closepc = "returned" /\ wpc = "exited")
=============================================================================
