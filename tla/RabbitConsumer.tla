--------------------------- MODULE RabbitConsumer ---------------------------
(* rabbitmq/sub.go: a Consumer, and the go-rabbitmq consumer and the broker  *)
(* below it.                                                                 *)
(*                                                                           *)
(* Goroutines: SyncSubscribe (mainpc), the handlers the library runs for     *)
(* deliveries (hpc), a caller of Close (closerpc).  There is one handler at  *)
(* a time, and more while the library replaces a broken connection.          *)
EXTENDS Naturals, FiniteSets

CONSTANTS
  Handlers,       \* goroutines of the library that run the handler
  Messages,       \* messages of the broker's queue
  AutoCommit      \* AUTO_COMMIT_NATIVE or AUTO_COMMIT_NONE

ASSUME RabbitConsumerAssumption ==
  IsFiniteSet(Handlers) /\ IsFiniteSet(Messages) /\ AutoCommit \in {"native", "none"}

VARIABLES
  isClosed,       \* set by Close
  consumer,       \* the library's consumer: "open" or "closed"
  mainpc,         \* SyncSubscribe
  failed,         \* Run ended although nobody closed the consumer
  closerpc,       \* Close
  hpc,            \* the handlers
  has,            \* the message each of them was given last
  ready,          \* messages the broker will deliver
  unacked,        \* messages delivered and not acknowledged yet
  gone,           \* messages the broker removed
  shown           \* messages the application was given

brokerVars == <<ready, unacked, gone>>
consumerVars == <<isClosed, consumer, mainpc, failed, closerpc, hpc, has, brokerVars, shown>>

ConsumerInit ==
  /\ isClosed = FALSE /\ consumer = "open" /\ failed = FALSE
  /\ mainpc = "spawned" /\ closerpc = "idle"
  /\ hpc = [h \in Handlers |-> "off"] /\ has \in [Handlers -> Messages]
  /\ ready = Messages /\ unacked = {} /\ gone = {}
  /\ shown = {}
-----------------------------------------------------------------------------
(* SyncSubscribe                                                             *)

\* It registers with the WaitGroup and calls Run.
MainStart ==
  /\ mainpc = "spawned"
  /\ mainpc' = "run"
  /\ UNCHANGED <<isClosed, consumer, failed, closerpc, hpc, has, brokerVars, shown>>

\* Run returns when the consumer is closed, or fails.  No delivery follows,
\* but handlers may be on their way.
RunReturn ==
  /\ mainpc = "run"
  /\ mainpc' = "wait" /\ failed' = (consumer = "open")
  /\ UNCHANGED <<isClosed, consumer, closerpc, hpc, has, brokerVars, shown>>

\* subWg.Wait: the handlers that have registered have returned.
Bug_Registered == {h \in Handlers : hpc[h] = "handle"}
Registered == {h \in Handlers : hpc[h] \in {"check", "admitted", "handle"}}

MainReturn ==
  /\ mainpc = "wait" /\ Registered = {}
  /\ mainpc' = "returned"
  /\ UNCHANGED <<isClosed, consumer, failed, closerpc, hpc, has, brokerVars, shown>>
-----------------------------------------------------------------------------
(* The handler                                                               *)

\* With AutoAck the broker removes what it delivers.
Deliver(h, m) ==
  /\ mainpc = "run" /\ consumer = "open" /\ hpc[h] = "off" /\ m \in ready
  /\ hpc' = [hpc EXCEPT ![h] = "called"]
  /\ has' = [has EXCEPT ![h] = m]
  /\ ready' = ready \ {m}
  /\ IF AutoCommit = "native"
       THEN gone' = gone \cup {m} /\ UNCHANGED unacked
       ELSE unacked' = unacked \cup {m} /\ UNCHANGED gone
  /\ UNCHANGED <<isClosed, consumer, mainpc, failed, closerpc, shown>>

\* It first registers with subWg...
HandlerEnter(h) ==
  /\ hpc[h] = "called"
  /\ hpc' = [hpc EXCEPT ![h] = "check"]
  /\ UNCHANGED <<isClosed, consumer, mainpc, failed, closerpc, has, brokerVars, shown>>

\* ...and looks whether the consumer is closed: NackRequeue gives the message
\* back.  With AutoAck the library ignores the answer of a handler.
GiveBack(m) ==
  IF AutoCommit = "native"
    THEN UNCHANGED brokerVars
    ELSE ready' = ready \cup {m} /\ unacked' = unacked \ {m} /\ UNCHANGED gone

Bug_HandlerCheck(h) ==
  /\ hpc[h] = "check"
  /\ hpc' = [hpc EXCEPT ![h] = IF isClosed THEN "off" ELSE "admitted"]
  /\ IF isClosed THEN gone' = gone \cup {has[h]} /\ unacked' = unacked \ {has[h]}
     ELSE UNCHANGED <<gone, unacked>>
  /\ UNCHANGED <<isClosed, consumer, mainpc, failed, closerpc, has, ready, shown>>
HandlerCheck(h) ==
  /\ hpc[h] = "check"
  /\ \/ /\ isClosed
        /\ hpc' = [hpc EXCEPT ![h] = "off"]
        /\ GiveBack(has[h])
     \/ /\ ~isClosed
        /\ hpc' = [hpc EXCEPT ![h] = "admitted"]
        /\ UNCHANGED brokerVars
  /\ UNCHANGED <<isClosed, consumer, mainpc, failed, closerpc, has, shown>>

\* The application's handler is called...
HandlerCall(h) ==
  /\ hpc[h] = "admitted"
  /\ hpc' = [hpc EXCEPT ![h] = "handle"]
  /\ shown' = shown \cup {has[h]}
  /\ UNCHANGED <<isClosed, consumer, mainpc, failed, closerpc, has, brokerVars>>

\* ...and returns: the answer is Ack (ignored) or Manual.
HandlerReturn(h) ==
  /\ hpc[h] = "handle"
  /\ hpc' = [hpc EXCEPT ![h] = "off"]
  /\ UNCHANGED <<isClosed, consumer, mainpc, failed, closerpc, has, brokerVars, shown>>

\* The application acknowledges a message it was given, if it is still
\* outstanding.
AppAck(m) ==
  /\ m \in unacked /\ m \in shown /\ closerpc # "returned"
  /\ unacked' = unacked \ {m} /\ gone' = gone \cup {m}
  /\ UNCHANGED <<isClosed, consumer, mainpc, failed, closerpc, hpc, has, ready, shown>>
-----------------------------------------------------------------------------
(* Close                                                                     *)

\* The first caller goes on.
ConsumerCloseCall ==
  /\ closerpc = "idle"
  /\ closerpc' = "consumer" /\ isClosed' = TRUE
  /\ UNCHANGED <<consumer, mainpc, failed, hpc, has, brokerVars, shown>>

Bug_CloseConsumer ==
  /\ closerpc = "consumer"
  /\ closerpc' = "wait"
  /\ UNCHANGED <<isClosed, consumer, mainpc, failed, hpc, has, brokerVars, shown>>
CloseConsumer ==
  /\ closerpc = "consumer"
  /\ closerpc' = "wait" /\ consumer' = "closed"
  /\ UNCHANGED <<isClosed, mainpc, failed, hpc, has, brokerVars, shown>>

\* wg.Wait, then the connection is closed: the broker takes back what is not
\* acknowledged.
CloseReturn ==
  /\ closerpc = "wait" /\ mainpc \in {"spawned", "returned"}
  /\ closerpc' = "returned"
  /\ ready' = ready \cup unacked /\ unacked' = {}
  /\ UNCHANGED <<isClosed, consumer, mainpc, failed, hpc, has, gone, shown>>

ConsumerTerminating ==
  /\ mainpc = "returned" /\ closerpc = "returned"
  /\ \A h \in Handlers : hpc[h] = "off"
  /\ UNCHANGED consumerVars

Handler(h) == HandlerEnter(h) \/ HandlerCheck(h) \/ HandlerCall(h) \/ HandlerReturn(h)
ConsumerCloser == CloseConsumer \/ CloseReturn

ConsumerNext ==
  \/ MainStart \/ RunReturn \/ MainReturn \/ ConsumerCloseCall \/ ConsumerCloser
  \/ ConsumerTerminating
  \/ \E h \in Handlers : Handler(h) \/ \E m \in Messages : Deliver(h, m)
  \/ \E m \in Messages : AppAck(m)

ConsumerSpec == ConsumerInit /\ [][ConsumerNext]_consumerVars

(* The goroutines run, the application's handler returns, and Run returns    *)
(* once the consumer is closed.                                              *)
ConsumerFairSpec ==
  /\ ConsumerSpec /\ WF_consumerVars(ConsumerCloser) /\ WF_consumerVars(MainReturn)
  /\ WF_consumerVars(RunReturn /\ consumer = "closed")
  /\ \A h \in Handlers : WF_consumerVars(Handler(h))
-----------------------------------------------------------------------------
ConsumerTypeOK ==
  /\ isClosed \in BOOLEAN /\ failed \in BOOLEAN
  /\ consumer \in {"open", "closed"}
  /\ mainpc \in {"spawned", "run", "wait", "returned"}
  /\ closerpc \in {"idle", "consumer", "wait", "returned"}
  /\ hpc \in [Handlers -> {"off", "called", "check", "admitted", "handle"}]
  /\ has \in [Handlers -> Messages]
  /\ UNION {ready, unacked, gone, shown} \subseteq Messages
  /\ ready \cap unacked = {} /\ gone \cap (ready \cup unacked) = {}

Quiet == \A h \in Handlers : hpc[h] \notin {"admitted", "handle"}

(* Once SyncSubscribe ended by Close has called OnExit, the application is   *)
(* handling nothing and nothing more will reach it: a handler registers      *)
(* before it looks at isClosed, and isClosed is set before Run returns       *)
(* (sub.go:99-104, 122, 135-147).                                            *)
QuietAfterExit == mainpc = "returned" /\ ~failed => Quiet

(* A message refused because the consumer is closing, or one the application *)
(* was never shown, is never removed from the broker's queue in the manual   *)
(* mode (sub.go:102-117).                                                    *)
RemovedWereShown == AutoCommit = "none" => gone \subseteq shown

(* Close waits for the handlers, not for ever (sub.go:139-152).              *)
CloseReturns == (closerpc = "wait") ~> (closerpc = "returned")
=============================================================================
