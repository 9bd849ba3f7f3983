------------------------- MODULE RocketPullConsumer -------------------------
(* rocketmq/sub.go: a PullConsumer and the RocketMQ client below it.         *)
(*                                                                           *)
(* Goroutines: one pull loop for each topic (ppc), started by the            *)
(* constructor; SyncSubscribe (mainpc); the start of the client it spawns;   *)
(* a caller of Close (closepc).  The loops share one client, and a pull      *)
(* names no topic: a loop may bring messages of any of them.  A message is   *)
(* the n-th that pull loop l brought; which topic it is of, and whether      *)
(* another loop brought it too, is left to the client, and so are offsets.   *)
EXTENDS Naturals, Sequences, FiniteSets, LockedRingBuffer, RocketConsumer

CONSTANTS
  Loops,           \* the pull loops, as many as there are topics
  PullSize         \* messages of one pull

ASSUME PullConsumerAssumption ==
  /\ IsFiniteSet(Loops)
  /\ ChanSize \in Nat \ {0} /\ PullSize \in Nat \ {0} /\ MaxMessages \in Nat

VARIABLES
  parentDone,      \* the parent's context, and that of the pull loops, is cancelled
  ppc,             \* the pull loops; loop l holds hand[l]
  pulled,          \* number of messages it pulled
  leftBy           \* why the loop of SyncSubscribe ended

ctxVars      == <<draining, ctxDone, parentDone>>
pullerVars   == <<ppc, hand, pulled>>
pullMainVars == <<mainpc, batch, remainLen, leftBy>>
pullVars == <<ctxVars, mq, queue, qclosed, pullerVars, pullMainVars, closepc, handled>>

Message == [l : Loops, n : 1 .. MaxMessages]

PullInit ==
  /\ draining = FALSE /\ ctxDone = FALSE /\ parentDone = FALSE /\ mq = "new"
  /\ queue = << >> /\ qclosed = FALSE
  /\ ppc = [l \in Loops |-> "top"]
  /\ hand = [l \in Loops |-> << >>] /\ pulled = [l \in Loops |-> 0]
  /\ mainpc = "spawned" /\ batch = << >> /\ remainLen = 0 /\ leftBy = "none"
  /\ closepc = "idle" /\ handled = {}
-----------------------------------------------------------------------------
(* Pull loop l                                                               *)

\* Each turn looks at its context, a child of the parent's.
PullerTurn(l) ==
  /\ ppc[l] = "top"
  /\ ppc' = [ppc EXCEPT ![l] = IF parentDone THEN "stopped" ELSE "pull"]
  /\ UNCHANGED <<ctxVars, mq, queue, qclosed, hand, pulled, pullMainVars, closepc, handled>>

\* A pull fails, or finds nothing...
PullerNothing(l) ==
  /\ ppc[l] = "pull"
  /\ ppc' = [ppc EXCEPT ![l] = "top"]
  /\ UNCHANGED <<ctxVars, mq, queue, qclosed, hand, pulled, pullMainVars, closepc, handled>>

\* ...or brings up to PullSize messages.
PullerFound(l, n) ==
  /\ ppc[l] = "pull" /\ mq = "running" /\ pulled[l] + n <= MaxMessages
  /\ pulled' = [pulled EXCEPT ![l] = @ + n]
  /\ hand' = [hand EXCEPT ![l] = [i \in 1 .. n |-> [l |-> l, n |-> pulled[l] + i]]]
  /\ ppc' = [ppc EXCEPT ![l] = "check"]
  /\ UNCHANGED <<ctxVars, mq, queue, qclosed, pullMainVars, closepc, handled>>

\* Before each message draining is looked at; a draining consumer forgets the
\* rest.
Bug_PullerCheck(l) ==
  /\ ppc[l] = "check"
  /\ ppc' = [ppc EXCEPT ![l] = IF hand[l] = << >> THEN "top" ELSE "enqueue"]
  /\ UNCHANGED <<ctxVars, mq, queue, qclosed, hand, pulled, pullMainVars, closepc, handled>>
PullerCheck(l) ==
  /\ ppc[l] = "check"
  /\ \/ /\ hand[l] = << >> \/ draining
        /\ ppc' = [ppc EXCEPT ![l] = "top"]
        /\ hand' = [hand EXCEPT ![l] = << >>]
     \/ /\ hand[l] # << >> /\ ~draining
        /\ ppc' = [ppc EXCEPT ![l] = "enqueue"]
        /\ UNCHANGED hand
  /\ UNCHANGED <<ctxVars, mq, queue, qclosed, pulled, pullMainVars, closepc, handled>>

PullRoom == Accepts(queue, qclosed, ChanSize)

\* Enqueue waits while the queue is full; its refusal by a closed queue is
\* ignored.
PullerEnqueue(l) ==
  /\ ppc[l] = "enqueue"
  /\ \/ PullRoom /\ queue' = Append(queue, Head(hand[l]))
     \/ qclosed /\ UNCHANGED queue
  /\ hand' = [hand EXCEPT ![l] = Tail(@)]
  /\ ppc' = [ppc EXCEPT ![l] = "check"]
  /\ UNCHANGED <<ctxVars, mq, qclosed, pulled, pullMainVars, closepc, handled>>
-----------------------------------------------------------------------------
(* SyncSubscribe                                                             *)

\* It registers with the WaitGroup and spawns the start of the client...
PullMainStart ==
  /\ mainpc = "spawned"
  /\ mainpc' = "loop"
  /\ UNCHANGED <<ctxVars, mq, queue, qclosed, pullerVars, batch, remainLen, leftBy, closepc,
                 handled>>

\* ...which works, or fails and sends its error to the loop.
PullClientStart ==
  /\ mq = "new" /\ mainpc # "spawned"
  /\ mq' \in {"running", "failed"}
  /\ UNCHANGED <<ctxVars, queue, qclosed, pullerVars, pullMainVars, closepc, handled>>

\* The select of the loop takes a ready case: the context is cancelled, or
\* the client failed.
PullLoopStop ==
  /\ mainpc = "loop"
  /\ \/ ctxDone /\ leftBy' = "cancelled"
     \/ mq = "failed" /\ leftBy' = "failed"
  /\ mainpc' = "remain"
  /\ UNCHANGED <<ctxVars, mq, queue, qclosed, pullerVars, batch, remainLen, closepc, handled>>

PullLoopTurn ==
  /\ mainpc = "loop" /\ ~ctxDone /\ mq # "failed"
  /\ mainpc' = "look"
  /\ UNCHANGED <<ctxVars, mq, queue, qclosed, pullerVars, batch, remainLen, leftBy, closepc,
                 handled>>

\* Without one it takes a message from the queue, or sleeps; a closed queue is
\* like an empty one.
PullLoopTake ==
  /\ mainpc = "look"
  /\ batch' = Taken(queue, 1) /\ queue' = Left(queue, 1)
  /\ mainpc' = IF queue = << >> THEN "loop" ELSE "handle"
  /\ UNCHANGED <<ctxVars, mq, qclosed, pullerVars, remainLen, leftBy, closepc, handled>>

PullHandle ==
  /\ handled' = handled \cup {Head(batch)}
  /\ batch' = Tail(batch)
  /\ UNCHANGED <<ctxVars, mq, queue, qclosed, pullerVars, remainLen, leftBy, closepc>>

PullLoopHandle == mainpc = "handle" /\ mainpc' = "loop" /\ PullHandle

\* After the loop: the length of the queue is read...
PullMainRemain ==
  /\ mainpc = "remain"
  /\ mainpc' = "drain" /\ remainLen' = Len(queue)
  /\ UNCHANGED <<ctxVars, mq, queue, qclosed, pullerVars, batch, leftBy, closepc, handled>>

\* ...that many messages are taken...
Bug_PullMainDrain ==
  /\ mainpc = "drain"
  /\ mainpc' = "finish"
  /\ batch' = Taken(queue, remainLen) /\ queue' = << >>
  /\ UNCHANGED <<ctxVars, mq, qclosed, pullerVars, remainLen, leftBy, closepc, handled>>
PullMainDrain ==
  /\ mainpc = "drain"
  /\ mainpc' = "finish"
  /\ batch' = Taken(queue, remainLen) /\ queue' = Left(queue, remainLen)
  /\ UNCHANGED <<ctxVars, mq, qclosed, pullerVars, remainLen, leftBy, closepc, handled>>

\* ...and handled.  SyncSubscribe calls OnExit and returns.
PullMainHandle == mainpc = "finish" /\ batch # << >> /\ UNCHANGED mainpc /\ PullHandle

PullMainReturn ==
  /\ mainpc = "finish" /\ batch = << >>
  /\ mainpc' = "returned"
  /\ UNCHANGED <<ctxVars, mq, queue, qclosed, pullerVars, batch, remainLen, leftBy, closepc,
                 handled>>
-----------------------------------------------------------------------------
(* Close                                                                     *)

\* The first caller goes on.
PullCloseCall ==
  /\ closepc = "idle"
  /\ closepc' = "cancel" /\ draining' = TRUE
  /\ UNCHANGED <<ctxDone, parentDone, mq, queue, qclosed, pullerVars, pullMainVars, handled>>

\* The consumer's own context is cancelled, not the one of the pull loops.
Bug_PullCloseCancel ==
  /\ closepc = "cancel"
  /\ closepc' = "queue"
  /\ UNCHANGED <<ctxVars, mq, queue, qclosed, pullerVars, pullMainVars, handled>>
PullCloseCancel ==
  /\ closepc = "cancel"
  /\ closepc' = "queue" /\ ctxDone' = TRUE
  /\ UNCHANGED <<draining, parentDone, mq, queue, qclosed, pullerVars, pullMainVars, handled>>

Bug_PullCloseQueue ==
  /\ closepc = "queue"
  /\ closepc' = "shutdown"
  /\ UNCHANGED <<ctxVars, mq, queue, qclosed, pullerVars, pullMainVars, handled>>
PullCloseQueue ==
  /\ closepc = "queue"
  /\ closepc' = "shutdown" /\ qclosed' = TRUE
  /\ UNCHANGED <<ctxVars, mq, queue, pullerVars, pullMainVars, handled>>

PullCloseShutdown ==
  /\ closepc = "shutdown"
  /\ closepc' = "wait"
  /\ mq' = IF mq = "running" THEN "shutdown" ELSE mq
  /\ UNCHANGED <<ctxVars, queue, qclosed, pullerVars, pullMainVars, handled>>

\* wg.Wait
PullCloseReturn ==
  /\ closepc = "wait" /\ mainpc \in {"spawned", "returned"}
  /\ closepc' = "returned"
  /\ UNCHANGED <<ctxVars, mq, queue, qclosed, pullerVars, pullMainVars, handled>>

\* The owner of the parent context cancels it, and all contexts with it.
PullParentCancel ==
  /\ ~parentDone
  /\ parentDone' = TRUE /\ ctxDone' = TRUE
  /\ UNCHANGED <<draining, mq, queue, qclosed, pullerVars, pullMainVars, closepc, handled>>

Puller(l) == PullerTurn(l) \/ PullerNothing(l) \/ PullerCheck(l) \/ PullerEnqueue(l)
PullMain ==
  \/ PullMainStart \/ PullLoopStop \/ PullLoopTurn \/ PullLoopTake \/ PullLoopHandle
  \/ PullMainRemain \/ PullMainDrain \/ PullMainHandle \/ PullMainReturn
PullCloser == PullCloseCancel \/ PullCloseQueue \/ PullCloseShutdown \/ PullCloseReturn

\* Only the parent's context stops the pull loops.
PullTerminating ==
  /\ mainpc = "returned" /\ closepc = "returned"
  /\ \A l \in Loops : ppc[l] = "stopped"
  /\ UNCHANGED pullVars

PullNext ==
  \/ PullMain \/ PullClientStart \/ PullCloser \/ PullCloseCall \/ PullParentCancel
  \/ PullTerminating
  \/ \E l \in Loops : Puller(l)
  \/ \E l \in Loops, n \in 1 .. PullSize : PullerFound(l, n)

PullSpec == PullInit /\ [][PullNext]_pullVars

(* The goroutines run; a pull returns, at the latest with a timeout.  Nobody *)
(* has to close or cancel, nor the broker to have messages.                  *)
PullFairSpec ==
  /\ PullSpec /\ WF_pullVars(PullMain) /\ WF_pullVars(PullCloser)
  /\ \A l \in Loops : WF_pullVars(Puller(l))
-----------------------------------------------------------------------------
PullTypeOK ==
  /\ {draining, ctxDone, parentDone, qclosed} \subseteq BOOLEAN
  /\ mq \in {"new", "running", "failed", "shutdown"}
  /\ queue \in Seq(Message) /\ Len(queue) <= ChanSize
  /\ batch \in Seq(Message) /\ Len(batch) <= ChanSize
  /\ ppc \in [Loops -> {"top", "pull", "check", "enqueue", "stopped"}]
  /\ pulled \in [Loops -> 0 .. MaxMessages]
  /\ \A l \in Loops : hand[l] \in Seq(Message) /\ Len(hand[l]) <= PullSize
  /\ mainpc \in {"spawned", "loop", "look", "handle", "remain", "drain", "finish", "returned"}
  /\ remainLen \in 0 .. ChanSize
  /\ leftBy \in {"none", "cancelled", "failed"}
  /\ closepc \in {"idle", "cancel", "queue", "shutdown", "wait", "returned"}
  /\ handled \subseteq Message

\* What SyncSubscribe or the queue has got: the pull loop, and the number.
Got == {<<m.l, m.n>> : m \in InFlight \cup handled}

(* Of what a pull loop brings the application gets a prefix, in the order of *)
(* the pulls and each message once, through the loop of SyncSubscribe and    *)
(* through the drain alike: once a message is passed over, because the       *)
(* consumer is draining or its queue is closed, none of a later pull gets in *)
(* (sub.go:365-369, 469-486, 497-513).                                       *)
LoopOrder ==
  LET pipe == batch \o queue IN
  /\ \A i, j \in 1 .. Len(pipe) : i < j /\ pipe[i].l = pipe[j].l => pipe[i].n < pipe[j].n
  /\ \A h \in handled, m \in InFlight : h.l = m.l => h.n < m.n
  /\ \A g \in Got : \A k \in 1 .. g[2] - 1 : <<g[1], k>> \in Got

(* The drain works on a length read once, so messages may be left behind; a  *)
(* plain Close leaves one of each pull loop at most, as draining is set      *)
(* before the context is cancelled and looked at before each Enqueue         *)
(* (sub.go:365-369, 477-486, 497-502).                                       *)
LeftoverBounded ==
  mainpc = "returned" /\ leftBy = "cancelled" /\ ~parentDone
    => Len(queue) <= Cardinality(Loops)

(* Close frees a pull loop that waits on a full queue (sub.go:513).          *)
PullersFreed == \A l \in Loops : draining ~> (ppc[l] # "enqueue")

(* Close does not wait for ever for SyncSubscribe, whose loop does not look  *)
(* at the end of the queue: the context ends it (sub.go:463, 502).           *)
PullCloseReturns == (closepc = "wait") ~> (closepc = "returned")
=============================================================================
