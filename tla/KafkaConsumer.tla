---------------------------- MODULE KafkaConsumer ----------------------------
(* kafkamq/sub.go: one ConsumerGroup, the process it runs in, and the part   *)
(* of Kafka it relies on (the committed offset of each partition).           *)
(*                                                                           *)
(* Goroutines: SyncSubscribe (mainpc), the Consume loop (lpc), the worker    *)
(* that hands messages to the application (wpc), one ConsumeClaim for each   *)
(* claimed partition (cpc), and a caller of Close (closepc).  They share the *)
(* queue, the contexts and the session's marked offsets.  sarama starts and  *)
(* ends sessions, the broker rebalances, and the process may crash and be    *)
(* started again by its supervisor.                                          *)
EXTENDS Integers, Sequences, FiniteSets, LockedRingBuffer

CONSTANTS
  Partitions,   \* partitions of the subscribed topics
  LogEnd,       \* every partition holds offsets 0 .. LogEnd - 1
  BufferSize,   \* capacity of the queue and length of the worker's buffer
  AutoCommit,   \* AUTO_COMMIT_NATIVE or AUTO_COMMIT_NONE
  StartOffset,  \* Topic.Partition after QueryTopics; -1: not requested
  MaxSessions,  \* bound on the group sessions
  MaxCrashes    \* bound on the crashes

ASSUME ConsumerAssumption ==
  /\ IsFiniteSet(Partitions)
  /\ LogEnd \in Nat
  /\ BufferSize \in Nat \ {0}
  /\ AutoCommit \in {"native", "none"}
  /\ StartOffset \in [Partitions -> Int]
  /\ MaxSessions \in Nat
  /\ MaxCrashes \in Nat

VARIABLES
  ctxDone,      \* ConsumerGroup.ctx is cancelled, and with it its children
  mainpc,       \* SyncSubscribe
  closepc,      \* a goroutine calling Close
  queue,        \* messages enqueued by ConsumeClaim
  qclosed,      \* queue.Close was called
  batch,        \* messages the worker dequeued and has not handled yet
  wpc,          \* the worker
  ackSess,      \* session of the message whose Ack is running
  lpc,          \* the Consume loop
  sess,         \* number of the latest group session
  sdone,        \* sarama ended the session
  setups,       \* calls of Setup on this process's handler (its sync.Once)
  groupClosed,  \* group.Close was called
  cpc,          \* ConsumeClaim of each partition
  pos,          \* next offset the claim receives, or the one in its hands
  marked,       \* offsets marked in the session, kept in memory
  committed,    \* offsets committed, kept by the broker
  handled,      \* offsets given to the application, ever
  lost,         \* offsets committed but unhandled when a process died
  ackedTo,      \* one past the highest offset the application acknowledged
  crashes       \* crashes so far

lifeVars   == <<ctxDone, mainpc, closepc>>
queueVars  == <<queue, qclosed>>
workerVars == <<batch, wpc, ackSess>>
groupVars  == <<lpc, sess, sdone, setups, groupClosed>>
claimVars  == <<cpc, pos, marked>>
auxVars    == <<handled, lost, ackedTo, crashes>>
vars == <<lifeVars, queueVars, workerVars, groupVars, claimVars, committed, auxVars>>

Offset  == 0 .. LogEnd - 1
Message == [p : Partitions, o : Offset, s : 1 .. MaxSessions]

InFlight == Elements(queue) \cup Elements(batch)

NoClaim == [p \in Partitions |-> "off"]
-----------------------------------------------------------------------------
(* Some messages were consumed and committed by earlier processes of the     *)
(* group.  Subscribe has just spawned SyncSubscribe.                         *)
Init ==
  /\ ctxDone = FALSE /\ mainpc = "spawned" /\ closepc = "idle"
  /\ queue = << >> /\ qclosed = FALSE
  /\ batch = << >> /\ wpc = "off" /\ ackSess = 0
  /\ lpc = "off" /\ sess = 0 /\ sdone = FALSE /\ setups = 0 /\ groupClosed = FALSE
  /\ committed \in [Partitions -> 0 .. LogEnd]
  /\ cpc = NoClaim /\ pos = committed /\ marked = committed
  /\ handled = [p \in Partitions |-> 0 .. committed[p] - 1]
  /\ lost = {} /\ ackedTo = committed /\ crashes = 0
-----------------------------------------------------------------------------
(* SyncSubscribe                                                             *)

\* The Consume loop and the worker are started.
MainStart ==
  /\ mainpc = "spawned"
  /\ mainpc' = "ready" /\ lpc' = "consume" /\ wpc' = "take"
  /\ UNCHANGED <<ctxDone, closepc, queueVars, batch, ackSess, sess, sdone, setups,
                 groupClosed, claimVars, committed, auxVars>>

\* The wait for the context ends.  tmpCtx is a child of the context and is
\* cancelled with it; the drain pause follows.
MainCancelled ==
  /\ mainpc = "ready" /\ ctxDone
  /\ mainpc' = "groupclose"
  /\ UNCHANGED <<ctxDone, closepc, queueVars, workerVars, groupVars, claimVars,
                 committed, auxVars>>

\* group.Close returns once the running Consume call has returned.
MainGroupClose ==
  /\ mainpc = "groupclose" /\ lpc # "in"
  /\ mainpc' = "queueclose" /\ groupClosed' = TRUE
  /\ UNCHANGED <<ctxDone, closepc, queueVars, workerVars, lpc, sess, sdone, setups,
                 claimVars, committed, auxVars>>

MainQueueClose ==
  /\ mainpc = "queueclose"
  /\ mainpc' = "waitworker" /\ qclosed' = TRUE
  /\ UNCHANGED <<ctxDone, closepc, queue, workerVars, groupVars, claimVars,
                 committed, auxVars>>

\* workerWg.Wait returns; so does SyncSubscribe.
Bug_MainReturn ==
  /\ mainpc = "waitworker"
  /\ mainpc' = "returned"
  /\ UNCHANGED <<ctxDone, closepc, queueVars, workerVars, groupVars, claimVars,
                 committed, auxVars>>
MainReturn ==
  /\ mainpc = "waitworker" /\ wpc = "stopped"
  /\ mainpc' = "returned"
  /\ UNCHANGED <<ctxDone, closepc, queueVars, workerVars, groupVars, claimVars,
                 committed, auxVars>>
-----------------------------------------------------------------------------
(* The Consume loop                                                          *)

\* Setup runs once per process: it lowers the offset of a claimed partition
\* to the requested one.  ResetOffset never raises an offset.
Bug_AfterSetup(p, claims) ==
  IF p \in claims /\ StartOffset[p] >= 0 /\ StartOffset[p] <= committed[p]
    THEN StartOffset[p] ELSE committed[p]
AfterSetup(p, claims) ==
  IF setups = 0 /\ p \in claims /\ StartOffset[p] >= 0 /\ StartOffset[p] <= committed[p]
    THEN StartOffset[p] ELSE committed[p]

\* Consume joins the group and starts a session with the claims it is given.
\* ConsumeClaim of each starts at the session's offset.
LoopSession(claims) ==
  /\ lpc = "consume" /\ ~groupClosed /\ sess < MaxSessions
  /\ lpc' = "in" /\ sess' = sess + 1 /\ sdone' = FALSE /\ setups' = setups + 1
  /\ cpc' = [p \in Partitions |-> IF p \in claims THEN "recv" ELSE "off"]
  /\ pos' = [p \in Partitions |-> AfterSetup(p, claims)]
  /\ marked' = pos'
  /\ UNCHANGED <<lifeVars, queueVars, workerVars, groupClosed, committed, auxVars>>

\* Consume fails at once: the context is cancelled or the group is closed.
LoopError ==
  /\ lpc = "consume" /\ (ctxDone \/ groupClosed)
  /\ lpc' = "check"
  /\ UNCHANGED <<lifeVars, queueVars, workerVars, sess, sdone, setups, groupClosed,
                 claimVars, committed, auxVars>>

\* Consume returns: every ConsumeClaim has returned, Cleanup has run (it only
\* logs) and, with automatic commits, sarama tried to flush the marked offsets.
LoopRelease ==
  /\ lpc = "in" /\ (sdone \/ ctxDone) /\ cpc = NoClaim
  /\ lpc' = "check" /\ sdone' = TRUE
  /\ \/ AutoCommit = "native" /\ committed' = marked
     \/ UNCHANGED committed
  /\ pos' = committed' /\ marked' = committed'
  /\ UNCHANGED <<lifeVars, queueVars, workerVars, sess, setups, groupClosed, cpc, auxVars>>

LoopCheck ==
  /\ lpc = "check"
  /\ lpc' = IF ctxDone THEN "exited" ELSE "consume"
  /\ UNCHANGED <<lifeVars, queueVars, workerVars, sess, sdone, setups, groupClosed,
                 claimVars, committed, auxVars>>

\* sarama's periodic flush of the marked offsets.
AutoCommitTick ==
  /\ AutoCommit = "native" /\ lpc = "in"
  /\ committed' = marked
  /\ UNCHANGED <<lifeVars, queueVars, workerVars, groupVars, claimVars, auxVars>>

\* The broker rebalances the group: sarama ends the session.  The last session
\* within the bound is left alone.
Rebalance ==
  /\ lpc = "in" /\ ~sdone /\ sess < MaxSessions
  /\ sdone' = TRUE
  /\ UNCHANGED <<lifeVars, queueVars, workerVars, lpc, sess, setups, groupClosed,
                 claimVars, committed, auxVars>>
-----------------------------------------------------------------------------
(* ConsumeClaim of partition p                                               *)

\* claim.Messages yields the next message.
ClaimReceive(p) ==
  /\ cpc[p] = "recv" /\ pos[p] < LogEnd
  /\ cpc' = [cpc EXCEPT ![p] = "check"]
  /\ UNCHANGED <<lifeVars, queueVars, workerVars, groupVars, pos, marked, committed, auxVars>>

\* ConsumeClaim returns; sarama then ends the whole session.
ClaimReturns(p) ==
  /\ cpc' = [cpc EXCEPT ![p] = "off"]
  /\ sdone' = TRUE
  /\ UNCHANGED <<lpc, sess, setups, groupClosed, pos, marked>>

\* claim.Messages is closed when the session ends.
ClaimClosed(p) ==
  /\ cpc[p] = "recv" /\ (sdone \/ ctxDone)
  /\ ClaimReturns(p)
  /\ UNCHANGED <<lifeVars, queueVars, workerVars, committed, auxVars>>

\* Each turn of the retry loop first looks at both contexts.
Bug_ClaimCheckNoCtx(p) ==
  /\ cpc[p] = "check"
  /\ cpc' = [cpc EXCEPT ![p] = "try"]
  /\ UNCHANGED <<lifeVars, queueVars, workerVars, groupVars, pos, marked, committed, auxVars>>
Bug_ClaimCheckMarks(p) ==
  /\ cpc[p] = "check"
  /\ cpc' = [cpc EXCEPT ![p] = IF sdone \/ ctxDone THEN "mark" ELSE "try"]
  /\ UNCHANGED <<lifeVars, queueVars, workerVars, groupVars, pos, marked, committed, auxVars>>
ClaimCheck(p) ==
  /\ cpc[p] = "check"
  /\ \/ /\ sdone \/ ctxDone
        /\ ClaimReturns(p)
     \/ /\ ~sdone /\ ~ctxDone
        /\ cpc' = [cpc EXCEPT ![p] = "try"]
        /\ UNCHANGED <<groupVars, pos, marked>>
  /\ UNCHANGED <<lifeVars, queueVars, workerVars, committed, auxVars>>

\* TryEnqueue, then a pause and another turn when the queue is full.
Room == Accepts(queue, qclosed, BufferSize)

Bug_AfterEnqueue == IF Len(queue) + 1 = BufferSize THEN "check" ELSE "mark"
AfterEnqueue == "mark"

ClaimTry(p) ==
  /\ cpc[p] = "try"
  /\ \/ /\ Room
        /\ queue' = Append(queue, [p |-> p, o |-> pos[p], s |-> sess])
        /\ cpc' = [cpc EXCEPT ![p] = AfterEnqueue]
     \/ /\ ~Room
        /\ cpc' = [cpc EXCEPT ![p] = "check"]
        /\ UNCHANGED queue
  /\ UNCHANGED <<lifeVars, qclosed, workerVars, groupVars, pos, marked, committed, auxVars>>

\* MarkMessage, in both commit modes.  Marking never lowers an offset.
Raise(p, o) == IF o > marked[p] THEN o ELSE marked[p]

ClaimMark(p) ==
  /\ cpc[p] = "mark"
  /\ marked' = [marked EXCEPT ![p] = Raise(p, pos[p] + 1)]
  /\ pos' = [pos EXCEPT ![p] = pos[p] + 1]
  /\ cpc' = [cpc EXCEPT ![p] = "recv"]
  /\ UNCHANGED <<lifeVars, queueVars, workerVars, groupVars, committed, auxVars>>
-----------------------------------------------------------------------------
(* The worker                                                                *)

\* TryDequeueTo: a batch, or nothing from an open queue, or nothing for ever.
WorkerTake ==
  /\ wpc = "take"
  /\ batch' = Taken(queue, BufferSize) /\ queue' = Left(queue, BufferSize)
  /\ wpc' = IF queue # << >> THEN "handle"
            ELSE IF Drained(queue, qclosed) THEN "stopped" ELSE "empty"
  /\ UNCHANGED <<lifeVars, qclosed, ackSess, groupVars, claimVars, committed, auxVars>>

\* The dequeue found nothing: leave if the context is cancelled, else pause.
Bug_WorkerEmpty ==
  /\ wpc = "empty"
  /\ wpc' = "stopped"
  /\ UNCHANGED <<lifeVars, queueVars, batch, ackSess, groupVars, claimVars, committed, auxVars>>
WorkerEmpty ==
  /\ wpc = "empty"
  /\ wpc' = IF ctxDone THEN "stopped" ELSE "take"
  /\ UNCHANGED <<lifeVars, queueVars, batch, ackSess, groupVars, claimVars, committed, auxVars>>

Live(s) == lpc = "in" /\ sess = s

\* The next message of the batch goes to the application, which may call Ack:
\* its MarkOffset has an effect only while the message's session lives.
WorkerHandle(ack) ==
  /\ wpc = "handle" /\ batch # << >>
  /\ LET m == Head(batch) IN
       /\ batch' = Tail(batch)
       /\ handled' = [handled EXCEPT ![m.p] = handled[m.p] \cup {m.o}]
       /\ ackSess' = IF ack THEN m.s ELSE 0
       /\ marked' = IF ack /\ Live(m.s)
                      THEN [marked EXCEPT ![m.p] = Raise(m.p, m.o + 1)] ELSE marked
       /\ ackedTo' = IF ack /\ m.o + 1 > ackedTo[m.p]
                       THEN [ackedTo EXCEPT ![m.p] = m.o + 1] ELSE ackedTo
       /\ wpc' = IF ack THEN "commit" ELSE "handle"
  /\ UNCHANGED <<lifeVars, queueVars, groupVars, cpc, pos, committed, lost, crashes>>

\* Ack's Commit sends every offset marked in the session; its failure is not
\* reported.
WorkerCommit ==
  /\ wpc = "commit"
  /\ wpc' = "handle" /\ ackSess' = 0
  /\ \/ Live(ackSess) /\ committed' = marked
     \/ UNCHANGED committed
  /\ UNCHANGED <<lifeVars, queueVars, batch, groupVars, claimVars, auxVars>>

\* The batch is handled: next turn.
WorkerNext ==
  /\ wpc = "handle" /\ batch = << >>
  /\ wpc' = "take"
  /\ UNCHANGED <<lifeVars, queueVars, batch, ackSess, groupVars, claimVars, committed, auxVars>>
-----------------------------------------------------------------------------
(* The environment                                                           *)

\* Close cancels the context, then waits for the group's WaitGroup.
CloseCall ==
  /\ closepc = "idle"
  /\ closepc' = "wait" /\ ctxDone' = TRUE
  /\ UNCHANGED <<mainpc, queueVars, workerVars, groupVars, claimVars, committed, auxVars>>

\* SyncSubscribe registers with the WaitGroup when it starts to run.
CloseReturn ==
  /\ closepc = "wait" /\ mainpc \in {"spawned", "returned"}
  /\ closepc' = "returned"
  /\ UNCHANGED <<ctxDone, mainpc, queueVars, workerVars, groupVars, claimVars,
                 committed, auxVars>>

\* The owner of the parent context cancels it.
ParentCancel ==
  /\ ~ctxDone
  /\ ctxDone' = TRUE
  /\ UNCHANGED <<mainpc, closepc, queueVars, workerVars, groupVars, claimVars,
                 committed, auxVars>>

\* What the broker believes consumed and the application has not been given.
Unhandled == {x \in Partitions \X Offset : x[2] < committed[x[1]] /\ x[2] \notin handled[x[1]]}

\* The process dies and a new one subscribes: only the broker remembers, and it
\* will not offer again what was committed.
Crash ==
  /\ crashes < MaxCrashes
  /\ crashes' = crashes + 1
  /\ lost' = lost \cup Unhandled
  /\ ctxDone' = FALSE /\ mainpc' = "spawned" /\ closepc' = "idle"
  /\ queue' = << >> /\ qclosed' = FALSE
  /\ batch' = << >> /\ wpc' = "off" /\ ackSess' = 0
  /\ lpc' = "off" /\ sdone' = FALSE /\ setups' = 0 /\ groupClosed' = FALSE
  /\ cpc' = NoClaim /\ pos' = committed /\ marked' = committed
  /\ UNCHANGED <<sess, committed, handled, ackedTo>>

\* Close and SyncSubscribe have returned: the program may stop.
Terminating ==
  /\ mainpc = "returned" /\ closepc = "returned"
  /\ UNCHANGED vars

Main   == MainStart \/ MainCancelled \/ MainGroupClose \/ MainQueueClose \/ MainReturn
Loop   == LoopError \/ LoopRelease \/ LoopCheck
Claim(p) == ClaimClosed(p) \/ ClaimCheck(p) \/ ClaimTry(p) \/ ClaimMark(p)
Worker == WorkerTake \/ WorkerEmpty \/ WorkerCommit \/ WorkerNext
            \/ \E ack \in BOOLEAN : WorkerHandle(ack)
Environment == CloseCall \/ ParentCancel \/ Crash \/ Rebalance \/ AutoCommitTick

Next ==
  \/ Main \/ Loop \/ Worker \/ CloseReturn \/ Environment \/ Terminating
  \/ \E claims \in SUBSET Partitions : LoopSession(claims)
  \/ \E p \in Partitions : Claim(p) \/ ClaimReceive(p)

Spec == Init /\ [][Next]_vars

(* Every goroutine keeps running.  Nothing obliges the broker to deliver a   *)
(* message or to start a session, nor anybody to close, cancel or crash.     *)
FairSpec ==
  /\ Spec
  /\ WF_vars(Main) /\ WF_vars(Loop) /\ WF_vars(Worker) /\ WF_vars(CloseReturn)
  /\ \A p \in Partitions : WF_vars(Claim(p))
-----------------------------------------------------------------------------
(* Type invariant; the worker and the claims never hold more than the queue  *)
(* and the buffer allow.                                                     *)
TypeOK ==
  /\ ctxDone \in BOOLEAN /\ qclosed \in BOOLEAN /\ sdone \in BOOLEAN
  /\ groupClosed \in BOOLEAN
  /\ mainpc \in {"spawned", "ready", "groupclose", "queueclose", "waitworker", "returned"}
  /\ closepc \in {"idle", "wait", "returned"}
  /\ queue \in Seq(Message) /\ Len(queue) <= BufferSize
  /\ batch \in Seq(Message) /\ Len(batch) <= BufferSize
  /\ wpc \in {"off", "take", "empty", "handle", "commit", "stopped"}
  /\ ackSess \in 0 .. MaxSessions
  /\ lpc \in {"off", "consume", "in", "check", "exited"}
  /\ sess \in 0 .. MaxSessions /\ setups \in Nat
  /\ cpc \in [Partitions -> {"off", "recv", "check", "try", "mark"}]
  /\ pos \in [Partitions -> 0 .. LogEnd]
  /\ marked \in [Partitions -> 0 .. LogEnd]
  /\ committed \in [Partitions -> 0 .. LogEnd]
  /\ handled \in [Partitions -> SUBSET Offset]
  /\ lost \subseteq Partitions \X Offset
  /\ ackedTo \in [Partitions -> 0 .. LogEnd]
  /\ crashes \in 0 .. MaxCrashes

\* An offset that was delivered: given to the application, on its way to it
\* in this process, or lost with a process that died.
AccountedAt(p, o) ==
  \/ o \in handled[p]
  \/ <<p, o>> \in lost
  \/ \E m \in InFlight : m.p = p /\ m.o = o

(* Every offset the broker believes consumed is accounted for: a commit      *)
(* never passes over a message that was not even enqueued, whatever          *)
(* rebalances, shutdowns and crashes do (MarkMessage after a successful      *)
(* TryEnqueue only, sub.go:352-367).                                         *)
Accounted ==
  \A p \in Partitions : \A o \in Offset : o < committed[p] => AccountedAt(p, o)

\* What the claims and the session's marks have passed over is accounted for
\* as well, long before it is committed.
PassedAccounted ==
  \A p \in Partitions : \A o \in Offset :
    (o < committed[p] \/ o < marked[p] \/ o < pos[p] \/ (cpc[p] = "mark" /\ o = pos[p]))
      => AccountedAt(p, o)

\* A message of the running session that is on its way is not ahead of its
\* claim, so acknowledging it passes over nothing.
InFlightBehindClaim ==
  \A m \in InFlight :
    /\ m.s <= sess
    /\ lpc = "in" /\ m.s = sess
         => m.o < pos[m.p] \/ (m.o = pos[m.p] /\ cpc[m.p] = "mark")

\* Claims run inside a session only, and hold messages that exist.
ClaimsInSession ==
  /\ mainpc = "spawned" => lpc = "off"
  /\ lpc = "in" => sess >= 1
  /\ \A p \in Partitions :
       /\ cpc[p] # "off" => lpc = "in"
       /\ cpc[p] \in {"check", "try", "mark"} => pos[p] < LogEnd

\* Only the first session can have marks below the committed offsets.
MarksAhead ==
  lpc = "in" /\ setups # 1 => \A p \in Partitions : committed[p] <= marked[p]

\* The worker dequeues only after it has handled its batch.
BatchHandledFirst ==
  /\ mainpc = "spawned" => wpc = "off"
  /\ wpc \notin {"handle", "commit"} => batch = << >>

(* The inductive invariant behind Accounted and NoLateRewind: a commit       *)
(* writes marks, marks come from claims and acknowledgements, and both       *)
(* follow a successful enqueue (sub.go:352-367, config_sarama.go:64-71).     *)
IInv ==
  /\ TypeOK /\ PassedAccounted /\ InFlightBehindClaim
  /\ ClaimsInSession /\ BatchHandledFirst /\ MarksAhead

(* The broker never runs further ahead of the application than the queue and *)
(* the worker's buffer reach: a crash loses no more of what was committed.   *)
(* It would lose more if an offset were marked before its message is in the  *)
(* queue, or committed past the marks (sub.go:110, 352-367).                 *)
CrashLossBounded == Cardinality(lost) <= crashes * 2 * BufferSize

(* Within a session the application gets a partition's messages in order and *)
(* once: the worker's batch followed by the queue is ascending.              *)
SessionOrder ==
  LET pipe == batch \o queue IN
  \A i, j \in 1 .. Len(pipe) :
    i < j /\ pipe[i].p = pipe[j].p /\ pipe[i].s = pipe[j].s => pipe[i].o < pipe[j].o

(* Once SyncSubscribe has returned, and OnExit told the application so,      *)
(* nothing runs on its behalf: no claim is left, and nothing will be handed  *)
(* to the application any more (group.Close, then workerWg.Wait,             *)
(* sub.go:230-235).                                                          *)
QuietAfterReturn ==
  mainpc = "returned" => cpc = NoClaim /\ lpc # "in" /\ wpc = "stopped" /\ batch = << >>

(* After a rebalance the group never goes back: only the first session of a  *)
(* process may lower a committed offset (the sync.Once of Setup).            *)
NoLateRewind ==
  [][\A p \in Partitions : committed'[p] < committed[p] => setups = 1]_vars

(* Once the context is cancelled SyncSubscribe returns, with claims blocked  *)
(* on a full queue or not, unless the process dies first.                    *)
ShutdownCompletes == ctxDone ~> (mainpc = "returned" \/ ~ctxDone)

(* Before the shutdown, what is enqueued reaches the application.            *)
QueuedIsHandled ==
  \A m \in Message : (m \in InFlight) ~> (m \notin InFlight \/ ctxDone)

(* config_sarama.go:63 says Ack confirms the messages up to the acknowledged *)
(* one; in the manual mode nothing else confirms messages.                   *)
AckCommitsOnlyAcked ==
  AutoCommit = "none" => \A p \in Partitions : committed[p] <= ackedTo[p]
=============================================================================
