------------------------- MODULE KafkaConsumerProofs -------------------------
(* The types of KafkaConsumer and its safety properties, for every set of    *)
(* partitions, buffer size, log, start offsets and commit mode: Accounted,   *)
(* NoLateRewind, QuietAfterReturn, SessionOrder and CrashLossBounded.        *)
EXTENDS KafkaConsumer, LockedRingBufferProofs, FiniteSetTheorems

USE ConsumerAssumption

(* Types and the place of the claims hold together: an enqueued message has  *)
(* the number of the running session.                                        *)
LEMMA InitTypes == Init => TypeOK /\ ClaimsInSession
<1> SUFFICES ASSUME Init PROVE TypeOK /\ ClaimsInSession
  OBVIOUS
<1>1. << >> \in Seq(Message) /\ Len(<< >>) = 0
  OBVIOUS
<1>2. \A p \in Partitions : 0 .. committed[p] - 1 \subseteq Offset
  BY DEF Init, Offset
<1>3. TypeOK
  <2>1. /\ queue \in Seq(Message) /\ Len(queue) <= BufferSize
        /\ batch \in Seq(Message) /\ Len(batch) <= BufferSize
    BY <1>1 DEF Init
  <2>2. /\ ctxDone = FALSE /\ qclosed = FALSE /\ sdone = FALSE /\ groupClosed = FALSE
        /\ mainpc = "spawned" /\ closepc = "idle" /\ wpc = "off" /\ lpc = "off"
        /\ ackSess = 0 /\ sess = 0 /\ setups = 0 /\ crashes = 0 /\ lost = {}
    BY DEF Init
  <2>3. /\ cpc \in [Partitions -> {"off", "recv", "check", "try", "mark"}]
        /\ committed \in [Partitions -> 0 .. LogEnd]
        /\ pos = committed /\ marked = committed /\ ackedTo = committed
        /\ handled \in [Partitions -> SUBSET Offset]
    BY <1>2 DEF Init, NoClaim
  <2>4. /\ ackSess \in 0 .. MaxSessions /\ sess \in 0 .. MaxSessions
        /\ setups \in Nat /\ crashes \in 0 .. MaxCrashes
        /\ lost \subseteq Partitions \X Offset
    BY <2>2
  <2>5. QED
    BY <2>1, <2>2, <2>3, <2>4 DEF TypeOK
<1>4. ClaimsInSession
  BY DEF Init, ClaimsInSession, NoClaim
<1>5. QED
  BY <1>3, <1>4

(* What is on its way is a message.                                          *)
LEMMA InFlightMessages ==
  ASSUME TypeOK
  PROVE  \A m \in InFlight :
           m \in Message /\ m.p \in Partitions /\ m.o \in Offset /\ m.s \in 1 .. MaxSessions
<1>1. Elements(queue) \subseteq Message
  BY ElementsAreMessages DEF TypeOK
<1>2. Elements(batch) \subseteq Message
  BY ElementsAreMessages DEF TypeOK
<1>3. QED
  BY <1>1, <1>2 DEF InFlight, Message

LEMMA TypesStep ==
  ASSUME TypeOK, ClaimsInSession, [Next]_vars
  PROVE  TypeOK' /\ ClaimsInSession'
<1> USE DEF lifeVars, queueVars, workerVars, groupVars, claimVars, auxVars
<1>1. CASE MainStart
  BY SMTT(30), <1>1 DEF MainStart, TypeOK, ClaimsInSession
<1>2. CASE MainCancelled
  BY SMTT(30), <1>2 DEF MainCancelled, TypeOK, ClaimsInSession
<1>3. CASE MainGroupClose
  BY SMTT(30), <1>3 DEF MainGroupClose, TypeOK, ClaimsInSession
<1>4. CASE MainQueueClose
  BY SMTT(30), <1>4 DEF MainQueueClose, TypeOK, ClaimsInSession
<1>5. CASE MainReturn
  BY SMTT(30), <1>5 DEF MainReturn, TypeOK, ClaimsInSession
<1>6. CASE LoopError
  BY SMTT(30), <1>6 DEF LoopError, TypeOK, ClaimsInSession
<1>7. CASE LoopRelease
  <2>1. /\ cpc = NoClaim /\ lpc' = "check" /\ sdone' = TRUE
        /\ pos' = committed' /\ marked' = committed'
        /\ UNCHANGED <<lifeVars, queueVars, workerVars, sess, setups, groupClosed, cpc, auxVars>>
    BY <1>7 DEF LoopRelease
  <2>2. committed' \in [Partitions -> 0 .. LogEnd]
    BY <1>7 DEF LoopRelease, TypeOK
  <2>3. TypeOK'
    BY SMTT(30), <2>1, <2>2 DEF TypeOK
  <2>4. mainpc = "spawned" => lpc = "off"
    BY DEF ClaimsInSession
  <2>5. lpc # "off"
    BY <1>7 DEF LoopRelease
  <2>6. ClaimsInSession'
    BY <2>1, <2>4, <2>5 DEF ClaimsInSession, NoClaim
  <2>7. QED
    BY <2>3, <2>6
<1>8. CASE LoopCheck
  BY SMTT(30), <1>8 DEF LoopCheck, TypeOK, ClaimsInSession
<1>9. CASE AutoCommitTick
  BY SMTT(30), <1>9 DEF AutoCommitTick, TypeOK, ClaimsInSession
<1>10. CASE Rebalance
  BY SMTT(30), <1>10 DEF Rebalance, TypeOK, ClaimsInSession
<1>11. ASSUME NEW claims \in SUBSET Partitions, LoopSession(claims)
       PROVE  TypeOK' /\ ClaimsInSession'
  <2>1. \A p \in Partitions : AfterSetup(p, claims) \in 0 .. LogEnd
    BY DEF AfterSetup, TypeOK
  <2>2. TypeOK'
    <3>1. /\ pos' \in [Partitions -> 0 .. LogEnd]
          /\ marked' \in [Partitions -> 0 .. LogEnd]
          /\ cpc' \in [Partitions -> {"off", "recv", "check", "try", "mark"}]
      BY <1>11, <2>1 DEF LoopSession
    <3>2. /\ sess' \in 0 .. MaxSessions /\ setups' \in Nat
          /\ lpc' = "in" /\ sdone' = FALSE
      BY <1>11 DEF LoopSession, TypeOK
    <3>3. /\ ctxDone' = ctxDone /\ mainpc' = mainpc /\ closepc' = closepc
          /\ queue' = queue /\ qclosed' = qclosed /\ batch' = batch /\ wpc' = wpc
          /\ ackSess' = ackSess /\ groupClosed' = groupClosed /\ committed' = committed
          /\ handled' = handled /\ lost' = lost /\ ackedTo' = ackedTo /\ crashes' = crashes
      BY <1>11 DEF LoopSession
    <3>4. /\ ctxDone' \in BOOLEAN /\ qclosed' \in BOOLEAN /\ sdone' \in BOOLEAN
          /\ groupClosed' \in BOOLEAN /\ closepc' \in {"idle", "wait", "returned"}
          /\ mainpc' \in {"spawned", "ready", "groupclose", "queueclose", "waitworker", "returned"}
          /\ wpc' \in {"off", "take", "empty", "handle", "commit", "stopped"}
          /\ lpc' \in {"off", "consume", "in", "check", "exited"}
      BY <3>2, <3>3 DEF TypeOK
    <3>5. /\ queue' \in Seq(Message) /\ Len(queue') <= BufferSize
          /\ batch' \in Seq(Message) /\ Len(batch') <= BufferSize
          /\ ackSess' \in 0 .. MaxSessions
          /\ committed' \in [Partitions -> 0 .. LogEnd]
          /\ handled' \in [Partitions -> SUBSET Offset]
          /\ lost' \subseteq Partitions \X Offset
          /\ ackedTo' \in [Partitions -> 0 .. LogEnd] /\ crashes' \in 0 .. MaxCrashes
      BY <3>3 DEF TypeOK
    <3>6. QED
      BY <3>1, <3>2, <3>4, <3>5 DEF TypeOK
  <2>3. ClaimsInSession'
    BY SMTT(30), <1>11 DEF LoopSession, TypeOK, ClaimsInSession
  <2>4. QED
    BY <2>2, <2>3
<1>12. ASSUME NEW p \in Partitions, ClaimReceive(p)
       PROVE  TypeOK' /\ ClaimsInSession'
  BY SMTT(30), <1>12 DEF ClaimReceive, TypeOK, ClaimsInSession
<1>13. ASSUME NEW p \in Partitions, ClaimClosed(p)
       PROVE  TypeOK' /\ ClaimsInSession'
  BY SMTT(90), <1>13 DEF ClaimClosed, ClaimReturns, TypeOK, ClaimsInSession
<1>14. ASSUME NEW p \in Partitions, ClaimCheck(p)
       PROVE  TypeOK' /\ ClaimsInSession'
  <2>1. /\ lpc' = lpc /\ cpc[p] = "check"
        /\ UNCHANGED <<lifeVars, queueVars, workerVars, sess, setups, groupClosed, pos, marked,
                       committed, auxVars>>
    BY <1>14 DEF ClaimCheck, ClaimReturns
  <2>2. /\ cpc' = [cpc EXCEPT ![p] = "off"] \/ cpc' = [cpc EXCEPT ![p] = "try"]
        /\ sdone' \in BOOLEAN
    BY <1>14 DEF ClaimCheck, ClaimReturns, TypeOK
  <2>3. cpc' \in [Partitions -> {"off", "recv", "check", "try", "mark"}]
    BY <2>2 DEF TypeOK
  <2>4. TypeOK'
    BY SMTT(30), <2>1, <2>2, <2>3 DEF TypeOK
  <2>5. \A r \in Partitions : cpc'[r] = cpc[r] \/ (r = p /\ cpc'[r] \in {"off", "try"})
    BY <2>2 DEF TypeOK
  <2>6. ClaimsInSession'
    BY SMTT(30), <2>1, <2>5 DEF ClaimsInSession
  <2>7. QED
    BY <2>4, <2>6
<1>15. ASSUME NEW p \in Partitions, ClaimTry(p)
       PROVE  TypeOK' /\ ClaimsInSession'
  <2> DEFINE m == [p |-> p, o |-> pos[p], s |-> sess]
  <2>1. m \in Message
    BY <1>15 DEF ClaimTry, TypeOK, ClaimsInSession, Message, Offset
  <2>2. ASSUME Room, queue' = Append(queue, m)
        PROVE  queue' \in Seq(Message) /\ Len(queue') <= BufferSize
    <3>1. queue' \in Seq(Message) /\ Len(queue') = Len(queue) + 1
      BY <2>1, <2>2, AppendProperties DEF TypeOK
    <3>2. Len(queue') <= BufferSize
      BY <2>2, <3>1 DEF Room, Accepts, TypeOK
    <3>3. QED
      BY <3>1, <3>2
  <2>3. ASSUME UNCHANGED queue
        PROVE  queue' \in Seq(Message) /\ Len(queue') <= BufferSize
    BY <2>3 DEF TypeOK
  <2>4. queue' \in Seq(Message) /\ Len(queue') <= BufferSize
    <3>1. (Room /\ queue' = Append(queue, m)) \/ UNCHANGED queue
      BY <1>15 DEF ClaimTry
    <3>2. QED
      BY <2>2, <2>3, <3>1
  <2>5. /\ cpc' \in [Partitions -> {"off", "recv", "check", "try", "mark"}]
        /\ \A r \in Partitions : cpc'[r] = cpc[r] \/ (r = p /\ cpc'[r] \in {"check", "mark"})
    BY <1>15 DEF ClaimTry, AfterEnqueue, TypeOK
  <2>6. UNCHANGED <<lifeVars, qclosed, workerVars, groupVars, pos, marked, committed, auxVars>>
    BY <1>15 DEF ClaimTry
  <2>7. TypeOK'
    BY SMTT(90), <2>4, <2>5, <2>6 DEF TypeOK
  <2>8. ClaimsInSession'
    BY <1>15, <2>5, <2>6 DEF ClaimTry, ClaimsInSession
  <2>9. QED
    BY <2>7, <2>8
<1>16. ASSUME NEW p \in Partitions, ClaimMark(p)
       PROVE  TypeOK' /\ ClaimsInSession'
  <2>1. /\ lpc' = lpc /\ cpc[p] = "mark" /\ pos[p] < LogEnd /\ lpc = "in"
        /\ UNCHANGED <<lifeVars, queueVars, workerVars, groupVars, committed, auxVars>>
    BY <1>16 DEF ClaimMark, ClaimsInSession
  <2>2. pos[p] + 1 \in 0 .. LogEnd /\ Raise(p, pos[p] + 1) \in 0 .. LogEnd
    BY <2>1 DEF Raise, TypeOK
  <2>3. /\ cpc' \in [Partitions -> {"off", "recv", "check", "try", "mark"}]
        /\ pos' \in [Partitions -> 0 .. LogEnd]
        /\ marked' \in [Partitions -> 0 .. LogEnd]
    BY <1>16, <2>2 DEF ClaimMark, TypeOK
  <2>4. TypeOK'
    BY SMTT(90), <2>1, <2>3 DEF TypeOK
  <2>5. \A r \in Partitions : (cpc'[r] = cpc[r] /\ pos'[r] = pos[r]) \/ cpc'[r] = "recv"
    BY <1>16 DEF ClaimMark, TypeOK
  <2>6. ClaimsInSession'
    BY SMTT(30), <2>1, <2>5 DEF ClaimsInSession
  <2>7. QED
    BY <2>4, <2>6
<1>17. CASE WorkerTake
  <2>1. /\ batch' \in Seq(Message) /\ Len(batch') <= BufferSize
        /\ queue' \in Seq(Message) /\ Len(queue') <= Len(queue)
    BY <1>17, TakenAndLeft DEF WorkerTake, TypeOK
  <2>2. Len(queue') <= BufferSize
    <3>1. Len(queue) \in Nat /\ Len(queue') \in Nat
      BY <2>1 DEF TypeOK
    <3>2. QED
      BY <2>1, <3>1 DEF TypeOK
  <2>3. QED
    BY SMTT(30), <1>17, <2>1, <2>2 DEF WorkerTake, TypeOK, ClaimsInSession
<1>18. CASE WorkerEmpty
  BY SMTT(30), <1>18 DEF WorkerEmpty, TypeOK, ClaimsInSession
<1>19. ASSUME NEW ack \in BOOLEAN, WorkerHandle(ack)
       PROVE  TypeOK' /\ ClaimsInSession'
  <2> DEFINE m == Head(batch)
  <2>1. m \in Message /\ batch' \in Seq(Message) /\ Len(batch') = Len(batch) - 1
    BY <1>19, HeadAndTail DEF WorkerHandle, TypeOK
  <2>2. /\ m.p \in Partitions /\ m.o \in Offset /\ m.s \in 1 .. MaxSessions
        /\ m.o + 1 \in 0 .. LogEnd
    BY <2>1 DEF Message, Offset
  <2>3. Len(batch') <= BufferSize
    <3>1. Len(batch) \in Nat
      BY DEF TypeOK
    <3>2. QED
      BY <2>1, <3>1 DEF TypeOK
  <2>4. /\ handled' = [handled EXCEPT ![m.p] = handled[m.p] \cup {m.o}]
        /\ handled' \in [Partitions -> SUBSET Offset]
    BY <1>19, <2>2 DEF WorkerHandle, TypeOK
  <2>5. Raise(m.p, m.o + 1) \in 0 .. LogEnd
    BY <2>2 DEF Raise, TypeOK
  <2>6. /\ marked' \in [Partitions -> 0 .. LogEnd]
        /\ ackedTo' \in [Partitions -> 0 .. LogEnd]
        /\ ackSess' \in 0 .. MaxSessions
        /\ wpc' \in {"commit", "handle"}
    <3>1. \/ marked' = [marked EXCEPT ![m.p] = Raise(m.p, m.o + 1)]
          \/ marked' = marked
      BY <1>19 DEF WorkerHandle
    <3>2. marked' \in [Partitions -> 0 .. LogEnd]
      BY <2>5, <3>1 DEF TypeOK
    <3>3. \/ ackedTo' = [ackedTo EXCEPT ![m.p] = m.o + 1]
          \/ ackedTo' = ackedTo
      BY <1>19 DEF WorkerHandle
    <3>4. ackedTo' \in [Partitions -> 0 .. LogEnd]
      BY <2>2, <3>3 DEF TypeOK
    <3>5. ackSess' \in 0 .. MaxSessions /\ wpc' \in {"commit", "handle"}
      BY <1>19, <2>2 DEF WorkerHandle
    <3>6. QED
      BY <3>2, <3>4, <3>5
  <2>7. TypeOK'
    BY SMTT(90), <1>19, <2>1, <2>3, <2>4, <2>6 DEF WorkerHandle, TypeOK
  <2>8. ClaimsInSession'
    BY <1>19 DEF WorkerHandle, ClaimsInSession
  <2>9. QED
    BY <2>7, <2>8
<1>20. CASE WorkerCommit
  BY SMTT(90), <1>20 DEF WorkerCommit, TypeOK, ClaimsInSession
<1>21. CASE WorkerNext
  BY SMTT(30), <1>21 DEF WorkerNext, TypeOK, ClaimsInSession
<1>22. CASE CloseCall
  BY SMTT(30), <1>22 DEF CloseCall, TypeOK, ClaimsInSession
<1>23. CASE CloseReturn
  BY SMTT(30), <1>23 DEF CloseReturn, TypeOK, ClaimsInSession
<1>24. CASE ParentCancel
  BY SMTT(30), <1>24 DEF ParentCancel, TypeOK, ClaimsInSession
<1>25. CASE Crash
  <2>1. << >> \in Seq(Message) /\ Len(<< >>) = 0
    OBVIOUS
  <2>3. lost' \subseteq Partitions \X Offset
    BY <1>25 DEF Crash, Unhandled, TypeOK
  <2>4. TypeOK'
    <3>1. /\ queue' \in Seq(Message) /\ Len(queue') <= BufferSize
          /\ batch' \in Seq(Message) /\ Len(batch') <= BufferSize
      BY <1>25, <2>1 DEF Crash
    <3>2. /\ cpc' \in [Partitions -> {"off", "recv", "check", "try", "mark"}]
          /\ crashes' \in 0 .. MaxCrashes
      BY <1>25 DEF Crash, TypeOK, NoClaim
    <3>3. /\ ctxDone' \in BOOLEAN /\ qclosed' \in BOOLEAN /\ sdone' \in BOOLEAN
          /\ groupClosed' \in BOOLEAN /\ mainpc' = "spawned" /\ closepc' = "idle"
          /\ wpc' = "off" /\ ackSess' = 0 /\ lpc' = "off" /\ setups' = 0
      BY <1>25 DEF Crash
    <3>4. /\ pos' = committed /\ marked' = committed
          /\ UNCHANGED <<sess, committed, handled, ackedTo>>
      BY <1>25 DEF Crash
    <3>5. QED
      BY <2>3, <3>1, <3>2, <3>3, <3>4 DEF TypeOK
  <2>5. ClaimsInSession'
    BY <1>25 DEF Crash, ClaimsInSession, NoClaim
  <2>6. QED
    BY <2>4, <2>5
<1>26. CASE UNCHANGED vars
  BY SMTT(30), <1>26 DEF vars, TypeOK, ClaimsInSession
<1>27. QED
  BY <1>1, <1>2, <1>3, <1>4, <1>5, <1>6, <1>7, <1>8, <1>9, <1>10, <1>11, <1>12, <1>13,
     <1>14, <1>15, <1>16, <1>17, <1>18, <1>19, <1>20, <1>21, <1>22, <1>23, <1>24, <1>25,
     <1>26
     DEF Next, Main, Loop, Claim, Worker, Environment, Terminating

-----------------------------------------------------------------------------
(* What is accounted for stays so.                                           *)
LEMMA AccountedStays ==
  ASSUME NEW p \in Partitions, NEW o \in Offset, AccountedAt(p, o),
         o \in handled[p] => o \in handled'[p],
         lost \subseteq lost',
         \A m \in InFlight : m \in InFlight' \/ m.o \in handled'[m.p] \/ <<m.p, m.o>> \in lost'
  PROVE  AccountedAt(p, o)'
BY DEF AccountedAt

(* A step that leaves the pipe, the claims, the session and the marks alone  *)
(* and commits nothing but marks keeps the invariant.                        *)
LEMMA QuietStep ==
  ASSUME IInv, UNCHANGED <<queue, batch, sess, cpc, pos, marked, handled, lost>>,
         lpc' = lpc \/ lpc' # "in",
         setups' = setups \/ lpc' # "in",
         \/ UNCHANGED committed
         \/ committed' = marked
  PROVE  PassedAccounted' /\ InFlightBehindClaim' /\ MarksAhead'
<1>1. InFlight' = InFlight
  BY DEF InFlight, Elements, Range
<1>2. \A p \in Partitions, o \in Offset : AccountedAt(p, o) => AccountedAt(p, o)'
  BY <1>1 DEF AccountedAt
<1>3. PassedAccounted'
  BY <1>2 DEF IInv, PassedAccounted
<1>4. InFlightBehindClaim'
  BY <1>1 DEF IInv, InFlightBehindClaim
<1>5. MarksAhead'
  BY DEF IInv, MarksAhead, TypeOK
<1>6. QED
  BY <1>3, <1>4, <1>5
LEMMA InitAccounted == Init => PassedAccounted /\ InFlightBehindClaim /\ MarksAhead
<1> SUFFICES ASSUME Init PROVE PassedAccounted /\ InFlightBehindClaim /\ MarksAhead
  OBVIOUS
<1>1. InFlight = {}
  BY ElementsOfEmpty DEF Init, InFlight
<1>2. ASSUME NEW p \in Partitions, NEW o \in Offset, o < committed[p]
      PROVE  o \in handled[p]
  BY <1>2 DEF Init, Offset
<1>3. PassedAccounted
  BY <1>2 DEF Init, PassedAccounted, AccountedAt, NoClaim
<1>4. QED
  BY <1>1, <1>3 DEF Init, InFlightBehindClaim, MarksAhead

(* A session starts at offsets that were committed, or below them.           *)
LEMMA SessionStep ==
  ASSUME IInv, NEW claims \in SUBSET Partitions, LoopSession(claims)
  PROVE  PassedAccounted' /\ InFlightBehindClaim' /\ MarksAhead'
<1>1. \A p \in Partitions : /\ pos'[p] <= committed[p] /\ marked'[p] = pos'[p]
                            /\ cpc'[p] # "mark" /\ pos'[p] \in Int
  BY DEF IInv, TypeOK, LoopSession, AfterSetup
<1>2. InFlight' = InFlight
  BY DEF LoopSession, queueVars, workerVars, InFlight
<1>3. \A p \in Partitions, o \in Offset : AccountedAt(p, o) => AccountedAt(p, o)'
  BY <1>2 DEF AccountedAt, LoopSession, auxVars
<1>4. PassedAccounted'
  <2> SUFFICES ASSUME NEW p \in Partitions, NEW o \in Offset,
                      o < committed'[p] \/ o < marked'[p] \/ o < pos'[p]
                        \/ (cpc'[p] = "mark" /\ o = pos'[p])
               PROVE  AccountedAt(p, o)'
    BY DEF PassedAccounted
  <2>1. committed'[p] = committed[p] /\ committed[p] \in Int /\ o \in Int
    BY DEF LoopSession, IInv, TypeOK, Offset
  <2>2. o < committed[p]
    BY <1>1, <2>1
  <2>3. QED
    BY <1>3, <2>2 DEF IInv, PassedAccounted
<1>5. InFlightBehindClaim'
  <2>1. \A m \in InFlight : m.s <= sess
    BY DEF IInv, InFlightBehindClaim
  <2>2. \A m \in InFlight : m.s \in Nat
    BY InFlightMessages DEF IInv
  <2>3. sess' = sess + 1 /\ sess \in Nat
    BY DEF LoopSession, IInv, TypeOK
  <2>4. \A m \in InFlight : m.s <= sess' /\ m.s # sess'
    BY <2>1, <2>2, <2>3
  <2>5. QED
    BY <1>2, <2>4 DEF InFlightBehindClaim
<1>6. MarksAhead'
  <2>1. setups' # 1 => setups # 0
    BY DEF LoopSession, IInv, TypeOK
  <2>2. setups # 0 => \A p \in Partitions : marked'[p] = committed[p]
    BY DEF LoopSession, AfterSetup
  <2>3. committed' = committed /\ \A p \in Partitions : committed[p] \in Int
    BY DEF LoopSession, IInv, TypeOK
  <2>4. QED
    BY <2>1, <2>2, <2>3 DEF MarksAhead
<1>7. QED
  BY <1>4, <1>5, <1>6

(* The claims put a message into the queue before they pass over it.         *)
LEMMA ClaimStep ==
  ASSUME IInv, NEW p \in Partitions, Claim(p) \/ ClaimReceive(p)
  PROVE  PassedAccounted' /\ InFlightBehindClaim' /\ MarksAhead'
<1> USE DEF IInv
<1>1. \A m \in InFlight : m.p \in Partitions /\ m.o \in Offset /\ m.s \in Nat
  BY InFlightMessages
<1>2. CASE ClaimReceive(p) \/ ClaimClosed(p) \/ ClaimCheck(p)
  <2>1. InFlight' = InFlight /\ UNCHANGED <<pos, marked, committed, handled, lost, sess, setups, lpc>>
    BY <1>2 DEF ClaimReceive, ClaimClosed, ClaimCheck, ClaimReturns, queueVars, workerVars,
                auxVars, groupVars, InFlight
  <2>2. \A r \in Partitions : (cpc'[r] = "mark") <=> (cpc[r] = "mark")
    BY <1>2 DEF ClaimReceive, ClaimClosed, ClaimCheck, ClaimReturns, TypeOK
  <2>3. QED
    BY <1>1, <2>1, <2>2 DEF PassedAccounted, InFlightBehindClaim, MarksAhead, AccountedAt
<1>3. CASE ClaimTry(p)
  <2> DEFINE m == [p |-> p, o |-> pos[p], s |-> sess]
  <2>0. /\ UNCHANGED <<batch, pos, marked, committed, handled, lost, sess, setups, lpc>>
        /\ cpc[p] = "try"
    BY <1>3 DEF ClaimTry, workerVars, auxVars, groupVars
  <2>1. CASE queue' = Append(queue, m) /\ cpc' = [cpc EXCEPT ![p] = "mark"]
    <3>1. m \in Message /\ m.p = p /\ m.o = pos[p] /\ m.s = sess
      BY <1>3 DEF ClaimTry, TypeOK, ClaimsInSession, Message, Offset
    <3>2. InFlight' = InFlight \cup {m}
      BY <2>0, <2>1, <3>1, ElementsOfAppend DEF InFlight, TypeOK
    <3>3. \A r \in Partitions, o \in Offset : AccountedAt(r, o) => AccountedAt(r, o)'
      BY <2>0, <3>2 DEF AccountedAt
    <3>4. \A o \in Offset : o = pos[p] => AccountedAt(p, o)'
      BY <3>1, <3>2 DEF AccountedAt
    <3>5. \A r \in Partitions : cpc'[r] = IF r = p THEN "mark" ELSE cpc[r]
      BY <2>1 DEF TypeOK
    <3>6. PassedAccounted'
      BY <2>0, <3>3, <3>4, <3>5 DEF PassedAccounted
    <3>7. InFlightBehindClaim'
      <4>1. \A i \in InFlight' : i \in InFlight \/ (i.p = p /\ i.o = pos[p] /\ i.s = sess)
        BY <3>1, <3>2
      <4>2. sess \in Int
        BY DEF TypeOK
      <4>3. QED
        BY <1>1, <2>0, <3>5, <4>1, <4>2 DEF InFlightBehindClaim
    <3>8. QED
      BY <2>0, <3>6, <3>7 DEF MarksAhead
  <2>2. CASE UNCHANGED queue /\ cpc' = [cpc EXCEPT ![p] = "check"]
    <3>1. InFlight' = InFlight
      BY <2>0, <2>2 DEF InFlight
    <3>2. \A r \in Partitions : (cpc'[r] = "mark") <=> (cpc[r] = "mark")
      BY <2>0, <2>2 DEF TypeOK
    <3>3. QED
      BY <1>1, <2>0, <3>1, <3>2 DEF PassedAccounted, InFlightBehindClaim, MarksAhead, AccountedAt
  <2>3. QED
    BY <1>3, <2>1, <2>2 DEF ClaimTry, AfterEnqueue
<1>4. CASE ClaimMark(p)
  <2>1. InFlight' = InFlight /\ UNCHANGED <<committed, handled, lost, sess, setups, lpc>>
    BY <1>4 DEF ClaimMark, queueVars, workerVars, auxVars, groupVars, InFlight
  <2>2. /\ cpc[p] = "mark" /\ cpc'[p] = "recv" /\ pos'[p] = pos[p] + 1
        /\ marked'[p] = Raise(p, pos[p] + 1)
        /\ \A r \in Partitions \ {p} : cpc'[r] = cpc[r] /\ pos'[r] = pos[r] /\ marked'[r] = marked[r]
    BY <1>4 DEF ClaimMark, TypeOK
  <2>3. pos[p] \in Int /\ marked[p] \in Int /\ marked[p] <= marked'[p]
        /\ (marked'[p] = marked[p] \/ marked'[p] = pos[p] + 1)
    BY <2>2 DEF TypeOK, Raise
  <2>4. \A r \in Partitions, o \in Offset : AccountedAt(r, o) => AccountedAt(r, o)'
    BY <2>1 DEF AccountedAt
  <2>5. PassedAccounted'
    <3> SUFFICES ASSUME NEW r \in Partitions, NEW o \in Offset,
                        o < committed'[r] \/ o < marked'[r] \/ o < pos'[r]
                          \/ (cpc'[r] = "mark" /\ o = pos'[r])
                 PROVE  AccountedAt(r, o)'
      BY DEF PassedAccounted
    <3>1. CASE r # p
      BY <2>1, <2>2, <2>4, <3>1 DEF PassedAccounted
    <3>2. CASE r = p
      <4>1. o \in Int
        BY DEF Offset
      <4>2. o < committed[p] \/ o < marked[p] \/ o < pos[p] \/ o = pos[p]
        BY <2>1, <2>2, <2>3, <3>2, <4>1
      <4>3. QED
        BY <2>2, <2>4, <3>2, <4>2 DEF PassedAccounted
    <3>3. QED
      BY <3>1, <3>2
  <2>6. InFlightBehindClaim'
    <3> SUFFICES ASSUME NEW i \in InFlight, lpc = "in", i.s = sess
                 PROVE  i.o < pos'[i.p] \/ (i.o = pos'[i.p] /\ cpc'[i.p] = "mark")
      BY <2>1 DEF InFlightBehindClaim
    <3>1. i.o < pos[i.p] \/ (i.o = pos[i.p] /\ cpc[i.p] = "mark")
      BY DEF InFlightBehindClaim
    <3>2. i.p \in Partitions /\ i.o \in Int
      BY <1>1 DEF Offset
    <3>3. CASE i.p = p
      BY <2>2, <2>3, <3>1, <3>2, <3>3
    <3>4. CASE i.p # p
      BY <2>2, <3>1, <3>2, <3>4
    <3>5. QED
      BY <3>3, <3>4
  <2>7. MarksAhead'
    <3> SUFFICES ASSUME lpc = "in", setups # 1, NEW r \in Partitions
                 PROVE  committed[r] <= marked'[r]
      BY <2>1 DEF MarksAhead
    <3>1. committed[r] <= marked[r]
      BY DEF MarksAhead
    <3>2. committed[r] \in Int /\ marked[r] \in Int
      BY DEF TypeOK
    <3>3. CASE r = p
      BY <2>3, <3>1, <3>2, <3>3
    <3>4. CASE r # p
      BY <2>2, <3>1, <3>4
    <3>5. QED
      BY <3>3, <3>4
  <2>8. QED
    BY <2>5, <2>6, <2>7
<1>5. QED
  BY <1>2, <1>3, <1>4 DEF Claim

LEMMA BatchStep ==
  ASSUME TypeOK, BatchHandledFirst, [Next]_vars
  PROVE  BatchHandledFirst'
<1> USE DEF BatchHandledFirst
<1>1. CASE WorkerTake
  <2>1. queue = << >> => Taken(queue, BufferSize) = << >>
    BY DEF Taken
  <2>2. QED
    BY <1>1, <2>1 DEF WorkerTake, lifeVars
<1>2. ASSUME NEW ack \in BOOLEAN, WorkerHandle(ack)
      PROVE  BatchHandledFirst'
  BY <1>2 DEF WorkerHandle, lifeVars
<1>3. CASE Crash
  BY <1>3 DEF Crash
<1>4. CASE MainStart
  BY <1>4 DEF MainStart
<1>5. CASE WorkerEmpty \/ WorkerCommit \/ WorkerNext
  BY <1>5 DEF WorkerEmpty, WorkerCommit, WorkerNext, lifeVars
<1>6. CASE \/ MainCancelled \/ MainGroupClose \/ MainQueueClose \/ MainReturn \/ Loop
           \/ CloseReturn \/ CloseCall \/ ParentCancel \/ Rebalance \/ AutoCommitTick
           \/ UNCHANGED vars
  BY <1>6 DEF MainCancelled, MainGroupClose, MainQueueClose, MainReturn, Loop, LoopError,
              LoopRelease, LoopCheck, CloseReturn, CloseCall, ParentCancel, Rebalance,
              AutoCommitTick, vars, workerVars, lifeVars
<1>7. ASSUME NEW claims \in SUBSET Partitions, LoopSession(claims)
      PROVE  BatchHandledFirst'
  BY <1>7 DEF LoopSession, workerVars, lifeVars
<1>8. ASSUME NEW p \in Partitions, Claim(p) \/ ClaimReceive(p)
      PROVE  BatchHandledFirst'
  BY <1>8 DEF Claim, ClaimReceive, ClaimClosed, ClaimCheck, ClaimTry, ClaimMark, workerVars, lifeVars
<1>9. QED
  BY <1>1, <1>2, <1>3, <1>4, <1>5, <1>6, <1>7, <1>8
     DEF Next, Main, Worker, Environment, Terminating

(* The worker moves messages from the queue to its batch and from there to   *)
(* the application; an acknowledgement passes over nothing new.              *)
LEMMA WorkerStep ==
  ASSUME IInv, Worker
  PROVE  PassedAccounted' /\ InFlightBehindClaim' /\ MarksAhead'
<1> USE DEF IInv
<1>1. CASE WorkerTake
  <2>1. UNCHANGED <<pos, marked, committed, handled, lost, sess, setups, lpc, cpc>>
    BY <1>1 DEF WorkerTake, groupVars, claimVars, auxVars
  <2>2. Elements(queue) = Elements(batch') \cup Elements(queue')
    BY <1>1, TakenAndLeft DEF WorkerTake, TypeOK
  <2>3. Elements(batch) = {}
    BY <1>1, ElementsOfEmpty DEF WorkerTake, BatchHandledFirst
  <2>4. InFlight' = InFlight
    BY <2>2, <2>3 DEF InFlight
  <2>5. QED
    BY <2>1, <2>4 DEF PassedAccounted, InFlightBehindClaim, MarksAhead, AccountedAt
<1>2. CASE WorkerEmpty \/ WorkerNext \/ WorkerCommit
  <2>1. /\ UNCHANGED <<queue, batch, sess, cpc, pos, marked, handled, lost, lpc, setups>>
        /\ UNCHANGED committed \/ committed' = marked
    BY <1>2 DEF WorkerEmpty, WorkerNext, WorkerCommit, queueVars, groupVars, claimVars, auxVars
  <2>2. QED
    BY <2>1, QuietStep
<1>3. ASSUME NEW ack \in BOOLEAN, WorkerHandle(ack)
      PROVE  PassedAccounted' /\ InFlightBehindClaim' /\ MarksAhead'
  <2> DEFINE m == Head(batch)
  <2>1. /\ Elements(batch) = Elements(batch') \cup {m}
        /\ UNCHANGED <<queue, sess, setups, lpc, cpc, pos, committed, lost>>
    BY <1>3, HeadAndTail DEF WorkerHandle, TypeOK, queueVars, groupVars
  <2>2. m \in InFlight /\ InFlight = InFlight' \cup {m}
    BY <2>1 DEF InFlight
  <2>3. m.p \in Partitions /\ m.o \in Offset /\ m.o \in Int
    BY <2>2, InFlightMessages DEF Offset
  <2>4. handled' = [handled EXCEPT ![m.p] = handled[m.p] \cup {m.o}]
    BY <1>3 DEF WorkerHandle
  <2>5. /\ m.o \in handled'[m.p]
        /\ \A p \in Partitions : handled[p] \subseteq handled'[p]
    BY <2>3, <2>4 DEF TypeOK
  <2>6. ASSUME NEW p \in Partitions, NEW o \in Offset, AccountedAt(p, o)
        PROVE  AccountedAt(p, o)'
    BY <2>1, <2>2, <2>5, <2>6 DEF AccountedAt
  <2>7. \/ marked' = marked
        \/ Live(m.s) /\ marked' = [marked EXCEPT ![m.p] = Raise(m.p, m.o + 1)]
    BY <1>3 DEF WorkerHandle
  <2>8. \A p \in Partitions :
          /\ marked[p] \in Int /\ marked'[p] \in Int /\ marked[p] <= marked'[p]
          /\ \/ marked'[p] = marked[p]
             \/ p = m.p /\ Live(m.s) /\ marked'[p] = m.o + 1
    <3>1. \A p \in Partitions : marked[p] \in Int
      BY DEF TypeOK
    <3>2. CASE marked' = marked
      BY <3>1, <3>2
    <3>3. CASE Live(m.s) /\ marked' = [marked EXCEPT ![m.p] = Raise(m.p, m.o + 1)]
      <4>1. /\ marked'[m.p] = Raise(m.p, m.o + 1)
            /\ \A p \in Partitions \ {m.p} : marked'[p] = marked[p]
        BY <2>3, <3>3 DEF TypeOK
      <4>2. /\ Raise(m.p, m.o + 1) \in {m.o + 1, marked[m.p]}
            /\ marked[m.p] <= Raise(m.p, m.o + 1)
        BY <2>3, <3>1 DEF Raise
      <4>3. QED
        BY <2>3, <3>1, <3>3, <4>1, <4>2
    <3>4. QED
      BY <2>7, <3>2, <3>3
  <2>9. ASSUME NEW p \in Partitions, NEW o \in Offset, o < marked'[p]
        PROVE  AccountedAt(p, o)
    <3>1. CASE o < marked[p]
      BY <3>1 DEF PassedAccounted
    <3>2. CASE ~(o < marked[p])
      <4>0. o \in Int
        BY DEF Offset
      <4>1. p = m.p /\ Live(m.s) /\ o <= m.o
        BY <2>3, <2>8, <2>9, <3>2, <4>0
      <4>2. m.o < pos[p] \/ (m.o = pos[p] /\ cpc[p] = "mark")
        BY <2>2, <4>1 DEF InFlightBehindClaim, Live
      <4>3. o < pos[p] \/ (o = pos[p] /\ cpc[p] = "mark")
        BY <2>3, <4>0, <4>1, <4>2 DEF TypeOK
      <4>4. QED
        BY <4>3 DEF PassedAccounted
    <3>3. QED
      BY <3>1, <3>2
  <2>10. PassedAccounted'
    BY <2>1, <2>6, <2>9 DEF PassedAccounted
  <2>11. InFlightBehindClaim'
    BY <2>1, <2>2 DEF InFlightBehindClaim
  <2>12. MarksAhead'
    <3> SUFFICES ASSUME lpc = "in", setups # 1, NEW p \in Partitions
                 PROVE  committed[p] <= marked'[p]
      BY <2>1 DEF MarksAhead
    <3>1. committed[p] <= marked[p] /\ committed[p] \in Int
      BY DEF MarksAhead, TypeOK
    <3>2. QED
      BY <2>8, <3>1
  <2>13. QED
    BY <2>10, <2>11, <2>12
<1>4. QED
  BY <1>1, <1>2, <1>3 DEF Worker

(* A released session leaves the committed offsets, whether or not its marks *)
(* were flushed.                                                             *)
LEMMA ReleaseStep ==
  ASSUME IInv, LoopRelease
  PROVE  PassedAccounted' /\ InFlightBehindClaim' /\ MarksAhead'
<1> USE DEF IInv
<1>1. /\ UNCHANGED <<queue, batch, sess, cpc, handled, lost, setups>>
      /\ lpc' = "check" /\ pos' = committed' /\ marked' = committed'
      /\ committed' = marked \/ committed' = committed
      /\ \A p \in Partitions : cpc[p] = "off"
  BY DEF LoopRelease, queueVars, workerVars, auxVars, NoClaim
<1>2. InFlight' = InFlight
  BY <1>1 DEF InFlight
<1>3. \A p \in Partitions, o \in Offset : AccountedAt(p, o) => AccountedAt(p, o)'
  BY <1>1, <1>2 DEF AccountedAt
<1>4. PassedAccounted'
  BY <1>1, <1>3 DEF PassedAccounted
<1>5. QED
  BY <1>1, <1>2, <1>4 DEF InFlightBehindClaim, MarksAhead

(* A crash empties the pipe: what was committed is handled already or lost.  *)
LEMMA CrashStep ==
  ASSUME IInv, Crash
  PROVE  PassedAccounted' /\ InFlightBehindClaim' /\ MarksAhead'
<1> USE DEF IInv
<1>1. InFlight' = {}
  BY ElementsOfEmpty DEF Crash, InFlight
<1>2. /\ UNCHANGED <<committed, handled, sess>>
      /\ lost \subseteq lost'
      /\ lpc' = "off" /\ pos' = committed /\ marked' = committed
      /\ \A p \in Partitions : cpc'[p] = "off"
  BY DEF Crash, NoClaim
<1>3. ASSUME NEW p \in Partitions, NEW o \in Offset, o < committed[p]
      PROVE  AccountedAt(p, o)'
  <2>1. o \in handled[p] \/ <<p, o>> \in lost'
    BY <1>3 DEF Crash, Unhandled
  <2>2. QED
    BY <1>2, <2>1 DEF AccountedAt
<1>4. PassedAccounted'
  BY <1>2, <1>3 DEF PassedAccounted
<1>5. QED
  BY <1>1, <1>2, <1>4 DEF InFlightBehindClaim, MarksAhead

LEMMA InitInv == Init => IInv
<1> SUFFICES ASSUME Init PROVE IInv
  OBVIOUS
<1>1. BatchHandledFirst
  BY DEF Init, BatchHandledFirst
<1>2. QED
  BY <1>1, InitTypes, InitAccounted DEF IInv

LEMMA NextInv ==
  ASSUME IInv, [Next]_vars
  PROVE  IInv'
<1>1. TypeOK' /\ ClaimsInSession'
  BY TypesStep DEF IInv
<1>2. BatchHandledFirst'
  BY BatchStep DEF IInv
<1>3. PassedAccounted' /\ InFlightBehindClaim' /\ MarksAhead'
  <2>1. CASE \/ Main \/ LoopError \/ LoopCheck \/ CloseReturn \/ CloseCall
             \/ ParentCancel \/ Rebalance \/ AutoCommitTick \/ UNCHANGED vars
    <3>1. UNCHANGED <<queue, batch, sess, cpc, pos, marked, handled, lost, setups>>
      BY <2>1 DEF Main, MainStart, MainCancelled, MainGroupClose, MainQueueClose, MainReturn,
                  LoopError, LoopCheck, CloseReturn, CloseCall, ParentCancel, Rebalance,
                  AutoCommitTick, vars, queueVars, workerVars, groupVars, claimVars, auxVars
    <3>2. lpc' = lpc \/ lpc' # "in"
      BY <2>1 DEF Main, MainStart, MainCancelled, MainGroupClose, MainQueueClose, MainReturn,
                  LoopError, LoopCheck, CloseReturn, CloseCall, ParentCancel, Rebalance,
                  AutoCommitTick, vars, groupVars
    <3>3. UNCHANGED committed \/ committed' = marked
      BY <2>1 DEF Main, MainStart, MainCancelled, MainGroupClose, MainQueueClose, MainReturn,
                  LoopError, LoopCheck, CloseReturn, CloseCall, ParentCancel, Rebalance,
                  AutoCommitTick, vars
    <3>4. QED
      BY <3>1, <3>2, <3>3, QuietStep
  <2>2. CASE \E claims \in SUBSET Partitions : LoopSession(claims)
    BY <2>2, SessionStep
  <2>3. CASE \E p \in Partitions : Claim(p) \/ ClaimReceive(p)
    BY <2>3, ClaimStep
  <2>4. CASE Worker
    BY <2>4, WorkerStep
  <2>5. CASE LoopRelease
    BY <2>5, ReleaseStep
  <2>6. CASE Crash
    BY <2>6, CrashStep
  <2>7. QED
    BY <2>1, <2>2, <2>3, <2>4, <2>5, <2>6 DEF Next, Loop, Environment, Terminating
<1>4. QED
  BY <1>1, <1>2, <1>3 DEF IInv

(* Every behaviour keeps the inductive invariant.                            *)
THEOREM Invariance == Spec => []IInv
<1>1. Init => IInv
  BY InitInv
<1>2. IInv /\ [Next]_vars => IInv'
  BY NextInv
<1>3. QED
  BY <1>1, <1>2, PTL DEF Spec

(* The queue, the buffers, the offsets and the pieces of control state keep  *)
(* their types and bounds (NewConsumerGroup's buffer size, sub.go:110).      *)
THEOREM TypeCorrect == Spec => []TypeOK
<1>1. IInv => TypeOK
  BY DEF IInv
<1>2. QED
  BY <1>1, Invariance, PTL

(* A committed offset never passes over a message that was not handed over,  *)
(* on its way, or lost with a process (sub.go:352-367).                      *)
THEOREM AccountedHolds == Spec => []Accounted
<1>1. IInv => Accounted
  BY DEF IInv, PassedAccounted, Accounted
<1>2. QED
  BY <1>1, Invariance, PTL

(* Only the first session of a process lowers a committed offset: Setup's    *)
(* once (sub.go:293).                                                        *)
THEOREM NoLateRewindHolds == Spec => NoLateRewind
<1>1. ASSUME IInv, [Next]_vars
      PROVE  \A p \in Partitions : committed'[p] < committed[p] => setups = 1
  <2>1. committed' = committed \/ (committed' = marked /\ lpc = "in")
    BY <1>1 DEF Next, Main, MainStart, MainCancelled, MainGroupClose, MainQueueClose, MainReturn,
                Loop, LoopError, LoopRelease, LoopCheck, LoopSession, Claim, ClaimReceive,
                ClaimClosed, ClaimCheck, ClaimTry, ClaimMark, Worker, WorkerTake, WorkerEmpty,
                WorkerHandle, WorkerCommit, WorkerNext, CloseReturn, Environment, CloseCall,
                ParentCancel, Crash, Rebalance, AutoCommitTick, Terminating, vars, Live
  <2>2. \A p \in Partitions : committed[p] \in Int /\ marked[p] \in Int
    BY <1>1 DEF IInv, TypeOK
  <2>3. QED
    BY <1>1, <2>1, <2>2 DEF IInv, MarksAhead
<1>2. QED
  BY <1>1, Invariance, PTL DEF Spec, NoLateRewind
-----------------------------------------------------------------------------
\* The group closes while no session runs, and SyncSubscribe returns after
\* the worker.
ShutDown ==
  /\ mainpc \in {"queueclose", "waitworker", "returned"} => groupClosed
  /\ groupClosed => lpc # "in"
  /\ mainpc = "returned" => wpc = "stopped"

(* After group.Close no session starts, and after workerWg.Wait nobody       *)
(* handles a message (sub.go:230-235).                                       *)
THEOREM QuietAfterReturnHolds == Spec => []QuietAfterReturn
<1>1. Init => ShutDown
  BY DEF Init, ShutDown
<1>2. ASSUME IInv, ShutDown, [Next]_vars
      PROVE  ShutDown'
  <2> USE DEF ShutDown, lifeVars, queueVars, workerVars, groupVars, claimVars, auxVars
  <2>1. CASE Main
    BY <1>2, <2>1 DEF Main, MainStart, MainCancelled, MainGroupClose, MainQueueClose,
                      MainReturn
  <2>2. CASE Loop \/ \E claims \in SUBSET Partitions : LoopSession(claims)
    BY <1>2, <2>2 DEF Loop, LoopError, LoopRelease, LoopCheck, LoopSession
  <2>3. CASE \E p \in Partitions : Claim(p) \/ ClaimReceive(p)
    BY <1>2, <2>3 DEF Claim, ClaimReceive, ClaimClosed, ClaimCheck, ClaimTry, ClaimMark,
                      ClaimReturns
  <2>4. CASE Worker
    BY <1>2, <2>4 DEF Worker, WorkerTake, WorkerEmpty, WorkerHandle, WorkerCommit, WorkerNext
  <2>5. CASE CloseReturn \/ Environment \/ UNCHANGED vars
    BY <1>2, <2>5 DEF CloseReturn, Environment, CloseCall, ParentCancel, Crash, Rebalance,
                      AutoCommitTick, vars
  <2>6. QED
    BY <1>2, <2>1, <2>2, <2>3, <2>4, <2>5 DEF Next, Terminating
<1>3. ASSUME IInv, ShutDown PROVE QuietAfterReturn
  <2> SUFFICES ASSUME mainpc = "returned"
               PROVE  cpc = NoClaim /\ lpc # "in" /\ wpc = "stopped" /\ batch = << >>
    BY DEF QuietAfterReturn
  <2>1. lpc # "in" /\ wpc = "stopped"
    BY <1>3 DEF ShutDown
  <2>2. batch = << >>
    BY <1>3, <2>1 DEF IInv, BatchHandledFirst
  <2>3. cpc = NoClaim
    <3>1. \A p \in Partitions : cpc[p] = "off"
      BY <1>3, <2>1 DEF IInv, ClaimsInSession
    <3>2. cpc = [p \in Partitions |-> cpc[p]]
      BY <1>3 DEF IInv, TypeOK
    <3>3. QED
      BY <3>1, <3>2 DEF NoClaim
  <2>4. QED
    BY <2>1, <2>2, <2>3
<1>4. QED
  BY <1>1, <1>2, <1>3, Invariance, PTL DEF Spec

-----------------------------------------------------------------------------
\* What is on its way to the application, the oldest first.
Pipe == batch \o queue

\* The messages of q that belong to one partition and session are ascending.
Ascending(q) ==
  \A i, j \in 1 .. Len(q) :
    i < j /\ q[i].p = q[j].p /\ q[i].s = q[j].s => q[i].o < q[j].o

(* The pipe holds what is in flight.                                         *)
LEMMA PipeInFlight ==
  ASSUME TypeOK
  PROVE  Pipe \in Seq(Message) /\ \A i \in 1 .. Len(Pipe) : Pipe[i] \in InFlight
<1>1. batch \in Seq(Message) /\ queue \in Seq(Message)
  BY DEF TypeOK
<1>2. /\ Pipe \in Seq(Message) /\ Len(Pipe) = Len(batch) + Len(queue)
      /\ \A i \in 1 .. Len(batch) + Len(queue) :
           Pipe[i] = IF i <= Len(batch) THEN batch[i] ELSE queue[i - Len(batch)]
  BY <1>1, ConcatProperties DEF Pipe
<1>3. ASSUME NEW i \in 1 .. Len(Pipe)
      PROVE  Pipe[i] \in InFlight
  <2>0. Len(batch) \in Nat /\ Len(queue) \in Nat
    BY <1>1
  <2>1. CASE i <= Len(batch)
    <3>1. i \in 1 .. Len(batch) /\ Pipe[i] = batch[i]
      BY <1>2, <2>0, <2>1
    <3>2. QED
      BY <1>1, <3>1, ElementPosition DEF InFlight
  <2>2. CASE ~ i <= Len(batch)
    <3>1. i - Len(batch) \in 1 .. Len(queue) /\ Pipe[i] = queue[i - Len(batch)]
      BY <1>2, <2>0, <2>2
    <3>2. QED
      BY <1>1, <3>1, ElementPosition DEF InFlight
  <2>3. QED
    BY <2>1, <2>2
<1>4. QED
  BY <1>2, <1>3

(* A claim enqueues a message its earlier ones are behind: nothing in flight *)
(* from this session is ahead of the claim (sub.go:351-365).                 *)
LEMMA EnqueueAscends ==
  ASSUME IInv, Ascending(Pipe), NEW p \in Partitions, cpc[p] = "try",
         batch' = batch, queue' = Append(queue, [p |-> p, o |-> pos[p], s |-> sess])
  PROVE  Ascending(Pipe')
<1> DEFINE m == [p |-> p, o |-> pos[p], s |-> sess]
           w == Pipe
<1>1. /\ lpc = "in" /\ m \in Message /\ m.p = p /\ m.o = pos[p] /\ m.s = sess
  BY DEF IInv, TypeOK, ClaimsInSession, Message, Offset
<1>2. /\ w \in Seq(Message)
      /\ \A i \in 1 .. Len(w) : w[i] \in InFlight /\ w[i].o \in Int
  <2>1. w \in Seq(Message) /\ \A i \in 1 .. Len(w) : w[i] \in InFlight
    BY PipeInFlight DEF IInv
  <2>2. \A x \in InFlight : x.o \in Int
    BY InFlightMessages DEF IInv, Offset
  <2>3. QED
    BY <2>1, <2>2
<1>3. \A i \in 1 .. Len(w) : w[i].p = p /\ w[i].s = sess => w[i].o < pos[p]
  BY <1>1, <1>2 DEF IInv, InFlightBehindClaim
<1>4. Pipe' = Append(w, m)
  <2>1. batch \in Seq(Message) /\ queue \in Seq(Message)
    BY DEF IInv, TypeOK
  <2> HIDE DEF m
  <2>2. batch \o Append(queue, m) = Append(batch \o queue, m)
    BY <1>1, <2>1
  <2>3. QED
    BY <2>2 DEF Pipe, m
<1> HIDE DEF m, w
<1>5. /\ Len(Append(w, m)) = Len(w) + 1 /\ Len(w) \in Nat
      /\ \A i \in 1 .. Len(w) : Append(w, m)[i] = w[i]
      /\ Append(w, m)[Len(w) + 1] = m
  BY <1>1, <1>2, AppendProperties
<1>6. ASSUME NEW i \in 1 .. Len(w) + 1, NEW j \in 1 .. Len(w) + 1, i < j,
             Append(w, m)[i].p = Append(w, m)[j].p, Append(w, m)[i].s = Append(w, m)[j].s
      PROVE  Append(w, m)[i].o < Append(w, m)[j].o
  <2>1. i \in 1 .. Len(w) /\ Append(w, m)[i] = w[i]
    BY <1>5, <1>6
  <2>2. CASE j = Len(w) + 1
    BY <1>1, <1>3, <1>5, <1>6, <2>1, <2>2
  <2>3. CASE j # Len(w) + 1
    <3>1. j \in 1 .. Len(w) /\ Append(w, m)[j] = w[j]
      BY <1>5, <2>3
    <3>2. Ascending(w)
      BY DEF w
    <3>3. QED
      BY <1>6, <2>1, <3>1, <3>2 DEF Ascending
  <2>4. QED
    BY <2>2, <2>3
<1>7. QED
  BY <1>4, <1>5, <1>6 DEF Ascending

(* Handling the oldest message leaves the others in order (sub.go:186-194).  *)
LEMMA HandleAscends ==
  ASSUME TypeOK, Ascending(Pipe), batch # << >>, batch' = Tail(batch), queue' = queue
  PROVE  Ascending(Pipe')
<1>1. batch \in Seq(Message) /\ queue \in Seq(Message) /\ Pipe \in Seq(Message)
  BY PipeInFlight DEF TypeOK
<1>2. Pipe # << >> /\ Pipe' = Tail(Pipe)
  <2> DEFINE b == batch
             q == queue
  <2>1. b \in Seq(Message) /\ q \in Seq(Message) /\ b # << >>
    BY <1>1
  <2> HIDE DEF b, q
  <2>2. b \o q # << >> /\ Tail(b) \o q = Tail(b \o q)
    BY <2>1
  <2>3. QED
    BY <2>2 DEF Pipe, b, q
<1> DEFINE w == Pipe
           t == Tail(w)
<1>3. /\ Len(t) = Len(w) - 1 /\ Len(w) \in Nat
      /\ \A i \in 1 .. Len(t) : t[i] = w[i + 1]
  BY <1>1, <1>2, HeadTailProperties
<1>4. Ascending(w) /\ Pipe' = t
  BY <1>2
<1> HIDE DEF w, t
<1>5. ASSUME NEW i \in 1 .. Len(t), NEW j \in 1 .. Len(t), i < j,
             t[i].p = t[j].p, t[i].s = t[j].s
      PROVE  t[i].o < t[j].o
  <2>1. /\ i + 1 \in 1 .. Len(w) /\ j + 1 \in 1 .. Len(w) /\ i + 1 < j + 1
        /\ t[i] = w[i + 1] /\ t[j] = w[j + 1]
    BY <1>3, <1>5
  <2>2. QED
    BY <1>4, <1>5, <2>1 DEF Ascending
<1>6. QED
  BY <1>4, <1>5 DEF Ascending

(* The application gets the messages of a partition in the order of their    *)
(* offsets, within a session, each once (sub.go:178-200, 351-367).           *)
THEOREM SessionOrderHolds == Spec => []SessionOrder
<1>1. Init => Ascending(Pipe)
  <2> SUFFICES ASSUME Init PROVE Ascending(Pipe)
    OBVIOUS
  <2>1. Pipe = << >> /\ Len(<< >>) = 0
    BY DEF Init, Pipe
  <2>2. QED
    BY <2>1 DEF Ascending
<1>2. ASSUME IInv, Ascending(Pipe), [Next]_vars
      PROVE  Ascending(Pipe)'
  <2>1. CASE UNCHANGED <<batch, queue>>
    BY <1>2, <2>1 DEF Pipe
  <2>2. ASSUME NEW p \in Partitions, ClaimTry(p)
        PROVE  Ascending(Pipe')
    <3>1. /\ cpc[p] = "try" /\ batch' = batch
          /\ \/ queue' = queue
             \/ queue' = Append(queue, [p |-> p, o |-> pos[p], s |-> sess])
      BY <2>2 DEF ClaimTry, workerVars
    <3>2. QED
      BY <1>2, <2>1, <3>1, EnqueueAscends DEF Ascending
  <2>3. CASE WorkerTake
    <3>1. /\ batch = << >> /\ queue \in Seq(Message)
          /\ batch' = Taken(queue, BufferSize) /\ queue' = Left(queue, BufferSize)
      BY <1>2, <2>3 DEF WorkerTake, IInv, BatchHandledFirst, TypeOK
    <3>2. Taken(queue, BufferSize) \o Left(queue, BufferSize) = queue
      BY <3>1, TakenJoinsLeft
    <3>3. << >> \o queue = queue
      BY <3>1
    <3>4. Pipe' = Pipe
      BY <3>1, <3>2, <3>3 DEF Pipe
    <3>5. QED
      BY <1>2, <3>4
  <2>4. ASSUME NEW ack \in BOOLEAN, WorkerHandle(ack)
        PROVE  Ascending(Pipe')
    BY <1>2, <2>4, HandleAscends DEF WorkerHandle, queueVars, IInv
  <2>5. CASE Crash
    <3>1. Pipe' = << >> /\ Len(<< >>) = 0
      BY <2>5 DEF Crash, Pipe
    <3>2. QED
      BY <3>1 DEF Ascending
  <2>6. CASE \/ Main \/ Loop \/ CloseReturn \/ CloseCall \/ ParentCancel \/ Rebalance
             \/ AutoCommitTick \/ WorkerEmpty \/ WorkerCommit \/ WorkerNext
             \/ (\E claims \in SUBSET Partitions : LoopSession(claims))
             \/ (\E p \in Partitions :
                   ClaimClosed(p) \/ ClaimCheck(p) \/ ClaimMark(p) \/ ClaimReceive(p))
             \/ UNCHANGED vars
    <3>1. UNCHANGED <<batch, queue>>
      BY <2>6 DEF Main, MainStart, MainCancelled, MainGroupClose, MainQueueClose, MainReturn,
                  Loop, LoopError, LoopRelease, LoopCheck, LoopSession, ClaimReceive,
                  ClaimClosed, ClaimCheck, ClaimMark, WorkerEmpty, WorkerCommit, WorkerNext,
                  CloseReturn, CloseCall, ParentCancel, Rebalance, AutoCommitTick, vars,
                  queueVars, workerVars
    <3>2. QED
      BY <2>1, <3>1
  <2>7. QED
    BY <1>2, <2>2, <2>3, <2>4, <2>5, <2>6
       DEF Next, Claim, Worker, Environment, Terminating
<1>3. Ascending(Pipe) => SessionOrder
  BY DEF Ascending, Pipe, SessionOrder
<1>4. QED
  BY <1>1, <1>2, <1>3, Invariance, PTL DEF Spec

-----------------------------------------------------------------------------
\* Where the messages of q are in the log.
Places(q) == {<<q[i].p, q[i].o>> : i \in 1 .. Len(q)}

(* A queue has no more places than messages.                                 *)
LEMMA PlacesBounded ==
  ASSUME NEW q \in Seq(Message)
  PROVE  IsFiniteSet(Places(q)) /\ Cardinality(Places(q)) <= Len(q)
<1> DEFINE f == [i \in 1 .. Len(q) |-> <<q[i].p, q[i].o>>]
<1>1. Len(q) \in Nat
  OBVIOUS
<1>2. f \in Surjection(1 .. Len(q), Places(q))
  BY DEF Surjection, Places
<1>3. IsFiniteSet(1 .. Len(q)) /\ Cardinality(1 .. Len(q)) = Len(q)
  <2> DEFINE n == Len(q)
  <2>1. n \in Nat
    BY <1>1
  <2> HIDE DEF n
  <2>2. IsFiniteSet(1 .. n) /\ Cardinality(1 .. n) = IF 1 > n THEN 0 ELSE n - 1 + 1
    BY <2>1, FS_Interval
  <2>3. Cardinality(1 .. n) = n
    BY <2>1, <2>2
  <2>4. QED
    BY <2>2, <2>3 DEF n
<1> HIDE DEF f
<1>4. QED
  BY <1>2, <1>3, FS_Surjection

(* A union has no more members than its parts together.                      *)
LEMMA UnionBounded ==
  ASSUME NEW S, IsFiniteSet(S), NEW T, IsFiniteSet(T), NEW n \in Nat, Cardinality(T) <= n
  PROVE  IsFiniteSet(S \cup T) /\ Cardinality(S \cup T) <= Cardinality(S) + n
<1>1. /\ IsFiniteSet(S \cup T)
      /\ Cardinality(S \cup T) = Cardinality(S) + Cardinality(T) - Cardinality(S \cap T)
  BY FS_Union
<1>2. IsFiniteSet(S \cap T)
  BY FS_Intersection
<1>3. /\ Cardinality(S) \in Nat /\ Cardinality(T) \in Nat /\ Cardinality(S \cap T) \in Nat
  BY <1>2, FS_CardinalityType
<1>4. QED
  BY <1>1, <1>3

(* What a crash loses was committed, so it is accounted for: it was in the   *)
(* queue or in the buffer, unless it was lost before (sub.go:110, 181-200,   *)
(* 352-367).                                                                 *)
LEMMA CrashLoses ==
  ASSUME IInv, IsFiniteSet(lost), Crash
  PROVE  IsFiniteSet(lost') /\ Cardinality(lost') <= Cardinality(lost) + BufferSize + BufferSize
<1> DEFINE A == lost \cup Places(queue)
           B == A \cup Places(batch)
<1>1. /\ queue \in Seq(Message) /\ Len(queue) <= BufferSize /\ Len(queue) \in Nat
      /\ batch \in Seq(Message) /\ Len(batch) <= BufferSize /\ Len(batch) \in Nat
      /\ BufferSize \in Nat
  BY DEF IInv, TypeOK
<1>2. /\ IsFiniteSet(Places(queue)) /\ Cardinality(Places(queue)) <= Len(queue)
      /\ IsFiniteSet(Places(batch)) /\ Cardinality(Places(batch)) <= Len(batch)
  BY <1>1, PlacesBounded
<1>3. Cardinality(Places(queue)) <= BufferSize /\ Cardinality(Places(batch)) <= BufferSize
  <2>1. Cardinality(Places(queue)) \in Nat /\ Cardinality(Places(batch)) \in Nat
    BY <1>2, FS_CardinalityType
  <2>2. QED
    BY <1>1, <1>2, <2>1
<1>4. IsFiniteSet(A) /\ Cardinality(A) <= Cardinality(lost) + BufferSize
  BY <1>1, <1>2, <1>3, UnionBounded
<1>5. IsFiniteSet(B) /\ Cardinality(B) <= Cardinality(A) + BufferSize
  <2> HIDE DEF A
  <2>1. QED
    BY <1>1, <1>2, <1>3, <1>4, UnionBounded
<1>6. lost' \subseteq B
  <2>1. \A m \in Elements(queue) : <<m.p, m.o>> \in Places(queue)
    BY <1>1, ElementPosition DEF Places
  <2>2. \A m \in Elements(batch) : <<m.p, m.o>> \in Places(batch)
    BY <1>1, ElementPosition DEF Places
  <2>3. ASSUME NEW x \in Unhandled
        PROVE  x \in B
    <3>1. PICK p \in Partitions, o \in Offset : x = <<p, o>>
      BY <2>3 DEF Unhandled
    <3>2. o < committed[p] /\ o \notin handled[p]
      BY <2>3, <3>1 DEF Unhandled
    <3>3. <<p, o>> \in lost \/ \E m \in InFlight : m.p = p /\ m.o = o
      BY <3>2 DEF IInv, PassedAccounted, AccountedAt
    <3>4. QED
      BY <2>1, <2>2, <3>1, <3>3 DEF InFlight
  <2>4. QED
    BY <2>3 DEF Crash
<1> HIDE DEF A, B
<1>7. IsFiniteSet(lost') /\ Cardinality(lost') <= Cardinality(B)
  BY <1>5, <1>6, FS_Subset
<1>8. /\ Cardinality(lost) \in Nat /\ Cardinality(A) \in Nat /\ Cardinality(B) \in Nat
      /\ Cardinality(lost') \in Nat
  BY <1>4, <1>5, <1>7, FS_CardinalityType
<1>9. QED
  BY <1>1, <1>4, <1>5, <1>7, <1>8

(* Marking at the enqueue costs at most a queue and a buffer for each crash  *)
(* (sub.go:110, 352-367).                                                    *)
THEOREM CrashLossBoundedHolds == Spec => []CrashLossBounded
<1> DEFINE J == IsFiniteSet(lost) /\ CrashLossBounded
<1>1. Init => J
  <2> SUFFICES ASSUME Init PROVE J
    OBVIOUS
  <2>1. lost = {} /\ crashes = 0 /\ BufferSize \in Nat
    BY DEF Init
  <2>2. IsFiniteSet(lost) /\ Cardinality(lost) = 0
    BY <2>1, FS_EmptySet
  <2>3. QED
    BY <2>1, <2>2 DEF CrashLossBounded
<1>2. ASSUME IInv, J, [Next]_vars
      PROVE  J'
  <2>1. CASE Crash
    <3>1. /\ IsFiniteSet(lost')
          /\ Cardinality(lost') <= Cardinality(lost) + BufferSize + BufferSize
      BY <1>2, <2>1, CrashLoses
    <3>2. Cardinality(lost) \in Nat /\ Cardinality(lost') \in Nat
      BY <1>2, <3>1, FS_CardinalityType
    <3>3. /\ crashes \in Nat /\ crashes' = crashes + 1 /\ BufferSize \in Nat
          /\ Cardinality(lost) <= crashes * 2 * BufferSize
      BY <1>2, <2>1 DEF Crash, IInv, TypeOK, CrashLossBounded
    <3>4. \A c, b \in Nat : (c + 1) * 2 * b = c * 2 * b + b + b /\ c * 2 * b \in Nat
      OBVIOUS
    <3>5. QED
      BY <3>1, <3>2, <3>3, <3>4 DEF CrashLossBounded
  <2>2. CASE ~Crash
    <3>1. UNCHANGED <<lost, crashes>>
      BY <1>2, <2>2
         DEF Next, Main, MainStart, MainCancelled, MainGroupClose, MainQueueClose, MainReturn,
             Loop, LoopError, LoopRelease, LoopCheck, LoopSession, Claim, ClaimReceive,
             ClaimClosed, ClaimCheck, ClaimTry, ClaimMark, Worker, WorkerTake, WorkerEmpty,
             WorkerHandle, WorkerCommit, WorkerNext, CloseReturn, Environment, CloseCall,
             ParentCancel, Rebalance, AutoCommitTick, Terminating, vars, auxVars
    <3>2. QED
      BY <1>2, <3>1 DEF CrashLossBounded
  <2>3. QED
    BY <2>1, <2>2
<1>3. J => CrashLossBounded
  OBVIOUS
<1>4. QED
  BY <1>1, <1>2, <1>3, Invariance, PTL DEF Spec
=============================================================================
