------------------------- MODULE ShadowWorkerProofs -------------------------
(***************************************************************************)
(* Safety of the MySQL shadow worker for every queue size and any number   *)
(* of requests.  IInv of ShadowWorker is inductive; the theorems at the    *)
(* end read the properties off it.                                         *)
(***************************************************************************)
EXTENDS ShadowWorker, SequenceTheorems, TLAPS

USE BoundsAssumption

\* The request in flight is a request, and it has an id.
LEMMA CurrentIsRequest ==
  ASSUME TypeOK, Lifecycle, Busy
  PROVE  /\ current[1] \in Request
         /\ current[1].id \in 1..MaxRequests
  <1>1. current \in Seq(Request) /\ Len(current) = 1
    BY DEF TypeOK, Lifecycle, Busy
  <1>2. current[1] \in Request
    BY <1>1
  <1> QED
    BY <1>2 DEF Request

\* The parts of a reply name its request.
LEMMA PartsAreIds ==
  ASSUME NEW r \in Request, NEW parts \in ReplyParts(r)
  PROVE  parts \in Seq(1..MaxRequests)
  <1>1. r.id \in 1..MaxRequests
    BY DEF Request
  <1>2. parts = <<r.id>> \/ parts = <<r.id, r.id>>
    BY DEF ReplyParts
  <1>3. ASSUME NEW id \in 1..MaxRequests
        PROVE  <<id>> \in Seq(1..MaxRequests)
    OBVIOUS
  <1>4. ASSUME NEW id \in 1..MaxRequests
        PROVE  <<id, id>> \in Seq(1..MaxRequests)
    OBVIOUS
  <1> QED
    BY <1>1, <1>2, <1>3, <1>4, Zenon

\* What is left of a sequence is one.
LEMMA RestIsSeq ==
  ASSUME NEW S, NEW s \in Seq(S), NEW n \in 1..Len(s)
  PROVE  SubSeq(s, n + 1, Len(s)) \in Seq(S)
  <1>1. n + 1 \in Int /\ n + 1 >= 1 /\ Len(s) \in Int
    OBVIOUS
  <1>2. \A i \in n + 1..Len(s) : s[i] \in S
    BY <1>1
  <1> QED
    BY <1>1, <1>2, SubSeqProperties

\* The initial state satisfies the inductive invariant.
LEMMA InitIInv == Init => IInv
  <1> SUFFICES ASSUME Init PROVE IInv
    OBVIOUS
  <1> USE DEF Init
  <1>1. TypeOK
    <2>1. queue \in Seq(Request) /\ Len(queue) <= QueueSize
      OBVIOUS
    <2>2. current \in Seq(Request) /\ Len(current) <= 1
      OBVIOUS
    <2>3. pending \in Seq(Request) /\ inbox \in Seq(1..MaxRequests)
      OBVIOUS
    <2>4. /\ accepted \in Seq(Request)
          /\ outcomes \in Seq(Outcome) /\ forcedAt \in 0..Len(outcomes)
      OBVIOUS
    <2>5. next \in 1..MaxRequests+1
      OBVIOUS
    <2> QED
      BY <2>1, <2>2, <2>3, <2>4, <2>5 DEF TypeOK, HandlerPc, WorkerPc
  <1>2. Lifecycle
    BY DEF Lifecycle, Busy, Gone
  <1>3. FifoOnce
    BY DEF FifoOnce
  <1>4. SkippedOnlyIfForced /\ InFlightWhenForced /\ AtMostOneAfterForce
    BY DEF SkippedOnlyIfForced, InFlightWhenForced, AtMostOneAfterForce
  <1>5. ReplyInStep /\ RepliesMatchUntilRest
    BY DEF ReplyInStep, RepliesMatchUntilRest
  <1> QED
    BY <1>1, <1>2, <1>3, <1>4, <1>5 DEF IInv

\* Finish, with a result and a reply of the right type, keeps the types.
LEMMA FinishType ==
  ASSUME TypeOK, Lifecycle, Busy, NEW res \in Result,
         NEW reply \in 0..MaxRequests, Finish(res, reply),
         pending' \in Seq(Request), inbox' \in Seq(1..MaxRequests)
  PROVE  TypeOK'
  <1> DEFINE o == [req |-> current[1], res |-> res, reply |-> reply]
  <1>1. o \in Outcome
    BY CurrentIsRequest DEF Outcome
  <1>2. outcomes' = Append(outcomes, o)
    BY DEF Finish
  <1> HIDE DEF o
  <1>3. outcomes' \in Seq(Outcome) /\ Len(outcomes') = Len(outcomes) + 1
    BY <1>1, <1>2, AppendProperties DEF TypeOK
  <1> QED
    BY <1>3 DEF Finish, TypeOK, WorkerPc, chans

\* Every step keeps the types.
LEMMA TypeStep == TypeOK /\ Lifecycle /\ [Next]_vars => TypeOK'
  <1> SUFFICES ASSUME TypeOK, Lifecycle, [Next]_vars PROVE TypeOK'
    OBVIOUS
  <1> USE DEF TypeOK, HandlerPc, WorkerPc, chans, server
  <1>1. CASE InitializeDialFails
    BY <1>1 DEF InitializeDialFails
  <1>2. CASE InitializeAuthFails
    BY <1>2 DEF InitializeAuthFails
  <1>3. CASE Initialize
    BY <1>3 DEF Initialize
  <1>4. CASE Send
    <2> PICK resp \in Response :
          LET r == [id |-> next, resp |-> resp]
          IN  SendQueued(r) \/ SendHandoff(r) \/ SendDropped(r)
      BY <1>4 DEF Send
    <2> DEFINE r == [id |-> next, resp |-> resp]
    <2>1. r \in Request
      BY <1>4 DEF Send, Request
    <2> HIDE DEF r
    <2>2. CASE SendQueued(r)
      <3>1. Append(queue, r) \in Seq(Request) /\ Append(accepted, r) \in Seq(Request)
        BY <2>1, AppendProperties
      <3>2. Len(queue') <= QueueSize
        BY <2>1, <2>2, AppendProperties DEF SendQueued, HasRoom
      <3> QED
        BY <2>2, <1>4, <3>1, <3>2 DEF SendQueued, Send
    <2>3. CASE SendHandoff(r)
      BY <2>1, <2>3, <1>4, AppendProperties DEF SendHandoff, Send
    <2>4. CASE SendDropped(r)
      BY <2>4, <1>4 DEF SendDropped, Send
    <2> QED
      BY <2>2, <2>3, <2>4 DEF r
  <1>5. CASE CloseSignal
    BY <1>5 DEF CloseSignal
  <1>6. CASE CloseDrained
    BY <1>6 DEF CloseDrained
  <1>7. CASE CloseTimeout
    BY <1>7 DEF CloseTimeout
  <1>8. CASE CloseJoin
    BY <1>8 DEF CloseJoin
  <1>9. CASE WorkerForced
    BY <1>9 DEF WorkerForced
  <1>10. CASE WorkerDrain
    BY <1>10 DEF WorkerDrain
  <1>11. CASE WorkerTake
    <2>1. Head(queue) \in Request /\ Tail(queue) \in Seq(Request)
          /\ Len(Tail(queue)) = Len(queue) - 1
      BY <1>11, HeadTailProperties DEF WorkerTake
    <2> QED
      BY <1>11, <2>1 DEF WorkerTake
  <1>12. CASE DrainEmpty
    BY <1>12 DEF DrainEmpty
  <1>13. CASE CheckForced
    BY <1>13, FinishType DEF CheckForced, Busy, Result
  <1>14. CASE CheckPassed
    BY <1>14 DEF CheckPassed
  <1>15. ASSUME Busy PROVE Owed(current[1]) \in Seq(Request)
    BY <1>15, CurrentIsRequest, AppendProperties DEF Owed
  <1>16. CASE WriteExpectingReply
    BY <1>15, <1>16 DEF WriteExpectingReply, Busy
  <1>17. CASE WriteNoReply
    BY <1>15, <1>17, FinishType DEF WriteNoReply, Busy, Result
  <1>18. CASE WriteError
    BY <1>18, FinishType DEF WriteError, Busy, Result
  <1>19. CASE ReadReply
    <2>0. inbox \in Seq(1..MaxRequests) /\ inbox # <<>>
      BY <1>19 DEF ReadReply
    <2>1. Head(inbox) \in 0..MaxRequests
      <3>1. Head(inbox) \in 1..MaxRequests
        BY <2>0
      <3> QED
        BY <3>1
    <2>2. inbox' \in Seq(1..MaxRequests)
      <3>1. PICK n \in 1..Len(inbox) :
              inbox' = SubSeq(inbox, n + 1, Len(inbox))
        BY <1>19 DEF ReadReply
      <3> QED
        BY <2>0, <3>1, RestIsSeq
    <2> QED
      BY <1>19, <2>1, <2>2, FinishType DEF ReadReply, Busy, Result
  <1>20. CASE ReadTimeout
    <2>1. inbox' \in Seq(1..MaxRequests) /\ pending' \in Seq(Request)
      <3>1. <<>> \in Seq(1..MaxRequests)
        OBVIOUS
      <3>2. inbox' = inbox \/ inbox' = <<>>
        BY <1>20 DEF ReadTimeout
      <3>3. pending' = pending
        BY <1>20 DEF ReadTimeout
      <3> QED
        BY <3>1, <3>2, <3>3
    <2> QED
      BY <1>20, <2>1, FinishType DEF ReadTimeout, Busy, Result
  <1>21. CASE ReadError
    BY <1>21, FinishType DEF ReadError, Busy, Result
  <1>22. CASE SignalDone
    BY <1>22 DEF SignalDone
  <1>23. CASE WgDone
    BY <1>23 DEF WgDone
  <1>24. CASE ShadowReply
    <2>1. Head(pending) \in Request /\ Tail(pending) \in Seq(Request)
      BY <1>24, HeadTailProperties DEF ShadowReply
    <2>2. PICK parts \in ReplyParts(Head(pending)) : inbox' = inbox \o parts
      BY <1>24 DEF ShadowReply
    <2>3. parts \in Seq(1..MaxRequests)
      BY <2>1, <2>2, PartsAreIds
    <2>4. inbox' \in Seq(1..MaxRequests)
      BY <2>2, <2>3, ConcatProperties
    <2> QED
      BY <1>24, <2>1, <2>4 DEF ShadowReply
  <1>25. CASE ShadowDown
    BY <1>25 DEF ShadowDown
  <1>26. CASE UNCHANGED vars
    BY <1>26 DEF vars
  <1> QED
    BY <1>1, <1>2, <1>3, <1>4, <1>5, <1>6, <1>7, <1>8, <1>9, <1>10, <1>11,
       <1>12, <1>13, <1>14, <1>16, <1>17, <1>18, <1>19, <1>20, <1>21, <1>22,
       <1>23, <1>24, <1>25, <1>26
    DEF Next, HandlerStep, WorkerStep, ServerStep, Terminated

-----------------------------------------------------------------------------
\* What Finish does to the history of outcomes.
LEMMA FinishOutcomes ==
  ASSUME TypeOK, Lifecycle, Busy, NEW res, NEW reply, Finish(res, reply)
  PROVE  /\ Len(outcomes) \in Nat /\ Len(outcomes') = Len(outcomes) + 1
         /\ \A i \in 1..Len(outcomes) : outcomes'[i] = outcomes[i]
         /\ outcomes'[Len(outcomes) + 1].req = current[1]
         /\ outcomes'[Len(outcomes) + 1].res = res
         /\ outcomes'[Len(outcomes) + 1].reply = reply
         /\ Len(current) = 1 /\ current' = <<>> /\ Len(current') = 0
         /\ worker' \in {"select", "drain"}
         /\ UNCHANGED <<queue, accepted, closeCh, forcedAt>>
  <1> DEFINE o == [req |-> current[1], res |-> res, reply |-> reply]
  <1>1. outcomes' = Append(outcomes, o) /\ outcomes \in Seq(Outcome)
    BY DEF Finish, TypeOK
  <1> HIDE DEF o
  <1>2. /\ Len(outcomes) \in Nat /\ Len(outcomes') = Len(outcomes) + 1
        /\ \A i \in 1..Len(outcomes) : outcomes'[i] = outcomes[i]
        /\ outcomes'[Len(outcomes) + 1] = o
    BY <1>1
  <1>3. /\ Len(current) = 1 /\ current' = <<>> /\ Len(current') = 0
        /\ worker' \in {"select", "drain"}
        /\ UNCHANGED <<queue, accepted, closeCh, forcedAt>>
    BY DEF Finish, Lifecycle, chans
  <1> QED
    BY <1>2, <1>3 DEF o

\* The steps that end a call of processRequest, and the result they record.
FinishStep(res) ==
  /\ Busy
  /\ \E reply : Finish(res, reply)
  /\ \/ res = "skipped" /\ worker = "check" /\ closeCh
     \/ res # "skipped" /\ worker \in {"write", "read"}

\* Every other step leaves the outcomes alone.
LEMMA StepKinds ==
  ASSUME [Next]_vars
  PROVE  \/ \E res \in Result : FinishStep(res)
         \/ Send \/ WorkerTake
         \/ UNCHANGED <<queue, accepted, current, outcomes>>
  <1>1. CASE CheckForced
    BY <1>1 DEF CheckForced, FinishStep, Busy, Result, MustStop
  <1>2. CASE WriteNoReply
    BY <1>2 DEF WriteNoReply, FinishStep, Busy, Result
  <1>3. CASE WriteError
    BY <1>3 DEF WriteError, FinishStep, Busy, Result
  <1>4. CASE ReadReply
    BY <1>4 DEF ReadReply, FinishStep, Busy, Result
  <1>5. CASE ReadTimeout
    BY <1>5 DEF ReadTimeout, FinishStep, Busy, Result
  <1>6. CASE ReadError
    BY <1>6 DEF ReadError, FinishStep, Busy, Result
  <1>7. CASE InitializeDialFails \/ InitializeAuthFails \/ Initialize
    BY <1>7 DEF InitializeDialFails, InitializeAuthFails, Initialize
  <1>8. CASE CloseSignal \/ CloseDrained \/ CloseTimeout \/ CloseJoin
    BY <1>8 DEF CloseSignal, CloseDrained, CloseTimeout, CloseJoin
  <1>9. CASE WorkerForced \/ WorkerDrain \/ DrainEmpty \/ CheckPassed
             \/ WriteExpectingReply \/ SignalDone \/ WgDone
    BY <1>9 DEF WorkerForced, WorkerDrain, DrainEmpty, CheckPassed,
                WriteExpectingReply, SignalDone, WgDone
  <1>10. CASE ServerStep \/ Terminated \/ UNCHANGED vars
    BY <1>10 DEF ServerStep, ShadowReply, ShadowDown, Terminated, vars
  <1> QED
    BY <1>1, <1>2, <1>3, <1>4, <1>5, <1>6, <1>7, <1>8, <1>9, <1>10
    DEF Next, HandlerStep, WorkerStep

\* Every step keeps the order and the count of the requests.
LEMMA FifoStep ==
  TypeOK /\ Lifecycle /\ FifoOnce /\ [Next]_vars => FifoOnce'
  <1> SUFFICES ASSUME TypeOK, Lifecycle, FifoOnce, [Next]_vars
               PROVE  FifoOnce'
    OBVIOUS
  <1>0. /\ Len(outcomes) \in Nat /\ Len(queue) \in Nat
        /\ Len(accepted) \in Nat /\ Len(current) \in Nat
    BY DEF TypeOK
  <1>1. ASSUME NEW res \in Result, FinishStep(res) PROVE FifoOnce'
    <2> PICK reply : Finish(res, reply)
      BY <1>1 DEF FinishStep
    <2> DEFINE n == Len(outcomes)
    <2>0. Busy
      BY <1>1 DEF FinishStep
    <2>1. /\ Len(outcomes') = n + 1
          /\ \A i \in 1..n : outcomes'[i] = outcomes[i]
          /\ outcomes'[n + 1].req = current[1]
          /\ Len(current) = 1 /\ Len(current') = 0
          /\ UNCHANGED <<queue, accepted>>
      BY <2>0, FinishOutcomes
    <2>2. current[1] = accepted[n + 1]
      BY <2>1 DEF FifoOnce
    <2>3. \A i \in 1..n + 1 : outcomes'[i].req = accepted[i]
      BY <1>0, <2>1, <2>2 DEF FifoOnce
    <2>4. /\ Len(accepted') = Len(outcomes') + Len(current') + Len(queue')
          /\ Len(outcomes') + Len(current') = n + 1
      <3>1. Len(accepted) = n + 1 + Len(queue)
        BY <2>1 DEF FifoOnce
      <3>2. accepted' = accepted /\ queue' = queue
        BY <2>1
      <3> QED
        BY <1>0, <2>1, <3>1, <3>2
    <2>5. \A i \in 1..Len(queue') :
            queue'[i] = accepted'[Len(outcomes') + Len(current') + i]
      <3>1. \A i \in 1..Len(queue) : queue[i] = accepted[n + 1 + i]
        BY <2>1 DEF FifoOnce
      <3> QED
        BY <2>1, <2>4, <3>1
    <2>6. \A i \in 1..Len(outcomes') : outcomes'[i].req = accepted'[i]
      BY <2>1, <2>3
    <2>7. \A i \in 1..Len(current') :
            current'[i] = accepted'[Len(outcomes') + i]
      BY <2>1
    <2> QED
      BY <2>4, <2>5, <2>6, <2>7 DEF FifoOnce
  <1>2. CASE Send
    <2> PICK resp \in Response :
          LET r == [id |-> next, resp |-> resp]
          IN  SendQueued(r) \/ SendHandoff(r) \/ SendDropped(r)
      BY <1>2 DEF Send
    <2> DEFINE r == [id |-> next, resp |-> resp]
    <2>1. r \in Request
      BY <1>2 DEF Send, Request, TypeOK
    <2>2. outcomes' = outcomes
      BY <1>2 DEF Send
    <2> HIDE DEF r
    <2>3. CASE SendQueued(r)
      <3>1. /\ queue \in Seq(Request) /\ accepted \in Seq(Request)
            /\ queue' = Append(queue, r) /\ accepted' = Append(accepted, r)
            /\ current' = current
        BY <2>3 DEF SendQueued, TypeOK
      <3>2. /\ Len(queue') = Len(queue) + 1
            /\ \A i \in 1..Len(queue) : queue'[i] = queue[i]
            /\ queue'[Len(queue) + 1] = r
        BY <2>1, <3>1, AppendProperties
      <3>3. /\ Len(accepted') = Len(accepted) + 1
            /\ \A i \in 1..Len(accepted) : accepted'[i] = accepted[i]
            /\ accepted'[Len(accepted) + 1] = r
        BY <2>1, <3>1, AppendProperties
      <3>4. Len(accepted) = Len(outcomes) + Len(current) + Len(queue)
        BY DEF FifoOnce
      <3>5. ASSUME NEW i \in 1..Len(queue')
            PROVE  queue'[i] = accepted'[Len(outcomes) + Len(current) + i]
        <4>1. CASE i \in 1..Len(queue)
          <5>1. /\ queue[i] = accepted[Len(outcomes) + Len(current) + i]
                /\ Len(outcomes) + Len(current) + i \in 1..Len(accepted)
            BY <1>0, <3>4, <4>1 DEF FifoOnce
          <5> QED
            BY <3>2, <3>3, <4>1, <5>1
        <4>2. CASE i = Len(queue) + 1
          BY <1>0, <3>2, <3>3, <3>4, <4>2
        <4> QED
          BY <1>0, <3>2, <4>1, <4>2
      <3>6. \A i \in 1..Len(outcomes) : outcomes[i].req = accepted'[i]
        BY <1>0, <3>3, <3>4 DEF FifoOnce
      <3>7. \A i \in 1..Len(current) :
              current[i] = accepted'[Len(outcomes) + i]
        BY <1>0, <3>3, <3>4 DEF FifoOnce
      <3>8. Len(accepted') = Len(outcomes) + Len(current) + Len(queue')
        BY <1>0, <3>2, <3>3, <3>4
      <3>9. current' = current
        BY <3>1
      <3> HIDE DEF r
      <3> QED
        BY <2>2, <3>5, <3>6, <3>7, <3>8, <3>9 DEF FifoOnce
    <2>4. CASE SendHandoff(r)
      <3>1. /\ queue = <<>> /\ queue' = queue /\ current' = <<r>>
            /\ accepted \in Seq(Request) /\ accepted' = Append(accepted, r)
            /\ Len(current) = 0
        BY <2>4, <1>0 DEF SendHandoff, TypeOK, Lifecycle, Busy
      <3> QED
        BY <1>0, <2>1, <2>2, <3>1 DEF FifoOnce
    <2>5. CASE SendDropped(r)
      BY <2>2, <2>5 DEF SendDropped, FifoOnce
    <2> QED
      BY <2>3, <2>4, <2>5 DEF r
  <1>3. CASE WorkerTake
    <2>1. /\ queue \in Seq(Request) /\ queue # <<>>
          /\ queue' = Tail(queue) /\ current' = <<Head(queue)>>
          /\ UNCHANGED <<accepted, outcomes>>
          /\ Len(current) = 0
      BY <1>3 DEF WorkerTake, TypeOK, Lifecycle, Busy
    <2>2. /\ Len(queue') = Len(queue) - 1 /\ Len(queue) >= 1
          /\ Head(queue) = queue[1]
          /\ \A i \in 1..Len(queue') : queue'[i] = queue[i + 1]
      BY <2>1
    <2>3. Len(current') = 1 /\ current'[1] = queue[1]
      BY <2>1, <2>2
    <2>4. queue[1] = accepted[Len(outcomes) + 1]
      BY <1>0, <2>1, <2>2 DEF FifoOnce
    <2>5. \A i \in 1..Len(queue') :
            queue'[i] = accepted[Len(outcomes) + 1 + i]
      <3> SUFFICES ASSUME NEW i \in 1..Len(queue')
                   PROVE  queue'[i] = accepted[Len(outcomes) + 1 + i]
        OBVIOUS
      <3>1. i + 1 \in 1..Len(queue) /\ queue'[i] = queue[i + 1]
        BY <1>0, <2>2
      <3> QED
        BY <1>0, <2>1, <3>1 DEF FifoOnce
    <2>6. /\ Len(accepted') = Len(outcomes') + Len(current') + Len(queue')
          /\ \A i \in 1..Len(outcomes') : outcomes'[i].req = accepted'[i]
      <3>1. /\ Len(accepted) = Len(outcomes) + Len(queue)
            /\ \A i \in 1..Len(outcomes) : outcomes[i].req = accepted[i]
        BY <1>0, <2>1 DEF FifoOnce
      <3>2. accepted' = accepted /\ outcomes' = outcomes
        BY <2>1
      <3>3. Len(accepted) = Len(outcomes) + Len(current') + Len(queue')
        BY <1>0, <2>2, <2>3, <3>1
      <3> QED
        BY <3>1, <3>2, <3>3
    <2>7. /\ Len(outcomes') + Len(current') = Len(outcomes) + 1
          /\ \A i \in 1..Len(current') :
               current'[i] = accepted'[Len(outcomes') + i]
      BY <1>0, <2>1, <2>3, <2>4
    <2>8. \A i \in 1..Len(queue') :
            queue'[i] = accepted'[Len(outcomes') + Len(current') + i]
      BY <2>1, <2>5, <2>7
    <2> QED
      BY <2>6, <2>7, <2>8 DEF FifoOnce
  <1>4. CASE UNCHANGED <<queue, accepted, current, outcomes>>
    BY <1>4 DEF FifoOnce
  <1> QED
    BY <1>1, <1>2, <1>3, <1>4, StepKinds

-----------------------------------------------------------------------------
\* Every step keeps the two goroutines, the channels and the connection in
\* agreement.
LEMMA LifecycleStep ==
  TypeOK /\ Lifecycle /\ [Next]_vars => Lifecycle'
  <1> SUFFICES ASSUME TypeOK, Lifecycle, [Next]_vars PROVE Lifecycle'
    OBVIOUS
  <1>0. /\ handler \in HandlerPc /\ worker \in WorkerPc
        /\ draining \in BOOLEAN /\ drainCh \in BOOLEAN
        /\ closeCh \in BOOLEAN /\ doneCh \in BOOLEAN
    BY DEF TypeOK
  <1> USE <1>0 DEF Lifecycle, Busy, Gone, HandlerPc, WorkerPc, chans, server
  <1>1. CASE InitializeDialFails \/ InitializeAuthFails \/ Initialize
    BY <1>1 DEF InitializeDialFails, InitializeAuthFails, Initialize
  <1>2. CASE Send
    <2> PICK resp \in Response :
          LET r == [id |-> next, resp |-> resp]
          IN  SendQueued(r) \/ SendHandoff(r) \/ SendDropped(r)
      BY <1>2 DEF Send
    <2> DEFINE r == [id |-> next, resp |-> resp]
    <2>1. ~Gone
      BY <1>2 DEF Send
    <2> HIDE DEF r
    <2>2. CASE SendQueued(r)
      BY <1>2, <2>1, <2>2 DEF SendQueued, Send
    <2>3. CASE SendHandoff(r)
      BY <1>2, <2>1, <2>3 DEF SendHandoff, Send
    <2>4. CASE SendDropped(r)
      BY <1>2, <2>4 DEF SendDropped, Send
    <2> QED
      BY <2>2, <2>3, <2>4 DEF r
  <1>3. CASE CloseSignal \/ CloseDrained \/ CloseTimeout
    BY <1>3 DEF CloseSignal, CloseDrained, CloseTimeout
  <1>4. CASE CloseJoin
    BY <1>4 DEF CloseJoin, Joined
  <1>5. CASE WorkerForced \/ WorkerDrain \/ DrainEmpty
    BY <1>5 DEF WorkerForced, WorkerDrain, DrainEmpty, NothingPending
  <1>6. CASE WorkerTake
    BY <1>6 DEF WorkerTake
  <1>7. ASSUME NEW res \in Result, FinishStep(res),
               pending' \in {pending, Owed(current[1])}
        PROVE  Lifecycle'
    <2> PICK reply : Finish(res, reply)
      BY <1>7 DEF FinishStep
    <2> QED
      BY <1>7 DEF Finish, FinishStep, Owed
  <1>8. CASE CheckPassed \/ WriteExpectingReply
    BY <1>8 DEF CheckPassed, WriteExpectingReply, Owed
  <1>9. CASE SignalDone \/ WgDone
    BY <1>9 DEF SignalDone, WgDone
  <1>10. CASE ServerStep
    BY <1>10 DEF ServerStep, ShadowReply, ShadowDown
  <1>11. CASE UNCHANGED vars
    BY <1>11 DEF vars
  <1>12. CASE CheckForced \/ WriteNoReply \/ WriteError
              \/ ReadReply \/ ReadTimeout \/ ReadError
    BY <1>7, <1>12 DEF CheckForced, WriteNoReply, WriteError, ReadReply,
       ReadTimeout, ReadError, FinishStep, Result, MustStop
  <1> QED
    BY <1>1, <1>2, <1>3, <1>4, <1>5, <1>6, <1>8, <1>9, <1>10, <1>11, <1>12
    DEF Next, HandlerStep, WorkerStep, Terminated

-----------------------------------------------------------------------------
\* Every step keeps the three facts about the forced close.
LEMMA ForceStep ==
  ASSUME TypeOK, Lifecycle, SkippedOnlyIfForced, InFlightWhenForced,
         AtMostOneAfterForce, [Next]_vars
  PROVE  SkippedOnlyIfForced' /\ InFlightWhenForced' /\ AtMostOneAfterForce'
  <1>0. Len(outcomes) \in Nat /\ forcedAt \in Nat
    BY DEF TypeOK
  <1> USE DEF SkippedOnlyIfForced, InFlightWhenForced, AtMostOneAfterForce
  <1>1. ASSUME NEW res \in Result, FinishStep(res)
        PROVE  /\ SkippedOnlyIfForced' /\ InFlightWhenForced'
               /\ AtMostOneAfterForce'
    <2> PICK reply : Finish(res, reply)
      BY <1>1 DEF FinishStep
    <2>0. Busy
      BY <1>1 DEF FinishStep
    <2>1. /\ Len(outcomes') = Len(outcomes) + 1
          /\ \A i \in 1..Len(outcomes) : outcomes'[i] = outcomes[i]
          /\ outcomes'[Len(outcomes) + 1].res = res
          /\ worker' \in {"select", "drain"}
          /\ closeCh' = closeCh /\ forcedAt' = forcedAt
      BY <2>0, FinishOutcomes
    <2>2. res = "skipped" => closeCh
      BY <1>1 DEF FinishStep
    <2>3. closeCh /\ res # "skipped" => Len(outcomes) = forcedAt
      BY <1>1 DEF FinishStep
    <2>4. SkippedOnlyIfForced'
      BY <1>0, <2>1, <2>2
    <2>5. InFlightWhenForced'
      BY <2>1
    <2>6. AtMostOneAfterForce'
      BY <1>0, <2>1, <2>3
    <2> QED
      BY <2>4, <2>5, <2>6
  <1>2. CASE CloseTimeout
    <2>1. /\ closeCh' /\ forcedAt' = Len(outcomes) /\ outcomes' = outcomes
          /\ worker' = worker
      BY <1>2 DEF CloseTimeout
    <2>2. InFlightWhenForced'
      BY <1>0, <2>1
    <2> QED
      BY <1>0, <2>1, <2>2
  <1>3. ASSUME UNCHANGED <<outcomes, closeCh, forcedAt>>,
               worker' \in {"write", "read"} =>
                 worker \in {"write", "read"} \/ ~closeCh
        PROVE  /\ SkippedOnlyIfForced' /\ InFlightWhenForced'
               /\ AtMostOneAfterForce'
    BY <1>3
  <1>4. CASE InitializeDialFails \/ InitializeAuthFails \/ Initialize
    BY <1>3, <1>4
    DEF InitializeDialFails, InitializeAuthFails, Initialize, chans
  <1>5. CASE Send
    BY <1>3, <1>5 DEF Send, SendQueued, SendHandoff, SendDropped, chans
  <1>6. CASE CloseSignal \/ CloseDrained \/ CloseJoin
    BY <1>3, <1>6 DEF CloseSignal, CloseDrained, CloseJoin, chans
  <1>7. CASE WorkerForced \/ WorkerDrain \/ WorkerTake \/ DrainEmpty
    BY <1>3, <1>7 DEF WorkerForced, WorkerDrain, WorkerTake, DrainEmpty, chans
  <1>8. CASE CheckPassed
    BY <1>3, <1>8 DEF CheckPassed, MustStop, chans
  <1>9. CASE WriteExpectingReply \/ SignalDone \/ WgDone
    BY <1>3, <1>9 DEF WriteExpectingReply, SignalDone, WgDone, chans
  <1>10. CASE ServerStep \/ Terminated \/ UNCHANGED vars
    BY <1>3, <1>10
    DEF ServerStep, ShadowReply, ShadowDown, Terminated, vars, chans
  <1>11. CASE CheckForced \/ WriteNoReply \/ WriteError
              \/ ReadReply \/ ReadTimeout \/ ReadError
    BY <1>1, <1>11 DEF CheckForced, WriteNoReply, WriteError, ReadReply,
       ReadTimeout, ReadError, FinishStep, Result, MustStop, Busy
  <1> QED
    BY <1>2, <1>4, <1>5, <1>6, <1>7, <1>8, <1>9, <1>10, <1>11
    DEF Next, HandlerStep, WorkerStep

-----------------------------------------------------------------------------
NoRest == \A j \in 1..Len(outcomes) : ~LeavesRest(outcomes[j])

\* A finished request that was credited with the right reply, or left a rest,
\* extends RepliesMatchUntilRest; otherwise it must leave nothing behind.
LEMMA FinishReplies ==
  ASSUME TypeOK, Lifecycle, RepliesMatchUntilRest, Busy,
         NEW res, NEW reply, Finish(res, reply),
         NoRest /\ res = "ok" /\ current[1].resp # "none" =>
           reply = current[1].id,
         NoRest /\ res # "timeout" /\ current[1].resp # "partial" =>
           pending' = <<>> /\ inbox' = <<>>
  PROVE  ReplyInStep' /\ RepliesMatchUntilRest'
  <1>1. /\ Len(outcomes) \in Nat /\ Len(outcomes') = Len(outcomes) + 1
        /\ \A i \in 1..Len(outcomes) : outcomes'[i] = outcomes[i]
        /\ outcomes'[Len(outcomes) + 1].req = current[1]
        /\ outcomes'[Len(outcomes) + 1].res = res
        /\ outcomes'[Len(outcomes) + 1].reply = reply
        /\ worker' \in {"select", "drain"}
    BY FinishOutcomes
  <1>2. NoRest' => NoRest /\ res # "timeout" /\ current[1].resp # "partial"
    <2> SUFFICES ASSUME NoRest'
                 PROVE  NoRest /\ res # "timeout" /\ current[1].resp # "partial"
      OBVIOUS
    <2>1. ASSUME NEW j \in 1..Len(outcomes) + 1
          PROVE  ~LeavesRest(outcomes'[j])
      BY <1>1 DEF NoRest, LeavesRest
    <2>2. ASSUME NEW j \in 1..Len(outcomes) PROVE ~LeavesRest(outcomes[j])
      <3>1. j \in 1..Len(outcomes) + 1 /\ outcomes'[j] = outcomes[j]
        BY <1>1
      <3> QED
        BY <2>1, <3>1
    <2>3. res # "timeout" /\ current[1].resp # "partial"
      <3>1. Len(outcomes) + 1 \in 1..Len(outcomes) + 1
        BY <1>1
      <3> QED
        BY <1>1, <2>1, <3>1 DEF LeavesRest
    <2> QED
      BY <2>2, <2>3 DEF NoRest
  <1>3. ReplyInStep'
    BY <1>1, <1>2 DEF ReplyInStep, NoRest, LeavesRest
  <1>4. RepliesMatchUntilRest'
    <2> SUFFICES ASSUME NEW i \in 1..Len(outcomes'),
                        \A j \in 1..i - 1 : ~LeavesRest(outcomes'[j])
                 PROVE  RightReply(outcomes'[i])
      BY DEF RepliesMatchUntilRest, RightReply, LeavesRest
    <2>1. CASE i \in 1..Len(outcomes)
      <3>1. ASSUME NEW j \in 1..i - 1 PROVE ~LeavesRest(outcomes[j])
        BY <1>1, <2>1
      <3> QED
        BY <1>1, <2>1, <3>1 DEF RepliesMatchUntilRest
    <2>2. CASE i = Len(outcomes) + 1
      <3>1. NoRest
        BY <1>1, <2>2 DEF NoRest
      <3> QED
        BY <1>1, <2>2, <3>1 DEF RightReply
    <2> QED
      BY <1>1, <2>1, <2>2
  <1> QED
    BY <1>3, <1>4

\* Every step keeps replies and requests in step until a rest is left.
LEMMA ReplyStep ==
  ASSUME TypeOK, Lifecycle, ReplyInStep, RepliesMatchUntilRest,
         [Next]_vars
  PROVE  ReplyInStep' /\ RepliesMatchUntilRest'
  <1>0. /\ worker \in WorkerPc /\ pending \in Seq(Request)
        /\ inbox \in Seq(1..MaxRequests) /\ handler \in HandlerPc
    BY DEF TypeOK
  <1>1. ASSUME UNCHANGED <<outcomes, pending, inbox>>,
               worker # "read", worker' # "read"
        PROVE  ReplyInStep' /\ RepliesMatchUntilRest'
    BY <1>1 DEF ReplyInStep, RepliesMatchUntilRest, RightReply, LeavesRest
  <1>2. ASSUME UNCHANGED <<outcomes, pending, inbox, worker, current>>
        PROVE  ReplyInStep' /\ RepliesMatchUntilRest'
    BY <1>2 DEF ReplyInStep, RepliesMatchUntilRest, RightReply, LeavesRest,
                ReplyParts
  <1>3. NoRest /\ worker # "read" => pending = <<>> /\ inbox = <<>>
    BY DEF ReplyInStep, NoRest
  <1>4. CASE CheckForced
    BY <1>3, <1>4, FinishReplies DEF CheckForced, Busy
  <1>5. CASE WriteNoReply
    <2>1. current[1].resp = "none"
      BY <1>5 DEF WriteNoReply, ExpectsReply
    <2> QED
      BY <1>3, <1>5, <2>1, FinishReplies DEF WriteNoReply, Busy, Owed
  <1>6. CASE WriteError
    BY <1>3, <1>6, FinishReplies DEF WriteError, Busy
  <1>7. CASE ReadReply
    <2>1. NoRest => pending = <<>> /\ inbox \in ReplyParts(current[1])
      BY <1>7 DEF ReadReply, ReplyInStep, NoRest
    <2>2. NoRest => Head(inbox) = current[1].id
      BY <2>1 DEF ReplyParts
    <2>3. ASSUME NoRest, current[1].resp # "partial" PROVE inbox' = <<>>
      <3>1. inbox = <<current[1].id>>
        BY <2>1, <2>3 DEF ReplyParts
      <3>2. PICK n \in 1..Len(inbox) : inbox' = SubSeq(inbox, n + 1, Len(inbox))
        BY <1>7 DEF ReadReply
      <3>3. n = 1 /\ Len(inbox) = 1
        BY <3>1, <3>2
      <3> QED
        BY <3>2, <3>3, SubSeqEmpty
    <2>4. Finish("ok", Head(inbox)) /\ pending' = pending /\ Busy
      BY <1>7 DEF ReadReply, Busy
    <2> QED
      BY <2>1, <2>2, <2>3, <2>4, FinishReplies
  <1>8. CASE ReadTimeout
    BY <1>8, FinishReplies DEF ReadTimeout, Busy
  <1>9. CASE ReadError
    <2>1. conn = "open"
      BY <1>0, <1>9 DEF ReadError, Lifecycle, HandlerPc
    <2> QED
      BY <1>9, <2>1, FinishReplies DEF ReadError, Busy, Lifecycle
  <1>10. CASE WriteExpectingReply
    <2>1. current[1].resp # "none"
      BY <1>10 DEF WriteExpectingReply, ExpectsReply
    <2>2. NoRest => pending' \in {<<>>, <<current[1]>>} /\ inbox' = <<>>
      BY <1>3, <1>10 DEF WriteExpectingReply, Owed
    <2>3. UNCHANGED <<outcomes, current>> /\ worker' = "read"
      BY <1>10 DEF WriteExpectingReply
    <2>4. ReplyInStep'
      BY <2>1, <2>2, <2>3 DEF ReplyInStep, NoRest, LeavesRest
    <2> QED
      BY <2>3, <2>4 DEF RepliesMatchUntilRest, RightReply, LeavesRest
  <1>11. CASE ShadowReply
    <2>1. NoRest => /\ worker = "read" /\ inbox = <<>>
                    /\ pending = <<current[1]>>
      BY <1>11 DEF ShadowReply, ReplyInStep, NoRest
    <2>2. ASSUME NoRest
          PROVE  inbox' \in ReplyParts(current[1]) /\ pending' = <<>>
      <3>1. pending = <<current[1]>> /\ inbox = <<>>
        BY <2>1, <2>2
      <3>2. Head(pending) = current[1] /\ Tail(pending) = <<>>
        BY <3>1
      <3>3. PICK parts \in ReplyParts(current[1]) : inbox' = inbox \o parts
        BY <1>11, <3>2 DEF ShadowReply
      <3>4. inbox' = parts
        BY <3>1, <3>3 DEF ReplyParts
      <3> QED
        BY <1>11, <3>2, <3>3, <3>4 DEF ShadowReply
    <2>3. UNCHANGED <<outcomes, current, worker>>
      BY <1>11 DEF ShadowReply
    <2>4. ReplyInStep'
      BY <2>1, <2>2, <2>3 DEF ReplyInStep, NoRest, LeavesRest, ReplyParts
    <2> QED
      BY <2>3, <2>4 DEF RepliesMatchUntilRest, RightReply, LeavesRest
  <1>12. CASE ShadowDown
    BY <1>12 DEF ShadowDown, ReplyInStep, RepliesMatchUntilRest, RightReply,
                 LeavesRest, ReplyParts
  <1>13. CASE InitializeDialFails \/ InitializeAuthFails
    BY <1>2, <1>13 DEF InitializeDialFails, InitializeAuthFails, server
  <1>14. CASE Initialize
    BY <1>1, <1>14 DEF Initialize, Lifecycle, server
  <1>15. CASE Send
    BY <1>1, <1>2, <1>15
    DEF Send, SendQueued, SendHandoff, SendDropped, server
  <1>16. CASE CloseSignal \/ CloseDrained \/ CloseTimeout \/ CloseJoin
    BY <1>2, <1>16
    DEF CloseSignal, CloseDrained, CloseTimeout, CloseJoin, server
  <1>17. CASE WorkerForced \/ WorkerDrain \/ WorkerTake \/ DrainEmpty
    BY <1>1, <1>17
    DEF WorkerForced, WorkerDrain, WorkerTake, DrainEmpty, server
  <1>18. CASE CheckPassed \/ SignalDone \/ WgDone
    BY <1>1, <1>18 DEF CheckPassed, SignalDone, WgDone, server
  <1>19. CASE Terminated \/ UNCHANGED vars
    BY <1>2, <1>19 DEF Terminated, vars, server
  <1> QED
    BY <1>4, <1>5, <1>6, <1>7, <1>8, <1>9, <1>10, <1>11, <1>12, <1>13,
       <1>14, <1>15, <1>16, <1>17, <1>18, <1>19
    DEF Next, HandlerStep, WorkerStep, ServerStep
-----------------------------------------------------------------------------
\* The inductive invariant holds in every reachable state.
THEOREM Invariance == Spec => []IInv
  <1>1. IInv /\ [Next]_vars => IInv'
    BY TypeStep, LifecycleStep, FifoStep, ForceStep, ReplyStep DEF IInv
  <1> QED
    BY InitIInv, <1>1, PTL DEF Spec

\* Send, worker and processRequest keep all state within its types, and the
\* queue within the capacity of its channel.
THEOREM TypeCorrect == Spec => []TypeOK
  <1>1. IInv => TypeOK
    BY DEF IInv
  <1> QED
    BY Invariance, <1>1, PTL

\* The worker never uses a connection Close has closed.
THEOREM NoUseAfterClose == Spec => []ConnOpenWhileUsed
  <1>1. IInv => ConnOpenWhileUsed
    BY DEF IInv, TypeOK, Lifecycle, ConnOpenWhileUsed, HandlerPc
  <1> QED
    BY Invariance, <1>1, PTL

\* The queue neither loses, duplicates nor reorders an accepted request.
THEOREM Fifo == Spec => []FifoOnce
  <1>1. IInv => FifoOnce
    BY DEF IInv
  <1> QED
    BY Invariance, <1>1, PTL

\* A Close that was not forced has processed everything Send accepted.
THEOREM DrainComplete == Spec => []GracefulDrain
  <1>1. IInv => GracefulDrain
    <2> SUFFICES ASSUME IInv, handler = "returned", ~closeCh
                 PROVE  /\ Len(outcomes) = Len(accepted)
                        /\ \A i \in 1..Len(outcomes) :
                             outcomes[i].res # "skipped"
      BY DEF GracefulDrain
    <2>1. queue = <<>> /\ Len(current) = 0 /\ Len(queue) = 0
      BY DEF IInv, Lifecycle, Gone, Busy
    <2>2. Len(outcomes) \in Nat
      BY DEF IInv, TypeOK
    <2> QED
      BY <2>1, <2>2 DEF IInv, FifoOnce, SkippedOnlyIfForced
  <1> QED
    BY Invariance, <1>1, PTL

\* A forced close lets at most the request in flight reach the shadow.
THEOREM ForceIsPrompt == Spec => []AtMostOneAfterForce
  <1>1. IInv => AtMostOneAfterForce
    BY DEF IInv
  <1> QED
    BY Invariance, <1>1, PTL

\* Until a read times out or stops before the end of a response, processRequest
\* credits every request with its own reply.
THEOREM RepliesCorrect == Spec => []RepliesMatchUntilRest
  <1>1. IInv => RepliesMatchUntilRest
    BY DEF IInv
  <1> QED
    BY Invariance, <1>1, PTL
-----------------------------------------------------------------------------
Skipped == {i \in 1..Len(outcomes) : outcomes[i].res = "skipped"}

Phase == IF handler = "returned" THEN "closed"
         ELSE IF closeCh THEN "forced"
         ELSE IF drainCh THEN "draining" ELSE "open"

\* Returning from processRequest is an Attempt or a Skip of ShadowMirror.
LEMMA FinishRefines ==
  ASSUME IInv, NEW res \in Result, FinishStep(res),
         UNCHANGED <<handler, drainCh>>
  PROVE  Mirror!Attempt \/ Mirror!Skip
  <1> PICK reply : Finish(res, reply)
    BY DEF FinishStep
  <1> DEFINE n == Len(outcomes)
  <1>0. TypeOK /\ Lifecycle /\ FifoOnce /\ Busy
    BY DEF IInv, FinishStep
  <1>1. /\ n \in Nat /\ Len(outcomes') = n + 1
        /\ \A i \in 1..n : outcomes'[i] = outcomes[i]
        /\ outcomes'[n + 1].res = res
        /\ Len(current) = 1
        /\ UNCHANGED <<accepted, closeCh>>
    BY <1>0, FinishOutcomes
  <1>2. n < Len(accepted)
    <2>1. Len(queue) \in Nat /\ Len(accepted) = n + 1 + Len(queue)
      BY <1>0, <1>1 DEF TypeOK, FifoOnce
    <2> QED
      BY <1>1, <2>1
  <1>3. Phase' = Phase /\ Phase # "closed"
    BY <1>0, <1>1 DEF Phase, Lifecycle, Busy
  <1>4. CASE res = "skipped"
    <2>1. Phase = "forced"
      BY <1>0, <1>4 DEF FinishStep, Phase, Lifecycle, Busy
    <2>2. Skipped' = Skipped \cup {n + 1}
      BY <1>1, <1>4 DEF Skipped
    <2> QED
      BY <1>1, <1>2, <1>3, <2>1, <2>2 DEF Mirror!Skip, Phase, Skipped
  <1>5. CASE res # "skipped"
    <2>1. Skipped' = Skipped
      BY <1>1, <1>5 DEF Skipped
    <2>2. Skipped = {}
      BY <1>5 DEF IInv, InFlightWhenForced, FinishStep, Skipped
    <2> QED
      BY <1>1, <1>2, <1>3, <2>1, <2>2 DEF Mirror!Attempt, Phase, Skipped
  <1> QED
    BY <1>4, <1>5

\* Every step of the worker is a step of ShadowMirror or changes nothing it
\* can see.
LEMMA StepRefines ==
  ASSUME IInv, [Next]_vars
  PROVE  [Mirror!Next]_(Mirror!vars)
  <1>0. TypeOK /\ Lifecycle /\ FifoOnce
    BY DEF IInv
  <1>1. ASSUME UNCHANGED <<accepted, outcomes, drainCh, closeCh>>,
               handler' = "returned" <=> handler = "returned"
        PROVE  UNCHANGED Mirror!vars
    BY <1>1 DEF Mirror!vars
  <1>2. CASE InitializeDialFails \/ InitializeAuthFails \/ Initialize
    BY <1>1, <1>2
    DEF InitializeDialFails, InitializeAuthFails, Initialize, chans
  <1>3. CASE Send
    <2> PICK resp \in Response :
          LET r == [id |-> next, resp |-> resp]
          IN  SendQueued(r) \/ SendHandoff(r) \/ SendDropped(r)
      BY <1>3 DEF Send
    <2> DEFINE r == [id |-> next, resp |-> resp]
    <2>1. r \in Request
      BY <1>0, <1>3 DEF Send, Request, TypeOK
    <2>2. /\ UNCHANGED <<outcomes, drainCh, closeCh, handler>>
          /\ handler = "serving" /\ ~drainCh /\ ~closeCh
      BY <1>0, <1>3 DEF Send, Lifecycle, chans
    <2> HIDE DEF r
    <2>3. CASE accepted' = Append(accepted, r)
      <3>1. Mirror!Accept(r)
        BY <2>2, <2>3 DEF Mirror!Accept
      <3> QED
        BY <2>1, <3>1 DEF Mirror!Next
    <2>4. CASE accepted' = accepted
      BY <1>1, <2>2, <2>4
    <2> QED
      BY <2>3, <2>4 DEF r, SendQueued, SendHandoff, SendDropped
  <1>4. CASE CloseSignal
    <2>1. Mirror!Drain
      BY <1>0, <1>4 DEF CloseSignal, Lifecycle, Mirror!Drain
    <2> QED
      BY <2>1 DEF Mirror!Next
  <1>5. CASE CloseDrained
    BY <1>1, <1>5 DEF CloseDrained, chans
  <1>6. CASE CloseTimeout
    <2>1. Mirror!Force
      BY <1>0, <1>6 DEF CloseTimeout, Lifecycle, Mirror!Force
    <2> QED
      BY <2>1 DEF Mirror!Next
  <1>7. CASE CloseJoin
    <2>1. /\ handler = "joining" /\ handler' = "returned" /\ Gone /\ drainCh
          /\ UNCHANGED <<accepted, outcomes, drainCh, closeCh>>
      BY <1>0, <1>7 DEF CloseJoin, Joined, Lifecycle, Gone, chans
    <2>2. ~closeCh => Len(outcomes) = Len(accepted)
      <3>1. ~closeCh => Len(queue) = 0 /\ Len(current) = 0
        BY <1>0, <2>1 DEF Lifecycle, Gone, Busy
      <3>2. Len(outcomes) \in Nat
        BY <1>0 DEF TypeOK
      <3> QED
        BY <1>0, <3>1, <3>2 DEF FifoOnce
    <2>3. Mirror!Close
      BY <2>1, <2>2 DEF Mirror!Close
    <2> QED
      BY <2>3 DEF Mirror!Next
  <1>8. CASE WorkerForced \/ WorkerDrain \/ WorkerTake \/ DrainEmpty
             \/ CheckPassed \/ WriteExpectingReply \/ SignalDone \/ WgDone
    BY <1>1, <1>8 DEF WorkerForced, WorkerDrain, WorkerTake, DrainEmpty,
       CheckPassed, WriteExpectingReply, SignalDone, WgDone, chans
  <1>9. CASE ServerStep \/ Terminated \/ UNCHANGED vars
    BY <1>1, <1>9
    DEF ServerStep, ShadowReply, ShadowDown, Terminated, vars, chans
  <1>10. CASE CheckForced \/ WriteNoReply \/ WriteError
              \/ ReadReply \/ ReadTimeout \/ ReadError
    <2>1. /\ \E res \in Result : FinishStep(res)
          /\ UNCHANGED <<handler, drainCh>>
      BY <1>10 DEF CheckForced, WriteNoReply, WriteError, ReadReply,
         ReadTimeout, ReadError, Finish, FinishStep, Result, MustStop, Busy,
         chans
    <2> QED
      BY <2>1, FinishRefines DEF Mirror!Next
  <1> QED
    BY <1>2, <1>3, <1>4, <1>5, <1>6, <1>7, <1>8, <1>9, <1>10
    DEF Next, HandlerStep, WorkerStep

\* The MySQL worker implements ShadowMirror: one attempt per accepted request,
\* in order, and no close before all of them unless it was forced.
THEOREM Refinement == Spec => ImplementsMirror
  <1>1. Init => Mirror!Init
    BY DEF Init, Mirror!Init
  <1>2. IInv /\ [Next]_vars => [Mirror!Next]_(Mirror!vars)
    BY StepRefines
  <1> QED
    BY <1>1, <1>2, Invariance, PTL DEF Spec, ImplementsMirror, Mirror!Spec
=============================================================================
