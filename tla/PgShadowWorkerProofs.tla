----------------------- MODULE PgShadowWorkerProofs -------------------------
(***************************************************************************)
(* Safety of the pgwire shadow worker for every queue size and any number  *)
(* of frames: the dead latch, the replies, and the refinement of           *)
(* ShadowMirror.  IInv is inductive; the theorems at the end follow from   *)
(* it.                                                                     *)
(***************************************************************************)
EXTENDS PgShadowWorker, SequenceTheorems, TLAPS

USE PgBoundsAssumption

Busy == worker \in {"check", "write", "read"}
Gone == worker \in {"return", "done", "exited"}

\* How the two goroutines, the channels and the connection go together.
Lifecycle ==
  /\ worker = "unborn" <=> handler \in {"new", "noShadow"}
  /\ worker = "unborn" => conn = "none" /\ dead = FALSE
  /\ worker # "unborn" /\ handler # "returned" =>
       conn = IF dead THEN "closed" ELSE "open"
  /\ handler = "returned" => worker = "exited"
  /\ Len(current) = IF Busy THEN 1 ELSE 0
  /\ drainCh <=> handler \in {"draining", "joining", "returned"}
  /\ closeCh => handler \in {"joining", "returned"}
  /\ draining => drainCh
  /\ worker = "drain" => draining
  /\ Gone => drainCh /\ (closeCh \/ queue = <<>>)
  /\ worker \in {"write", "read"} => dead = FALSE

\* Frames are left out only after a forced close or a failure, a failure
\* latches dead, and no frame is on the wire once one was left out.
Latched ==
  /\ \A i \in 1..Len(outcomes) : outcomes[i].res \in Unsent => closeCh \/ dead
  /\ \A i \in 1..Len(outcomes) : outcomes[i].res \in Failed => dead
  /\ worker \in {"write", "read"} =>
       \A i \in 1..Len(outcomes) : outcomes[i].res \notin Unsent

\* No FunctionCall has been mirrored.
NoCall ==
  /\ \A i \in 1..Len(outcomes) : outcomes[i].req.kind # "call"
  /\ \A i \in 1..Len(current) : current[i].kind # "call"

\* Then a ReadyForQuery on its way is the one the worker is waiting for, and
\* nothing follows it.
ReadyInStep ==
  NoCall /\ dead = FALSE =>
    /\ \A i \in 1..Len(inbox) : inbox[i].z =>
         /\ worker = "read" /\ inbox[i].id = current[1].id
         /\ i = Len(inbox) /\ pending = <<>>
    /\ \A i \in 1..Len(pending) : pending[i].z =>
         worker = "read" /\ pending[i].id = current[1].id /\ i = Len(pending)

IInv ==
  /\ TypeOK /\ Lifecycle /\ FifoOnce
  /\ Latched /\ NothingAfterFailure
  /\ ReadyInStep /\ RepliesMatchUntilCall
-----------------------------------------------------------------------------
\* The frame in flight is a frame.
LEMMA CurrentIsFrame ==
  ASSUME TypeOK, Lifecycle, Busy
  PROVE  current[1] \in Frame
  <1>1. current \in Seq(Frame) /\ Len(current) = 1
    BY DEF TypeOK, Lifecycle
  <1> QED
    BY <1>1

\* And so is the one between the two halves of Send.
LEMMA SendingIsFrame ==
  ASSUME TypeOK, handler = "sending"
  PROVE  sending[1] \in Frame
  <1>1. sending \in Seq(Frame) /\ Len(sending) = 1
    BY DEF TypeOK
  <1> QED
    BY <1>1

\* The initial state satisfies the inductive invariant.
LEMMA InitIInv == Init => IInv
  <1> SUFFICES ASSUME Init PROVE IInv
    OBVIOUS
  <1> USE DEF Init
  <1>1. TypeOK
    <2>1. /\ sending \in Seq(Frame) /\ queue \in Seq(Frame)
          /\ current \in Seq(Frame) /\ accepted \in Seq(Frame)
          /\ Len(sending) = 0 /\ Len(queue) <= QueueSize /\ Len(current) <= 1
      OBVIOUS
    <2>2. /\ pending \in Seq(Message) /\ inbox \in Seq(Message)
          /\ outcomes \in Seq(Outcome)
      OBVIOUS
    <2>3. next \in 1..MaxFrames+1
      OBVIOUS
    <2>4. Len(sending) = IF handler = "sending" THEN 1 ELSE 0
      OBVIOUS
    <2>5. /\ draining \in BOOLEAN /\ dead \in BOOLEAN
          /\ drainCh \in BOOLEAN /\ closeCh \in BOOLEAN /\ doneCh \in BOOLEAN
      OBVIOUS
    <2>6. /\ handler \in HandlerPc /\ worker \in WorkerPc
          /\ conn \in {"none", "open", "closed"} /\ peer \in {"up", "down"}
      BY DEF HandlerPc, WorkerPc
    <2> QED
      BY <2>1, <2>2, <2>3, <2>4, <2>5, <2>6, Zenon DEF TypeOK
  <1>2. Lifecycle
    BY DEF Lifecycle, Busy, Gone
  <1>3. FifoOnce
    BY DEF FifoOnce
  <1>4. Latched /\ NothingAfterFailure
    BY DEF Latched, NothingAfterFailure
  <1>5. ReadyInStep /\ RepliesMatchUntilCall
    BY DEF ReadyInStep, RepliesMatchUntilCall
  <1> QED
    BY <1>1, <1>2, <1>3, <1>4, <1>5 DEF IInv

\* Finish keeps the types, whatever it records and whatever becomes of the
\* connection.
LEMMA FinishType ==
  ASSUME TypeOK, Lifecycle, Busy, NEW res \in Result,
         NEW reply \in 0..MaxFrames, Finish(res, reply), Alive \/ markDead,
         pending' \in Seq(Message), inbox' \in Seq(Message)
  PROVE  TypeOK'
  <1> DEFINE o == [req |-> current[1], res |-> res, reply |-> reply]
  <1>1. o \in Outcome
    BY CurrentIsFrame DEF Outcome
  <1>2. outcomes' = Append(outcomes, o)
    BY DEF Finish
  <1> HIDE DEF o
  <1>3. outcomes' \in Seq(Outcome)
    BY <1>1, <1>2, AppendProperties DEF TypeOK
  <1>4. dead' \in BOOLEAN /\ conn' \in {"none", "open", "closed"}
    BY DEF Alive, markDead, TypeOK
  <1>5. current' \in Seq(Frame) /\ Len(current') <= 1 /\ worker' \in WorkerPc
    BY DEF Finish, WorkerPc
  <1> QED
    BY <1>3, <1>4, <1>5 DEF Finish, TypeOK, chans

\* What the server owes for a frame are messages.
LEMMA DeliverType ==
  ASSUME TypeOK, Lifecycle, Busy, Deliver(current[1])
  PROVE  pending' \in Seq(Message)
  <1> DEFINE f == current[1]
             data == [id |-> f.id, z |-> FALSE]
             ready == [id |-> f.id, z |-> TRUE]
  <1>1. f.id \in 1..MaxFrames
    BY CurrentIsFrame DEF Frame
  <1>2. data \in Message /\ ready \in Message
    BY <1>1 DEF Message
  <1>3. Responses(f) \subseteq {<<>>, <<data>>, <<ready>>, <<data, ready>>}
    BY DEF Responses
  <1> HIDE DEF data, ready
  <1>4. {<<>>, <<data>>, <<ready>>, <<data, ready>>} \subseteq Seq(Message)
    BY <1>2
  <1>5. pending \in Seq(Message)
    BY DEF TypeOK
  <1>6. CASE peer = "up"
    <2> PICK m \in Responses(f) : pending' = pending \o m
      BY <1>6 DEF Deliver
    <2> QED
      BY <1>3, <1>4, <1>5, ConcatProperties
  <1>7. CASE peer # "up"
    BY <1>5, <1>7 DEF Deliver
  <1> QED
    BY <1>6, <1>7

\* Every step keeps the types.
LEMMA TypeStep == TypeOK /\ Lifecycle /\ [Next]_vars => TypeOK'
  <1> SUFFICES ASSUME TypeOK, Lifecycle, [Next]_vars PROVE TypeOK'
    OBVIOUS
  <1> USE DEF TypeOK, HandlerPc, WorkerPc, chans, server
  <1>1. CASE InitializeFails
    BY <1>1 DEF InitializeFails
  <1>2. CASE Initialize
    BY <1>2 DEF Initialize
  <1>3. CASE SendCheck
    <2>1. CASE dead
      BY <1>3, <2>1 DEF SendCheck
    <2>2. CASE ~dead
      <3> PICK k \in Kind : sending' = <<[id |-> next, kind |-> k]>>
        BY <1>3, <2>2 DEF SendCheck
      <3>1. [id |-> next, kind |-> k] \in Frame
        BY <1>3 DEF SendCheck, Frame
      <3>2. sending' \in Seq(Frame) /\ Len(sending') = 1
        BY <3>1
      <3> QED
        BY <1>3, <2>2, <3>2 DEF SendCheck
    <2> QED
      BY <2>1, <2>2
  <1>4. CASE SendEnqueue
    <2> DEFINE f == sending[1]
    <2>1. f \in Frame
      BY <1>4, SendingIsFrame DEF SendEnqueue
    <2> HIDE DEF f
    <2>2. CASE Enqueue(f)
      BY <1>4, <2>1, <2>2, AppendProperties DEF SendEnqueue, Enqueue, HasRoom
    <2>3. CASE Handoff(f)
      BY <1>4, <2>1, <2>3, AppendProperties DEF SendEnqueue, Handoff
    <2>4. CASE Overflow(f)
      BY <1>4, <2>4 DEF SendEnqueue, Overflow
    <2> QED
      BY <1>4, <2>2, <2>3, <2>4 DEF SendEnqueue, f
  <1>5. CASE CloseSignal
    BY <1>5 DEF CloseSignal
  <1>6. CASE CloseDrained
    BY <1>6 DEF CloseDrained
  <1>7. CASE CloseTimeout
    BY <1>7 DEF CloseTimeout
  <1>8. CASE CloseJoin
    BY <1>8 DEF CloseJoin
  <1>9. CASE WorkerForced
    BY <1>9 DEF WorkerForced
  <1>10. CASE WorkerDrain
    BY <1>10 DEF WorkerDrain
  <1>11. CASE WorkerTake
    <2>1. /\ Head(queue) \in Frame /\ Tail(queue) \in Seq(Frame)
          /\ Len(Tail(queue)) = Len(queue) - 1
      BY <1>11, HeadTailProperties DEF WorkerTake
    <2> QED
      BY <1>11, <2>1 DEF WorkerTake
  <1>12. CASE DrainEmpty
    BY <1>12 DEF DrainEmpty
  <1>13. CASE CheckForced
    BY <1>13, FinishType DEF CheckForced, Busy, Result, Unsent
  <1>14. CASE CheckDead
    BY <1>14, FinishType DEF CheckDead, Busy, Result, Unsent
  <1>15. CASE CheckPassed
    BY <1>15 DEF CheckPassed
  <1>16. CASE WriteExpecting
    <2>1. pending' \in Seq(Message)
      BY <1>16, DeliverType DEF WriteExpecting, Busy
    <2> QED
      BY <1>16, <2>1 DEF WriteExpecting
  <1>17. CASE WriteOnly
    <2>1. pending' \in Seq(Message)
      BY <1>17, DeliverType DEF WriteOnly, Busy
    <2> QED
      BY <1>17, <2>1, FinishType DEF WriteOnly, Busy, Result
  <1>18. CASE WriteError
    BY <1>18, FinishType DEF WriteError, Busy, Result, Failed
  <1>19. CASE ReadMore
    <2>1. Tail(inbox) \in Seq(Message)
      BY <1>19, HeadTailProperties DEF ReadMore
    <2> QED
      BY <1>19, <2>1 DEF ReadMore
  <1>20. CASE ReadReady
    <2>1. Head(inbox) \in Message /\ Tail(inbox) \in Seq(Message)
      BY <1>20, HeadTailProperties DEF ReadReady
    <2>2. Head(inbox).id \in 0..MaxFrames
      BY <2>1 DEF Message
    <2> QED
      BY <1>20, <2>1, <2>2, FinishType DEF ReadReady, Busy, Result
  <1>21. CASE ReadTimeout
    BY <1>21, FinishType DEF ReadTimeout, Busy, Result, Failed
  <1>22. CASE ReadError
    BY <1>22, FinishType DEF ReadError, Busy, Result, Failed
  <1>23. CASE SignalDone \/ WgDone
    <2>1. CASE SignalDone
      BY <2>1 DEF SignalDone
    <2>2. CASE WgDone
      BY <2>2 DEF WgDone
    <2> QED
      BY <1>23, <2>1, <2>2
  <1>24. CASE ShadowReply
    <2>1. Head(pending) \in Message /\ Tail(pending) \in Seq(Message)
      BY <1>24, HeadTailProperties DEF ShadowReply
    <2> QED
      BY <1>24, <2>1, AppendProperties DEF ShadowReply
  <1>25. CASE ShadowDown
    BY <1>25 DEF ShadowDown
  <1>26. CASE UNCHANGED vars
    BY <1>26 DEF vars
  <1> QED
    BY <1>1, <1>2, <1>3, <1>4, <1>5, <1>6, <1>7, <1>8, <1>9, <1>10, <1>11,
       <1>12, <1>13, <1>14, <1>15, <1>16, <1>17, <1>18, <1>19, <1>20, <1>21,
       <1>22, <1>23, <1>24, <1>25, <1>26
    DEF Next, HandlerStep, WorkerStep, ServerStep, Terminated
-----------------------------------------------------------------------------
\* What Finish does to the history of outcomes.
LEMMA FinishOutcomes ==
  ASSUME TypeOK, Lifecycle, Busy, NEW res, NEW reply, Finish(res, reply)
  PROVE  /\ Len(outcomes) \in Nat /\ Len(outcomes') = Len(outcomes) + 1
         /\ \A i \in 1..Len(outcomes) : outcomes'[i] = outcomes[i]
         /\ outcomes'[Len(outcomes) + 1].req = current[1]
         /\ outcomes'[Len(outcomes) + 1].res = res
         /\ outcomes'[Len(outcomes) + 1].reply = reply
         /\ Len(current) = 1 /\ current' = <<>> /\ Len(current') = 0
         /\ worker' \in {"select", "drain"}
         /\ UNCHANGED <<queue, accepted, closeCh>>
  <1> DEFINE o == [req |-> current[1], res |-> res, reply |-> reply]
  <1>1. outcomes' = Append(outcomes, o) /\ outcomes \in Seq(Outcome)
    BY DEF Finish, TypeOK
  <1> HIDE DEF o
  <1>2. /\ Len(outcomes) \in Nat /\ Len(outcomes') = Len(outcomes) + 1
        /\ \A i \in 1..Len(outcomes) : outcomes'[i] = outcomes[i]
        /\ outcomes'[Len(outcomes) + 1] = o
    BY <1>1
  <1>3. /\ Len(current) = 1 /\ current' = <<>> /\ Len(current') = 0
        /\ worker' \in {"select", "drain"}
        /\ UNCHANGED <<queue, accepted, closeCh>>
    BY DEF Finish, Lifecycle, chans
  <1> QED
    BY <1>2, <1>3 DEF o

\* The steps that end a call of processFrame, and the result they record.
FinishStep(res) ==
  /\ Busy
  /\ \E reply : Finish(res, reply)
  /\ \/ res = "skipped" /\ worker = "check" /\ closeCh /\ Alive
     \/ res = "dropped" /\ worker = "check" /\ dead /\ Alive
     \/ res = "ok" /\ worker \in {"write", "read"} /\ Alive
     \/ res \in Failed /\ worker \in {"write", "read"} /\ markDead

Ending ==
  \/ CheckForced \/ CheckDead \/ WriteOnly \/ WriteError
  \/ ReadReady \/ ReadTimeout \/ ReadError

LEMMA EndingFinishes ==
  ASSUME Ending
  PROVE  \E res \in Result : FinishStep(res)
  <1> USE DEF FinishStep, Busy, Result, Unsent, Failed
  <1>1. CASE CheckForced
    BY <1>1 DEF CheckForced
  <1>2. CASE CheckDead
    BY <1>2 DEF CheckDead, DeadLoaded
  <1>3. CASE WriteOnly
    BY <1>3 DEF WriteOnly
  <1>4. CASE WriteError
    BY <1>4 DEF WriteError
  <1>5. CASE ReadReady
    BY <1>5 DEF ReadReady
  <1>6. CASE ReadTimeout
    BY <1>6 DEF ReadTimeout
  <1>7. CASE ReadError
    BY <1>7 DEF ReadError
  <1> QED
    BY <1>1, <1>2, <1>3, <1>4, <1>5, <1>6, <1>7 DEF Ending

\* Every other step leaves the outcomes alone.
LEMMA StepKinds ==
  ASSUME [Next]_vars
  PROVE  \/ \E res \in Result : FinishStep(res)
         \/ SendEnqueue \/ WorkerTake
         \/ UNCHANGED <<queue, accepted, current, outcomes>>
  <1>1. CASE Ending
    BY <1>1, EndingFinishes
  <1>2. CASE InitializeFails \/ Initialize \/ SendCheck
    BY <1>2 DEF InitializeFails, Initialize, SendCheck
  <1>3. CASE CloseSignal \/ CloseDrained \/ CloseTimeout \/ CloseJoin
    BY <1>3 DEF CloseSignal, CloseDrained, CloseTimeout, CloseJoin
  <1>4. CASE WorkerForced \/ WorkerDrain \/ DrainEmpty \/ CheckPassed
             \/ WriteExpecting \/ ReadMore \/ SignalDone \/ WgDone
    BY <1>4 DEF WorkerForced, WorkerDrain, DrainEmpty, CheckPassed,
                WriteExpecting, ReadMore, SignalDone, WgDone
  <1>5. CASE ServerStep \/ Terminated \/ UNCHANGED vars
    BY <1>5 DEF ServerStep, ShadowReply, ShadowDown, Terminated, vars
  <1> QED
    BY <1>1, <1>2, <1>3, <1>4, <1>5 DEF Next, HandlerStep, WorkerStep, Ending

\* Every step keeps the order and the count of the frames.
LEMMA FifoStep ==
  TypeOK /\ Lifecycle /\ FifoOnce /\ [Next]_vars => FifoOnce'
  <1> SUFFICES ASSUME TypeOK, Lifecycle, FifoOnce, [Next]_vars
               PROVE  FifoOnce'
    OBVIOUS
  <1>0. /\ Len(outcomes) \in Nat /\ Len(queue) \in Nat
        /\ Len(accepted) \in Nat /\ Len(current) \in Nat
    BY DEF TypeOK
  <1>1. ASSUME NEW res \in Result, FinishStep(res) PROVE FifoOnce'
    <2> PICK reply : Finish(res, reply)
      BY <1>1 DEF FinishStep
    <2> DEFINE n == Len(outcomes)
    <2>0. Busy
      BY <1>1 DEF FinishStep
    <2>1. /\ Len(outcomes') = n + 1
          /\ \A i \in 1..n : outcomes'[i] = outcomes[i]
          /\ outcomes'[n + 1].req = current[1]
          /\ Len(current) = 1 /\ Len(current') = 0
          /\ UNCHANGED <<queue, accepted>>
      BY <2>0, FinishOutcomes
    <2>2. current[1] = accepted[n + 1]
      BY <2>1 DEF FifoOnce
    <2>3. \A i \in 1..n + 1 : outcomes'[i].req = accepted[i]
      <3>1. ASSUME NEW i \in 1..n PROVE outcomes'[i].req = accepted[i]
        <4>1. outcomes[i].req = accepted[i]
          BY DEF FifoOnce
        <4> QED
          BY <2>1, <4>1
      <3>2. outcomes'[n + 1].req = accepted[n + 1]
        BY <2>1, <2>2
      <3>3. \A i \in 1..n + 1 : i \in 1..n \/ i = n + 1
        BY <1>0
      <3> QED
        BY <3>1, <3>2, <3>3
    <2>4. /\ Len(accepted') = Len(outcomes') + Len(current') + Len(queue')
          /\ Len(outcomes') + Len(current') = n + 1
      <3>1. Len(accepted) = n + 1 + Len(queue)
        BY <2>1 DEF FifoOnce
      <3>2. accepted' = accepted /\ queue' = queue
        BY <2>1
      <3> QED
        BY <1>0, <2>1, <3>1, <3>2
    <2>5. \A i \in 1..Len(queue') :
            queue'[i] = accepted'[Len(outcomes') + Len(current') + i]
      <3>1. \A i \in 1..Len(queue) : queue[i] = accepted[n + 1 + i]
        BY <2>1 DEF FifoOnce
      <3> QED
        BY <2>1, <2>4, <3>1
    <2>6. \A i \in 1..Len(outcomes') : outcomes'[i].req = accepted'[i]
      BY <2>1, <2>3
    <2>7. \A i \in 1..Len(current') :
            current'[i] = accepted'[Len(outcomes') + i]
      BY <2>1
    <2> QED
      BY <2>4, <2>5, <2>6, <2>7 DEF FifoOnce
  <1>2. CASE SendEnqueue
    <2> DEFINE f == sending[1]
    <2>1. f \in Frame
      BY <1>2, SendingIsFrame DEF SendEnqueue
    <2>2. outcomes' = outcomes
      BY <1>2 DEF SendEnqueue
    <2> HIDE DEF f
    <2>3. CASE Enqueue(f)
      <3>1. /\ queue \in Seq(Frame) /\ accepted \in Seq(Frame)
            /\ queue' = Append(queue, f) /\ accepted' = Append(accepted, f)
            /\ current' = current
        BY <2>3 DEF Enqueue, TypeOK
      <3>2. /\ Len(queue') = Len(queue) + 1 /\ queue'[Len(queue) + 1] = f
            /\ \A i \in 1..Len(queue) : queue'[i] = queue[i]
            /\ Len(accepted') = Len(accepted) + 1
            /\ accepted'[Len(accepted) + 1] = f
            /\ \A i \in 1..Len(accepted) : accepted'[i] = accepted[i]
        BY <2>1, <3>1
      <3>3. /\ Len(accepted) = Len(outcomes) + Len(current) + Len(queue)
            /\ \A i \in 1..Len(outcomes) : outcomes[i].req = accepted[i]
            /\ \A i \in 1..Len(current) :
                 current[i] = accepted[Len(outcomes) + i]
            /\ \A i \in 1..Len(queue) :
                 queue[i] = accepted[Len(outcomes) + Len(current) + i]
        BY DEF FifoOnce
      <3>4. \A i \in 1..Len(outcomes) : outcomes[i].req = accepted'[i]
        BY <1>0, <3>2, <3>3
      <3>5. \A i \in 1..Len(current) :
              current[i] = accepted'[Len(outcomes) + i]
        BY <1>0, <3>2, <3>3
      <3>6. \A i \in 1..Len(queue') :
              queue'[i] = accepted'[Len(outcomes) + Len(current) + i]
        <4> SUFFICES ASSUME NEW i \in 1..Len(queue) + 1
                     PROVE  queue'[i] =
                              accepted'[Len(outcomes) + Len(current) + i]
          BY <3>2
        <4>1. CASE i \in 1..Len(queue)
          <5>1. Len(outcomes) + Len(current) + i \in 1..Len(accepted)
            BY <1>0, <3>3, <4>1
          <5> QED
            BY <3>2, <3>3, <4>1, <5>1
        <4>2. CASE i = Len(queue) + 1
          <5>1. Len(outcomes) + Len(current) + i = Len(accepted) + 1
            BY <1>0, <3>3, <4>2
          <5> QED
            BY <3>2, <4>2, <5>1
        <4> QED
          BY <1>0, <4>1, <4>2
      <3>7. Len(accepted') = Len(outcomes) + Len(current) + Len(queue')
        BY <1>0, <3>2, <3>3
      <3>8. outcomes' = outcomes /\ current' = current
        BY <2>2, <3>1
      <3> QED
        BY <3>4, <3>5, <3>6, <3>7, <3>8 DEF FifoOnce
    <2>4. CASE Handoff(f)
      <3>1. /\ queue = <<>> /\ queue' = queue /\ current' = <<f>>
            /\ accepted \in Seq(Frame) /\ accepted' = Append(accepted, f)
            /\ Len(current) = 0
        <4>1. Len(current) = 0
          BY <2>4 DEF Handoff, Lifecycle, Busy
        <4> QED
          BY <2>4, <4>1 DEF Handoff, TypeOK
      <3> QED
        BY <1>0, <2>1, <2>2, <3>1 DEF FifoOnce
    <2>5. CASE Overflow(f)
      BY <2>2, <2>5 DEF Overflow, FifoOnce
    <2> QED
      BY <1>2, <2>3, <2>4, <2>5 DEF f, SendEnqueue
  <1>3. CASE WorkerTake
    <2>1. /\ queue \in Seq(Frame) /\ queue # <<>>
          /\ queue' = Tail(queue) /\ current' = <<Head(queue)>>
          /\ UNCHANGED <<accepted, outcomes>>
          /\ Len(current) = 0
      BY <1>3 DEF WorkerTake, TypeOK, Lifecycle, Busy
    <2>2. /\ Len(queue') = Len(queue) - 1 /\ Len(queue) >= 1
          /\ Head(queue) = queue[1]
          /\ \A i \in 1..Len(queue') : queue'[i] = queue[i + 1]
      BY <2>1
    <2>3. Len(current') = 1 /\ current'[1] = queue[1]
      BY <2>1, <2>2
    <2>4. queue[1] = accepted[Len(outcomes) + 1]
      BY <1>0, <2>1, <2>2 DEF FifoOnce
    <2>5. \A i \in 1..Len(queue') :
            queue'[i] = accepted[Len(outcomes) + 1 + i]
      <3> SUFFICES ASSUME NEW i \in 1..Len(queue')
                   PROVE  queue'[i] = accepted[Len(outcomes) + 1 + i]
        OBVIOUS
      <3>1. i + 1 \in 1..Len(queue) /\ queue'[i] = queue[i + 1]
        BY <1>0, <2>2
      <3> QED
        BY <1>0, <2>1, <3>1 DEF FifoOnce
    <2>6. /\ Len(accepted') = Len(outcomes') + Len(current') + Len(queue')
          /\ \A i \in 1..Len(outcomes') : outcomes'[i].req = accepted'[i]
      <3>1. /\ Len(accepted) = Len(outcomes) + Len(queue)
            /\ \A i \in 1..Len(outcomes) : outcomes[i].req = accepted[i]
        BY <1>0, <2>1 DEF FifoOnce
      <3>2. accepted' = accepted /\ outcomes' = outcomes
        BY <2>1
      <3>3. Len(accepted) = Len(outcomes) + Len(current') + Len(queue')
        BY <1>0, <2>2, <2>3, <3>1
      <3> QED
        BY <3>1, <3>2, <3>3
    <2>7. /\ Len(outcomes') + Len(current') = Len(outcomes) + 1
          /\ \A i \in 1..Len(current') :
               current'[i] = accepted'[Len(outcomes') + i]
      BY <1>0, <2>1, <2>3, <2>4
    <2>8. \A i \in 1..Len(queue') :
            queue'[i] = accepted'[Len(outcomes') + Len(current') + i]
      BY <2>1, <2>5, <2>7
    <2> QED
      BY <2>6, <2>7, <2>8 DEF FifoOnce
  <1>4. CASE UNCHANGED <<queue, accepted, current, outcomes>>
    BY <1>4 DEF FifoOnce
  <1> QED
    BY <1>1, <1>2, <1>3, <1>4, StepKinds
-----------------------------------------------------------------------------
\* Every step keeps the two goroutines, the channels and the connection in
\* agreement.
LEMMA LifecycleStep ==
  TypeOK /\ Lifecycle /\ [Next]_vars => Lifecycle'
  <1> SUFFICES ASSUME TypeOK, Lifecycle, [Next]_vars PROVE Lifecycle'
    OBVIOUS
  <1>0. /\ handler \in HandlerPc /\ worker \in WorkerPc
        /\ draining \in BOOLEAN /\ drainCh \in BOOLEAN
        /\ closeCh \in BOOLEAN /\ doneCh \in BOOLEAN /\ dead \in BOOLEAN
    BY DEF TypeOK
  <1> USE <1>0 DEF Lifecycle, Busy, Gone, HandlerPc, WorkerPc, chans, server
  <1>1. CASE InitializeFails \/ Initialize
    BY <1>1 DEF InitializeFails, Initialize
  <1>2. CASE SendCheck
    <2>1. handler = "serving" /\ handler' \in {"serving", "sending"}
      BY <1>2 DEF SendCheck
    <2> QED
      BY <1>2, <2>1 DEF SendCheck
  <1>3. CASE SendEnqueue
    <2> DEFINE f == sending[1]
    <2>1. ~Gone
      BY <1>3 DEF SendEnqueue
    <2> HIDE DEF f
    <2>2. CASE Enqueue(f)
      BY <1>3, <2>1, <2>2 DEF Enqueue, SendEnqueue
    <2>3. CASE Handoff(f)
      BY <1>3, <2>1, <2>3 DEF Handoff, SendEnqueue
    <2>4. CASE Overflow(f)
      BY <1>3, <2>4 DEF Overflow, SendEnqueue
    <2> QED
      BY <1>3, <2>2, <2>3, <2>4 DEF f, SendEnqueue
  <1>4. CASE CloseSignal \/ CloseDrained \/ CloseTimeout
    BY <1>4 DEF CloseSignal, CloseDrained, CloseTimeout
  <1>5. CASE CloseJoin
    BY <1>5 DEF CloseJoin, Joined
  <1>6. CASE WorkerForced \/ WorkerDrain \/ DrainEmpty
    BY <1>6 DEF WorkerForced, WorkerDrain, DrainEmpty, NothingPending
  <1>7. CASE WorkerTake
    BY <1>7 DEF WorkerTake
  <1>8. CASE Ending
    <2> PICK res \in Result : FinishStep(res)
      BY <1>8, EndingFinishes
    <2> PICK reply : Finish(res, reply)
      BY DEF FinishStep
    <2>1. Alive \/ markDead
      BY DEF FinishStep
    <2>2. Busy
      BY DEF FinishStep
    <2>3. CASE Alive
      BY <2>2, <2>3 DEF Finish, Alive
    <2>4. CASE markDead
      BY <2>2, <2>4 DEF Finish, markDead
    <2> QED
      BY <2>1, <2>3, <2>4
  <1>9. CASE CheckPassed
    BY <1>9 DEF CheckPassed, DeadLoaded
  <1>10. CASE WriteExpecting \/ ReadMore
    BY <1>10 DEF WriteExpecting, ReadMore
  <1>11. CASE SignalDone \/ WgDone
    BY <1>11 DEF SignalDone, WgDone
  <1>12. CASE ServerStep
    BY <1>12 DEF ServerStep, ShadowReply, ShadowDown
  <1>13. CASE UNCHANGED vars
    BY <1>13 DEF vars
  <1> QED
    BY <1>1, <1>2, <1>3, <1>4, <1>5, <1>6, <1>7, <1>8, <1>9, <1>10, <1>11,
       <1>12, <1>13
    DEF Next, HandlerStep, WorkerStep, Ending, Terminated
-----------------------------------------------------------------------------
\* Every step keeps the latch, and leaves no hole in the session.
LEMMA LatchStep ==
  ASSUME TypeOK, Lifecycle, Latched, NothingAfterFailure, [Next]_vars
  PROVE  Latched' /\ NothingAfterFailure'
  <1>0. Len(outcomes) \in Nat
    BY DEF TypeOK
  <1>1. CASE Ending
    <2> PICK res \in Result : FinishStep(res)
      BY <1>1, EndingFinishes
    <2> PICK reply : Finish(res, reply)
      BY DEF FinishStep
    <2>0. Busy
      BY DEF FinishStep
    <2>1. /\ Len(outcomes') = Len(outcomes) + 1
          /\ \A i \in 1..Len(outcomes) : outcomes'[i] = outcomes[i]
          /\ outcomes'[Len(outcomes) + 1].res = res
          /\ worker' \in {"select", "drain"}
          /\ closeCh' = closeCh
      BY <2>0, FinishOutcomes
    <2>2. /\ res \in Unsent => closeCh \/ dead
          /\ res \in Failed => dead'
          /\ dead => dead' /\ res \in Unsent
      BY DEF FinishStep, Alive, markDead, Unsent, Failed, Lifecycle
    <2>3. Latched'
      BY <1>0, <2>1, <2>2 DEF Latched
    <2>4. NothingAfterFailure'
      BY <1>0, <2>1, <2>2 DEF Latched, NothingAfterFailure
    <2> QED
      BY <2>3, <2>4
  <1>2. ASSUME outcomes' = outcomes, dead' = dead, closeCh => closeCh',
               worker' \in {"write", "read"} =>
                 worker \in {"write", "read"} \/ ~(closeCh \/ dead)
        PROVE  Latched' /\ NothingAfterFailure'
    BY <1>2 DEF Latched, NothingAfterFailure
  <1>3. CASE InitializeFails \/ Initialize \/ SendCheck
    BY <1>2, <1>3 DEF InitializeFails, Initialize, SendCheck, chans
  <1>4. CASE SendEnqueue
    BY <1>2, <1>4 DEF SendEnqueue, Enqueue, Handoff, Overflow, chans
  <1>5. CASE CloseSignal \/ CloseDrained \/ CloseTimeout \/ CloseJoin
    BY <1>2, <1>5
    DEF CloseSignal, CloseDrained, CloseTimeout, CloseJoin, chans
  <1>6. CASE WorkerForced \/ WorkerDrain \/ WorkerTake \/ DrainEmpty
    BY <1>2, <1>6 DEF WorkerForced, WorkerDrain, WorkerTake, DrainEmpty, chans
  <1>7. CASE CheckPassed
    BY <1>2, <1>7 DEF CheckPassed, DeadLoaded, chans
  <1>8. CASE WriteExpecting \/ ReadMore \/ SignalDone \/ WgDone
    BY <1>2, <1>8 DEF WriteExpecting, ReadMore, SignalDone, WgDone, chans
  <1>9. CASE ServerStep \/ Terminated \/ UNCHANGED vars
    BY <1>2, <1>9
    DEF ServerStep, ShadowReply, ShadowDown, Terminated, vars, chans
  <1> QED
    BY <1>1, <1>3, <1>4, <1>5, <1>6, <1>7, <1>8, <1>9
    DEF Next, HandlerStep, WorkerStep, Ending
-----------------------------------------------------------------------------
\* No ReadyForQuery is on its way.
NoneReady ==
  /\ \A i \in 1..Len(inbox) : ~inbox[i].z
  /\ \A i \in 1..Len(pending) : ~pending[i].z

\* A finished frame that was credited with its own reply, or with none,
\* extends RepliesMatchUntilCall; it must leave no ReadyForQuery behind, or a
\* dead connection.
LEMMA FinishReplies ==
  ASSUME TypeOK, Lifecycle, RepliesMatchUntilCall, Busy,
         NEW res, NEW reply, Finish(res, reply),
         NoCall /\ res = "ok" /\ expectsResponse(current[1]) =>
           reply = current[1].id,
         NoCall /\ dead' = FALSE => NoneReady'
  PROVE  ReadyInStep' /\ RepliesMatchUntilCall'
  <1>1. /\ Len(outcomes) \in Nat /\ Len(outcomes') = Len(outcomes) + 1
        /\ \A i \in 1..Len(outcomes) : outcomes'[i] = outcomes[i]
        /\ outcomes'[Len(outcomes) + 1].req = current[1]
        /\ outcomes'[Len(outcomes) + 1].res = res
        /\ outcomes'[Len(outcomes) + 1].reply = reply
        /\ Len(current) = 1
    BY FinishOutcomes
  <1>2. (\A i \in 1..Len(outcomes') : outcomes'[i].req.kind # "call") => NoCall
    BY <1>1 DEF NoCall
  <1>3. ReadyInStep'
    BY <1>2 DEF ReadyInStep, NoCall, NoneReady
  <1>4. RepliesMatchUntilCall'
    <2> SUFFICES ASSUME NEW i \in 1..Len(outcomes'),
                        \A j \in 1..i : outcomes'[j].req.kind # "call"
                 PROVE  RightReply(outcomes'[i])
      BY DEF RepliesMatchUntilCall, RightReply, expectsResponse
    <2>1. CASE i \in 1..Len(outcomes)
      <3>1. \A j \in 1..i : outcomes[j].req.kind # "call"
        BY <1>1, <2>1
      <3>2. RightReply(outcomes[i])
        BY <2>1, <3>1 DEF RepliesMatchUntilCall
      <3> QED
        BY <1>1, <2>1, <3>2
    <2>2. CASE i = Len(outcomes) + 1
      BY <1>1, <1>2, <2>2 DEF RightReply
    <2> QED
      BY <1>1, <2>1, <2>2
  <1> QED
    BY <1>3, <1>4

\* What a delivery adds to the messages the server owes.
LEMMA DeliverAdds ==
  ASSUME TypeOK, Lifecycle, Busy, Deliver(current[1]),
         \A i \in 1..Len(pending) : ~pending[i].z
  PROVE  /\ \A i \in 1..Len(pending') : pending'[i].z =>
              pending'[i].id = current[1].id /\ i = Len(pending')
         /\ current[1].kind = "plain" =>
              \A i \in 1..Len(pending') : ~pending'[i].z
  <1> DEFINE f == current[1]
             data == [id |-> f.id, z |-> FALSE]
             ready == [id |-> f.id, z |-> TRUE]
  <1>1. pending \in Seq(Message) /\ f.id \in 1..MaxFrames
    BY CurrentIsFrame DEF TypeOK, Frame
  <1>2. /\ data \in Message /\ ready \in Message
        /\ data.z = FALSE /\ ready.z = TRUE /\ ready.id = f.id
    BY <1>1 DEF Message
  <1>3. CASE peer # "up"
    BY <1>3 DEF Deliver
  <1>4. CASE peer = "up"
    <2> PICK m \in Responses(f) : pending' = pending \o m
      BY <1>4 DEF Deliver
    <2>1. /\ m \in {<<>>, <<data>>, <<ready>>, <<data, ready>>}
          /\ f.kind = "plain" => m \in {<<>>, <<data>>}
      BY DEF Responses
    <2> HIDE DEF data, ready, f
    <2>2. CASE m = <<>>
      BY <1>1, <2>2
    <2>3. CASE m = <<data>>
      <3>1. pending' = Append(pending, data)
        BY <1>1, <1>2, <2>3
      <3> QED
        BY <1>1, <1>2, <3>1
    <2>4. CASE m = <<ready>>
      <3>1. /\ pending' = Append(pending, ready)
            /\ f.kind # "plain"
        BY <1>1, <1>2, <2>1, <2>4
      <3> QED
        BY <1>1, <1>2, <3>1 DEF f
    <2>5. CASE m = <<data, ready>>
      <3>1. /\ pending' = Append(Append(pending, data), ready)
            /\ f.kind # "plain"
        BY <1>1, <1>2, <2>1, <2>5
      <3> QED
        BY <1>1, <1>2, <3>1 DEF f
    <2> QED
      BY <2>1, <2>2, <2>3, <2>4, <2>5
  <1> QED
    BY <1>3, <1>4

\* Every step keeps each ReadyForQuery with the frame that waits for it, until
\* a FunctionCall.
LEMMA ReadyStep ==
  ASSUME TypeOK, Lifecycle, ReadyInStep, RepliesMatchUntilCall, [Next]_vars
  PROVE  ReadyInStep' /\ RepliesMatchUntilCall'
  <1>0. /\ worker \in WorkerPc /\ dead \in BOOLEAN
        /\ pending \in Seq(Message) /\ inbox \in Seq(Message)
    BY DEF TypeOK
  <1>1. NoCall /\ dead = FALSE /\ worker # "read" => NoneReady
    BY DEF ReadyInStep, NoneReady
  <1>2. ASSUME UNCHANGED <<outcomes, pending, inbox, worker, current, dead>>
        PROVE  ReadyInStep' /\ RepliesMatchUntilCall'
    BY <1>2 DEF ReadyInStep, NoCall, RepliesMatchUntilCall, RightReply,
                expectsResponse
  <1>3. ASSUME UNCHANGED <<outcomes, pending, inbox, dead>>,
               worker # "read", worker' # "read",
               current' = current \/ Len(current) = 0
        PROVE  ReadyInStep' /\ RepliesMatchUntilCall'
    <2>1. NoCall' => NoCall
      BY <1>3 DEF NoCall
    <2>2. ReadyInStep'
      BY <1>1, <1>3, <2>1 DEF ReadyInStep, NoneReady
    <2> QED
      BY <1>3, <2>2 DEF RepliesMatchUntilCall, RightReply, expectsResponse
  <1>4. CASE CheckForced \/ CheckDead
    <2>1. /\ worker = "check" /\ UNCHANGED <<pending, inbox, dead>>
          /\ Finish("skipped", 0) \/ Finish("dropped", 0)
      BY <1>4 DEF CheckForced, CheckDead, Alive
    <2>2. NoCall /\ dead' = FALSE => NoneReady'
      BY <1>1, <2>1 DEF NoneReady
    <2> QED
      BY <2>1, <2>2, FinishReplies DEF Busy
  <1>5. CASE WriteOnly
    <2>1. /\ worker = "write" /\ inbox' = inbox /\ dead' = dead
          /\ current[1].kind # "ready" /\ Deliver(current[1])
          /\ Finish("ok", 0)
      BY <1>5 DEF WriteOnly, Alive, expectsResponse
    <2>2. current[1] \in Frame /\ Len(current) = 1
      BY <2>1, CurrentIsFrame DEF Lifecycle, Busy
    <2>3. NoCall => current[1].kind = "plain"
      BY <2>1, <2>2 DEF NoCall, Frame, Kind
    <2>4. NoCall /\ dead' = FALSE => NoneReady'
      BY <1>1, <2>1, <2>3, DeliverAdds DEF NoneReady, Busy
    <2> QED
      BY <2>1, <2>4, FinishReplies DEF expectsResponse, Busy
  <1>6. CASE WriteError \/ ReadTimeout \/ ReadError
    <2>1. /\ Busy /\ dead'
          /\ \E res \in Failed : Finish(res, 0)
      BY <1>6 DEF WriteError, ReadTimeout, ReadError, markDead, Busy, Failed
    <2> PICK res \in Failed : Finish(res, 0)
      BY <2>1
    <2> QED
      BY <2>1, FinishReplies DEF Failed
  <1>7. CASE ReadReady
    <2>1. /\ worker = "read" /\ inbox # <<>> /\ inbox' = Tail(inbox)
          /\ pending' = pending /\ dead' = dead
          /\ Head(inbox).z /\ Finish("ok", Head(inbox).id)
      BY <1>7 DEF ReadReady, IsReady, Alive
    <2>2. Head(inbox) = inbox[1] /\ Len(inbox) \in Nat /\ Len(inbox) >= 1
      BY <1>0, <2>1
    <2>3. dead = FALSE
      BY <2>1 DEF Lifecycle
    <2>4. NoCall => /\ inbox[1].id = current[1].id
                    /\ Len(inbox) = 1 /\ pending = <<>>
      <3> SUFFICES ASSUME NoCall
                   PROVE  /\ inbox[1].id = current[1].id
                          /\ 1 = Len(inbox) /\ pending = <<>>
        OBVIOUS
      <3>1. inbox[1].z /\ 1 \in 1..Len(inbox)
        BY <2>1, <2>2
      <3> QED
        BY <2>3, <3>1, Zenon DEF ReadyInStep
    <2>5. Len(inbox) = 1 => Len(inbox') = 0
      BY <1>0, <2>1, <2>2
    <2>6. NoCall => NoneReady'
      <3>1. NoCall => Len(inbox') = 0 /\ Len(pending') = 0
        BY <2>1, <2>4, <2>5
      <3> QED
        BY <3>1 DEF NoneReady
    <2> QED
      BY <2>1, <2>2, <2>4, <2>6, FinishReplies DEF Busy
  <1>8. CASE ReadMore
    <2>1. /\ inbox # <<>> /\ inbox' = Tail(inbox)
          /\ UNCHANGED <<outcomes, pending, worker, current, dead>>
      BY <1>8 DEF ReadMore
    <2>2. /\ Len(inbox') = Len(inbox) - 1 /\ Len(inbox) \in Nat
          /\ Len(inbox) >= 1
          /\ \A i \in 1..Len(inbox') : inbox'[i] = inbox[i + 1]
      BY <1>0, <2>1
    <2>3. ASSUME NoCall, dead = FALSE, NEW i \in 1..Len(inbox'), inbox'[i].z
          PROVE  /\ worker = "read" /\ inbox'[i].id = current[1].id
                 /\ i = Len(inbox') /\ pending = <<>>
      <3>1. i + 1 \in 1..Len(inbox) /\ inbox[i + 1].z
        BY <2>2, <2>3
      <3>2. /\ worker = "read" /\ inbox[i + 1].id = current[1].id
            /\ i + 1 = Len(inbox) /\ pending = <<>>
        BY <2>3, <3>1, Zenon DEF ReadyInStep
      <3> QED
        BY <2>2, <3>2
    <2>4. NoCall' /\ dead' = FALSE => NoCall /\ dead = FALSE
      BY <2>1 DEF NoCall
    <2>5. ReadyInStep'
      BY <2>1, <2>3, <2>4 DEF ReadyInStep
    <2> QED
      BY <2>1, <2>5 DEF RepliesMatchUntilCall, RightReply, expectsResponse
  <1>9. CASE WriteExpecting
    <2>1. /\ worker = "write" /\ worker' = "read" /\ Deliver(current[1])
          /\ UNCHANGED <<outcomes, inbox, current, dead>>
      BY <1>9 DEF WriteExpecting
    <2>2. ReadyInStep'
      BY <1>1, <2>1, DeliverAdds DEF ReadyInStep, NoneReady, NoCall, Busy
    <2> QED
      BY <2>1, <2>2 DEF RepliesMatchUntilCall, RightReply, expectsResponse
  <1>10. CASE ShadowReply
    <2> DEFINE h == Head(pending)
    <2>1. /\ pending # <<>> /\ inbox' = Append(inbox, h)
          /\ pending' = Tail(pending)
          /\ UNCHANGED <<outcomes, worker, current, dead>>
      BY <1>10 DEF ShadowReply
    <2>2. /\ h = pending[1] /\ h \in Message
          /\ Len(pending) \in Nat /\ Len(pending) >= 1
          /\ Len(pending') = Len(pending) - 1
          /\ pending' \in Seq(Message)
          /\ \A i \in 1..Len(pending') : pending'[i] = pending[i + 1]
      BY <1>0, <2>1
    <2> HIDE DEF h
    <2>3. /\ Len(inbox) \in Nat /\ Len(inbox') = Len(inbox) + 1
          /\ \A i \in 1..Len(inbox) : inbox'[i] = inbox[i]
          /\ inbox'[Len(inbox) + 1] = h
      BY <1>0, <2>1, <2>2
    <2>4. ASSUME NoCall', dead' = FALSE PROVE NoCall /\ dead = FALSE
      BY <2>1, <2>4 DEF NoCall
    <2>5. ASSUME NoCall, dead = FALSE, NEW i \in 1..Len(inbox'), inbox'[i].z
          PROVE  /\ worker = "read" /\ inbox'[i].id = current[1].id
                 /\ i = Len(inbox') /\ pending' = <<>>
      <3>1. i = Len(inbox) + 1
        <4>1. ASSUME i \in 1..Len(inbox) PROVE FALSE
          <5>1. inbox[i].z
            BY <2>3, <2>5, <4>1
          <5> QED
            BY <2>1, <2>5, <4>1, <5>1, Zenon DEF ReadyInStep
        <4> QED
          BY <2>3, <4>1
      <3>2. /\ worker = "read" /\ pending[1].id = current[1].id
            /\ Len(pending) = 1
        BY <2>2, <2>3, <2>5, <3>1 DEF ReadyInStep
      <3>3. pending' = <<>>
        BY <2>2, <3>2
      <3> QED
        BY <2>2, <2>3, <3>1, <3>2, <3>3
    <2>6. ASSUME NoCall, dead = FALSE, NEW i \in 1..Len(pending'),
                 pending'[i].z
          PROVE  /\ worker = "read" /\ pending'[i].id = current[1].id
                 /\ i = Len(pending')
      BY <2>2, <2>6, SMTT(30) DEF ReadyInStep
    <2>7. ReadyInStep'
      BY <2>1, <2>4, <2>5, <2>6 DEF ReadyInStep
    <2> QED
      BY <2>1, <2>7 DEF RepliesMatchUntilCall, RightReply, expectsResponse
  <1>11. CASE ShadowDown
    <2>1. pending' = <<>> /\ UNCHANGED <<outcomes, worker, current, dead, inbox>>
      BY <1>11 DEF ShadowDown
    <2> QED
      BY <2>1 DEF ReadyInStep, NoCall, RepliesMatchUntilCall, RightReply,
                  expectsResponse
  <1>12. CASE InitializeFails \/ SendCheck
    BY <1>2, <1>12 DEF InitializeFails, SendCheck, server
  <1>13. CASE Initialize
    BY <1>3, <1>13 DEF Initialize, Lifecycle, server
  <1>14. CASE SendEnqueue
    <2>1. UNCHANGED <<outcomes, pending, inbox, dead>>
      BY <1>14 DEF SendEnqueue, server
    <2>2. CASE UNCHANGED <<worker, current>>
      BY <1>2, <2>1, <2>2
    <2>3. CASE worker = "select" /\ worker' = "check"
      BY <1>3, <2>1, <2>3 DEF Lifecycle, Busy
    <2> QED
      BY <1>14, <2>2, <2>3 DEF SendEnqueue, Enqueue, Handoff, Overflow
  <1>15. CASE CloseSignal \/ CloseDrained \/ CloseTimeout \/ CloseJoin
    BY <1>2, <1>15
    DEF CloseSignal, CloseDrained, CloseTimeout, CloseJoin, server
  <1>16. CASE WorkerForced \/ WorkerDrain \/ WorkerTake \/ DrainEmpty
    BY <1>3, <1>16 DEF WorkerForced, WorkerDrain, WorkerTake, DrainEmpty,
       Lifecycle, Busy, server
  <1>17. CASE CheckPassed \/ SignalDone \/ WgDone
    BY <1>3, <1>17 DEF CheckPassed, SignalDone, WgDone, server
  <1>18. CASE Terminated \/ UNCHANGED vars
    BY <1>2, <1>18 DEF Terminated, vars, server
  <1> QED
    BY <1>4, <1>5, <1>6, <1>7, <1>8, <1>9, <1>10, <1>11, <1>12, <1>13,
       <1>14, <1>15, <1>16, <1>17, <1>18
    DEF Next, HandlerStep, WorkerStep, ServerStep
-----------------------------------------------------------------------------
\* The inductive invariant holds in every reachable state.
THEOREM Invariance == Spec => []IInv
  <1>1. IInv /\ [Next]_vars => IInv'
    BY TypeStep, LifecycleStep, FifoStep, LatchStep, ReadyStep DEF IInv
  <1> QED
    BY InitIInv, <1>1, PTL DEF Spec

\* Send, worker and processFrame keep all state within its types, and the
\* queue within the capacity of its channel.
THEOREM TypeCorrect == Spec => []TypeOK
  <1>1. IInv => TypeOK
    BY DEF IInv
  <1> QED
    BY Invariance, <1>1, PTL

\* The worker never uses a connection that markDead or Close has closed.
THEOREM NoUseAfterClose == Spec => []ConnOpenWhileUsed
  <1>1. IInv => ConnOpenWhileUsed
    BY DEF IInv, Lifecycle, ConnOpenWhileUsed
  <1> QED
    BY Invariance, <1>1, PTL

\* The queue neither loses, duplicates nor reorders an accepted frame.
THEOREM Fifo == Spec => []FifoOnce
  <1>1. IInv => FifoOnce
    BY DEF IInv
  <1> QED
    BY Invariance, <1>1, PTL

\* After the first failed frame processFrame attempts none.
THEOREM FailureLatches == Spec => []NothingAfterFailure
  <1>1. IInv => NothingAfterFailure
    BY DEF IInv
  <1> QED
    BY Invariance, <1>1, PTL

\* Until a FunctionCall is mirrored every frame is credited with its own
\* reply, read timeouts included.
THEOREM RepliesCorrect == Spec => []RepliesMatchUntilCall
  <1>1. IInv => RepliesMatchUntilCall
    BY DEF IInv
  <1> QED
    BY Invariance, <1>1, PTL
-----------------------------------------------------------------------------
Skipped == {i \in 1..Len(outcomes) : outcomes[i].res \in Unsent}

Phase == IF handler = "returned" THEN "closed"
         ELSE IF closeCh THEN "forced"
         ELSE IF drainCh THEN "draining" ELSE "open"

\* Returning from processFrame is an Attempt or a Skip of ShadowMirror.
LEMMA FinishRefines ==
  ASSUME IInv, NEW res \in Result, FinishStep(res),
         UNCHANGED <<handler, drainCh>>
  PROVE  Mirror!Attempt \/ Mirror!Skip
  <1> PICK reply : Finish(res, reply)
    BY DEF FinishStep
  <1> DEFINE n == Len(outcomes)
  <1>0. TypeOK /\ Lifecycle /\ FifoOnce /\ Latched /\ Busy
    BY DEF IInv, FinishStep
  <1>1. /\ n \in Nat /\ Len(outcomes') = n + 1
        /\ \A i \in 1..n : outcomes'[i] = outcomes[i]
        /\ outcomes'[n + 1].res = res
        /\ Len(current) = 1
        /\ UNCHANGED <<accepted, closeCh>>
    BY <1>0, FinishOutcomes
  <1>2. n < Len(accepted)
    <2>1. Len(queue) \in Nat /\ Len(accepted) = n + 1 + Len(queue)
      BY <1>0, <1>1 DEF TypeOK, FifoOnce
    <2> QED
      BY <1>1, <2>1
  <1>3. Phase' = Phase /\ Phase # "closed"
    BY <1>0, <1>1 DEF Phase, Lifecycle, Busy
  <1>4. CASE res \in Unsent
    <2>1. (Phase = "forced" \/ dead) /\ dead' = dead
      BY <1>0, <1>4
      DEF FinishStep, Alive, Unsent, Failed, Phase, Lifecycle, Busy
    <2>2. Skipped' = Skipped \cup {n + 1}
      BY <1>1, <1>4 DEF Skipped
    <2> QED
      BY <1>1, <1>2, <1>3, <2>1, <2>2 DEF Mirror!Skip, Phase, Skipped
  <1>5. CASE res \notin Unsent
    <2>1. Skipped' = Skipped
      BY <1>1, <1>5 DEF Skipped
    <2>2. worker \in {"write", "read"}
      BY <1>5 DEF FinishStep, Unsent
    <2>3. Skipped = {}
      BY <1>0, <2>2 DEF Latched, Skipped
    <2>4. dead' \in {dead, TRUE}
      BY DEF FinishStep, Alive, markDead
    <2> QED
      BY <1>1, <1>2, <1>3, <2>1, <2>3, <2>4 DEF Mirror!Attempt, Phase, Skipped
  <1> QED
    BY <1>4, <1>5

\* Every step of the worker is a step of ShadowMirror or changes nothing it
\* can see.
LEMMA StepRefines ==
  ASSUME IInv, [Next]_vars
  PROVE  [Mirror!Next]_(Mirror!vars)
  <1>0. TypeOK /\ Lifecycle /\ FifoOnce
    BY DEF IInv
  <1>1. ASSUME UNCHANGED <<accepted, outcomes, drainCh, closeCh, dead>>,
               handler' = "returned" <=> handler = "returned"
        PROVE  UNCHANGED Mirror!vars
    BY <1>1 DEF Mirror!vars
  <1>2. CASE InitializeFails \/ Initialize \/ SendCheck
    BY <1>1, <1>2 DEF InitializeFails, Initialize, SendCheck, chans
  <1>3. CASE SendEnqueue
    <2> DEFINE f == sending[1]
    <2>1. f \in Frame
      BY <1>0, <1>3, SendingIsFrame DEF SendEnqueue
    <2>2. /\ UNCHANGED <<outcomes, drainCh, closeCh, dead>>
          /\ handler = "sending" /\ handler' = "serving" /\ ~drainCh /\ ~closeCh
      BY <1>0, <1>3 DEF SendEnqueue, Lifecycle, chans
    <2> HIDE DEF f
    <2>3. CASE accepted' = Append(accepted, f)
      <3>1. Mirror!Accept(f)
        BY <2>2, <2>3 DEF Mirror!Accept
      <3> QED
        BY <2>1, <3>1 DEF Mirror!Next
    <2>4. CASE accepted' = accepted
      BY <1>1, <2>2, <2>4
    <2> QED
      BY <1>3, <2>3, <2>4 DEF f, SendEnqueue, Enqueue, Handoff, Overflow
  <1>4. CASE CloseSignal
    <2>1. Mirror!Drain
      BY <1>0, <1>4 DEF CloseSignal, Lifecycle, Mirror!Drain
    <2> QED
      BY <2>1 DEF Mirror!Next
  <1>5. CASE CloseDrained
    BY <1>1, <1>5 DEF CloseDrained, chans
  <1>6. CASE CloseTimeout
    <2>1. Mirror!Force
      BY <1>0, <1>6 DEF CloseTimeout, Lifecycle, Mirror!Force
    <2> QED
      BY <2>1 DEF Mirror!Next
  <1>7. CASE CloseJoin
    <2>1. /\ handler = "joining" /\ handler' = "returned" /\ Gone /\ drainCh
          /\ UNCHANGED <<accepted, outcomes, drainCh, closeCh, dead>>
      BY <1>0, <1>7 DEF CloseJoin, Joined, Lifecycle, Gone, chans
    <2>2. ~closeCh => Len(outcomes) = Len(accepted)
      <3>1. ~closeCh => Len(queue) = 0 /\ Len(current) = 0
        BY <1>0, <2>1 DEF Lifecycle, Gone, Busy
      <3>2. Len(outcomes) \in Nat
        BY <1>0 DEF TypeOK
      <3> QED
        BY <1>0, <3>1, <3>2 DEF FifoOnce
    <2>3. Mirror!Close
      BY <2>1, <2>2 DEF Mirror!Close
    <2> QED
      BY <2>3 DEF Mirror!Next
  <1>8. CASE WorkerForced \/ WorkerDrain \/ WorkerTake \/ DrainEmpty
             \/ CheckPassed \/ WriteExpecting \/ ReadMore
             \/ SignalDone \/ WgDone
    BY <1>1, <1>8 DEF WorkerForced, WorkerDrain, WorkerTake, DrainEmpty,
       CheckPassed, WriteExpecting, ReadMore, SignalDone, WgDone, chans
  <1>9. CASE ServerStep \/ Terminated \/ UNCHANGED vars
    BY <1>1, <1>9
    DEF ServerStep, ShadowReply, ShadowDown, Terminated, vars, chans
  <1>10. CASE Ending
    <2>1. \E res \in Result : FinishStep(res)
      BY <1>10, EndingFinishes
    <2>2. UNCHANGED <<handler, drainCh>>
      BY <2>1 DEF FinishStep, Finish, chans
    <2> QED
      BY <2>1, <2>2, FinishRefines DEF Mirror!Next
  <1> QED
    BY <1>2, <1>3, <1>4, <1>5, <1>6, <1>7, <1>8, <1>9, <1>10
    DEF Next, HandlerStep, WorkerStep, Ending

\* The pgwire worker implements ShadowMirror: one attempt per accepted frame,
\* in order, none after the first it left out, and frames are left out only
\* after a failure or a forced close.
THEOREM Refinement == Spec => ImplementsMirror
  <1>1. Init => Mirror!Init
    BY DEF Init, Mirror!Init
  <1>2. IInv /\ [Next]_vars => [Mirror!Next]_(Mirror!vars)
    BY StepRefines
  <1> QED
    BY <1>1, <1>2, Invariance, PTL DEF Spec, ImplementsMirror, Mirror!Spec
=============================================================================
