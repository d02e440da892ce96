------------------------- MODULE QueryLoggerProofs --------------------------
(***************************************************************************)
(* Safety of the query logger for every buffer size, batch size and number *)
(* of entries; and of the process that runs it.                            *)
(***************************************************************************)
EXTENDS QueryLogger, Process, SequenceTheorems, TLAPS

USE LoggerAssumption

\* Moving the head of the channel to the end of the batch keeps LoggedOnce.
LEMMA ReceiveOnce ==
  ASSUME TypeOK, LoggedOnce, entries # <<>>,
         batch' = Append(batch, Head(entries)), entries' = Tail(entries),
         UNCHANGED <<queued, disposed>>
  PROVE  /\ LoggedOnce'
         /\ batch' \in Seq(Entry) /\ Len(batch') = Len(batch) + 1
         /\ entries' \in Seq(Entry) /\ Len(entries') = Len(entries) - 1
         /\ Len(entries) \in Nat /\ Len(batch) \in Nat
  <1>0. /\ entries \in Seq(Entry) /\ batch \in Seq(Entry)
        /\ queued \in Seq(Entry) /\ disposed \in Seq(Written)
    BY DEF TypeOK
  <1>1. /\ Head(entries) \in Entry /\ Head(entries) = entries[1]
        /\ entries' \in Seq(Entry) /\ Len(entries') = Len(entries) - 1
        /\ \A i \in 1..Len(entries') : entries'[i] = entries[i + 1]
        /\ Len(entries) \in Nat \ {0}
    BY <1>0, HeadTailProperties
  <1>2. /\ batch' \in Seq(Entry) /\ Len(batch') = Len(batch) + 1
        /\ \A i \in 1..Len(batch) : batch'[i] = batch[i]
        /\ batch'[Len(batch) + 1] = entries[1]
        /\ Len(batch) \in Nat
    BY <1>0, <1>1, AppendProperties
  <1> DEFINE n == Len(disposed)
  <1>3. n \in Nat /\ n' = n /\ queued' = queued /\ disposed' = disposed
    BY <1>0
  <1>4. /\ Len(queued) = n + Len(batch) + Len(entries)
        /\ \A i \in 1..n : disposed[i].id = queued[i]
        /\ \A i \in 1..Len(batch) : batch[i] = queued[n + i]
        /\ \A i \in 1..Len(entries) : entries[i] = queued[n + Len(batch) + i]
    BY DEF LoggedOnce
  <1> HIDE DEF n
  <1>5. /\ Len(queued) = n + Len(batch') + Len(entries')
        /\ \A i \in 1..Len(batch') : batch'[i] = queued[n + i]
    <2>1. Len(queued) = n + Len(batch') + Len(entries')
      BY <1>1, <1>2, <1>3, <1>4
    <2>2. entries[1] = queued[n + Len(batch) + 1]
      BY <1>1, <1>4
    <2>3. n + Len(batch) + 1 = n + (Len(batch) + 1)
      BY <1>2, <1>3
    <2>4. batch'[Len(batch) + 1] = queued[n + (Len(batch) + 1)]
      BY <1>2, <2>2, <2>3
    <2>5. \A i \in 1..Len(batch') : i \in 1..Len(batch) \/ i = Len(batch) + 1
      BY <1>2
    <2> QED
      BY <1>2, <1>4, <2>1, <2>4, <2>5
  <1>6. \A i \in 1..Len(entries') :
          entries'[i] = queued[n + Len(batch') + i]
    <2> SUFFICES ASSUME NEW i \in 1..Len(entries')
                 PROVE  entries'[i] = queued[n + Len(batch') + i]
      OBVIOUS
    <2>1. i + 1 \in 1..Len(entries) /\ entries'[i] = entries[i + 1]
      BY <1>1
    <2>2. n + Len(batch) + (i + 1) = n + Len(batch') + i
      BY <1>1, <1>2, <1>3
    <2> QED
      BY <1>4, <2>1, <2>2
  <1>7. LoggedOnce'
    BY <1>3, <1>4, <1>5, <1>6 DEF LoggedOnce, n
  <1> QED
    BY <1>1, <1>2, <1>7

\* A flush moves the whole batch to the end of what is written.
LEMMA FlushOnce ==
  ASSUME TypeOK, LoggedOnce, NEW place \in Place, Flush(place)
  PROVE  /\ LoggedOnce'
         /\ disposed' \in Seq(Written)
         /\ Len(disposed') = Len(disposed) + Len(batch)
         /\ batch' = <<>>
  <1> DEFINE w == [i \in 1..Len(batch) |-> [id |-> batch[i], place |-> place]]
  <1>0. /\ entries \in Seq(Entry) /\ batch \in Seq(Entry)
        /\ queued \in Seq(Entry) /\ disposed \in Seq(Written)
        /\ Len(batch) \in Nat /\ Len(disposed) \in Nat
        /\ Len(entries) \in Nat
    BY DEF TypeOK
  <1>1. /\ w \in Seq(Written) /\ Len(w) = Len(batch)
        /\ \A i \in 1..Len(batch) : w[i].id = batch[i]
    <2>1. \A i \in 1..Len(batch) :
            [id |-> batch[i], place |-> place] \in Written
      BY <1>0 DEF Written
    <2>2. w \in [1..Len(batch) -> Written]
      BY <2>1
    <2>3. \A i \in 1..Len(batch) : w[i].id = batch[i]
      OBVIOUS
    <2> HIDE DEF w
    <2>4. w \in Seq(Written)
      BY <1>0, <2>2, SeqDef
    <2>5. Len(w) = Len(batch)
      BY <1>0, <2>2, <2>4, LenProperties
    <2> QED
      BY <2>3, <2>4, <2>5
  <1>2. /\ disposed' = disposed \o w /\ batch' = <<>>
        /\ UNCHANGED <<entries, queued>>
    BY DEF Flush, ResetBatch
  <1> HIDE DEF w
  <1>3. /\ disposed' \in Seq(Written)
        /\ Len(disposed') = Len(disposed) + Len(batch)
        /\ \A i \in 1..Len(disposed) + Len(batch) : disposed'[i] =
             IF i <= Len(disposed) THEN disposed[i] ELSE w[i - Len(disposed)]
    <2>1. /\ disposed \o w \in Seq(Written)
          /\ Len(disposed \o w) = Len(disposed) + Len(w)
          /\ \A i \in 1..Len(disposed) + Len(w) : (disposed \o w)[i] =
               IF i <= Len(disposed) THEN disposed[i]
                                     ELSE w[i - Len(disposed)]
      BY <1>0, <1>1, ConcatProperties
    <2> QED
      BY <1>1, <1>2, <2>1
  <1>4. /\ Len(queued) = Len(disposed) + Len(batch) + Len(entries)
        /\ \A i \in 1..Len(disposed) : disposed[i].id = queued[i]
        /\ \A i \in 1..Len(batch) : batch[i] = queued[Len(disposed) + i]
        /\ \A i \in 1..Len(entries) :
             entries[i] = queued[Len(disposed) + Len(batch) + i]
    BY DEF LoggedOnce
  <1>5. \A i \in 1..Len(disposed') : disposed'[i].id = queued[i]
    <2> SUFFICES ASSUME NEW i \in 1..Len(disposed')
                 PROVE  disposed'[i].id = queued[i]
      OBVIOUS
    <2>0. i \in 1..Len(disposed) + Len(batch)
      BY <1>3
    <2>1. CASE i <= Len(disposed)
      <3>1. i \in 1..Len(disposed) /\ disposed'[i] = disposed[i]
        BY <1>0, <1>3, <2>0, <2>1
      <3> QED
        BY <1>4, <3>1
    <2>2. CASE i > Len(disposed)
      <3> DEFINE j == i - Len(disposed)
      <3>1. j \in 1..Len(batch) /\ Len(disposed) + j = i
        BY <1>0, <1>3, <2>2
      <3>2. disposed'[i] = w[j]
        BY <1>0, <1>3, <2>2
      <3> HIDE DEF j
      <3>3. w[j].id = batch[j] /\ batch[j] = queued[Len(disposed) + j]
        BY <1>1, <1>4, <3>1
      <3> QED
        BY <3>1, <3>2, <3>3
    <2> QED
      BY <1>0, <1>3, <2>1, <2>2
  <1>6. Len(batch') = 0
    BY <1>2
  <1>7. /\ Len(queued') = Len(disposed') + Len(batch') + Len(entries')
        /\ \A i \in 1..Len(entries') :
             entries'[i] = queued'[Len(disposed') + Len(batch') + i]
    <2>1. Len(disposed') + Len(batch') = Len(disposed) + Len(batch)
      BY <1>0, <1>3, <1>6
    <2> QED
      BY <1>2, <1>4, <2>1
  <1>8. LoggedOnce'
    <2>1. \A i \in 1..Len(batch') : batch'[i] = queued'[Len(disposed') + i]
      BY <1>6
    <2>2. \A i \in 1..Len(disposed') : disposed'[i].id = queued'[i]
      BY <1>2, <1>5
    <2> QED
      BY <1>7, <2>1, <2>2 DEF LoggedOnce
  <1> QED
    BY <1>2, <1>3, <1>8

\* The logger starts with everything empty.
LEMMA InitIInv == Init => IInv
  <1> SUFFICES ASSUME Init PROVE IInv
    OBVIOUS
  <1>1. /\ entries \in Seq(Entry) /\ batch \in Seq(Entry)
        /\ queued \in Seq(Entry) /\ disposed \in Seq(Written)
        /\ Len(entries) = 0 /\ Len(batch) = 0
        /\ Len(queued) = 0 /\ Len(disposed) = 0
    BY DEF Init
  <1>2. TypeOK
    <2>1. next \in 1..MaxEntries+1
      BY DEF Init
    <2>2. Len(entries) <= BufferSize /\ Len(batch) <= BatchSize
      BY <1>1
    <2>3. atClose \in 0..Len(queued)
      BY <1>1 DEF Init
    <2>4. main = "running" /\ loop = "select" /\ cancelled = FALSE
      BY DEF Init
    <2> QED
      BY <1>1, <2>1, <2>2, <2>3, <2>4 DEF TypeOK, LoopPc
  <1>3. LoggedOnce
    BY <1>1 DEF LoggedOnce
  <1>4. ShutdownInv
    BY <1>1 DEF Init, ShutdownInv
  <1> QED
    BY <1>2, <1>3, <1>4 DEF IInv

\* Log keeps the invariant: a queued entry is the newest in the channel and in
\* the history, a dropped one changes neither.
LEMMA LogStep ==
  ASSUME IInv, Log
  PROVE  IInv'
  <1>0. /\ TypeOK /\ LoggedOnce /\ ShutdownInv
        /\ entries \in Seq(Entry) /\ batch \in Seq(Entry)
        /\ queued \in Seq(Entry) /\ disposed \in Seq(Written)
        /\ Len(entries) \in Nat /\ Len(batch) \in Nat
        /\ Len(queued) \in Nat /\ Len(disposed) \in Nat
        /\ atClose \in 0..Len(queued)
    BY DEF IInv, TypeOK
  <1>1. CASE LogDropped
    <2>1. TypeOK'
      BY <1>0, <1>1 DEF Log, LogDropped, TypeOK
    <2>2. LoggedOnce'
      BY <1>0, <1>1 DEF Log, LogDropped, LoggedOnce
    <2>3. ShutdownInv'
      BY <1>0, <1>1 DEF Log, LogDropped, ShutdownInv
    <2> QED
      BY <2>1, <2>2, <2>3 DEF IInv
  <1>2. CASE LogQueued
    <2>1. next \in Entry /\ next' \in 1..MaxEntries+1
      BY <1>0 DEF Log, TypeOK, Entry
    <2>2. /\ entries' \in Seq(Entry) /\ Len(entries') = Len(entries) + 1
          /\ \A i \in 1..Len(entries) : entries'[i] = entries[i]
          /\ entries'[Len(entries) + 1] = next
          /\ queued' \in Seq(Entry) /\ Len(queued') = Len(queued) + 1
          /\ \A i \in 1..Len(queued) : queued'[i] = queued[i]
          /\ queued'[Len(queued) + 1] = next
      BY <1>0, <1>2, <2>1, AppendProperties DEF LogQueued
    <2>3. Len(entries') <= BufferSize
      BY <1>0, <1>2, <2>2 DEF LogQueued, BufferHasRoom
    <2>4. /\ main' = main /\ loop' = loop /\ cancelled' = cancelled
          /\ batch' = batch /\ disposed' = disposed /\ atClose' = atClose
      BY DEF Log
    <2>5. TypeOK'
      BY <1>0, <2>1, <2>2, <2>3, <2>4 DEF TypeOK
    <2>6. LoggedOnce'
      <3> DEFINE n == Len(disposed)
                 m == n + Len(batch)
      <3>1. /\ Len(queued) = m + Len(entries)
            /\ n \in Nat /\ m \in Nat
        BY <1>0 DEF LoggedOnce
      <3>2. \A i \in 1..n : disposed'[i].id = queued'[i]
        BY <1>0, <2>2, <2>4, <3>1 DEF LoggedOnce
      <3>3. \A i \in 1..Len(batch) : batch'[i] = queued'[n + i]
        <4>1. \A i \in 1..Len(batch) :
                batch[i] = queued[n + i] /\ n + i \in 1..Len(queued)
          BY <1>0, <3>1 DEF LoggedOnce
        <4> QED
          BY <2>2, <2>4, <4>1
      <3>4. \A i \in 1..Len(entries) : entries'[i] = queued'[m + i]
        <4>1. \A i \in 1..Len(entries) :
                /\ entries'[i] = entries[i] /\ entries[i] = queued[m + i]
                /\ m + i \in 1..Len(queued)
          BY <1>0, <2>2, <3>1 DEF LoggedOnce
        <4> QED
          BY <2>2, <4>1
      <3>5. entries'[Len(entries) + 1] = queued'[m + (Len(entries) + 1)]
        <4>1. m + (Len(entries) + 1) = Len(queued) + 1
          BY <1>0, <3>1
        <4> QED
          BY <2>2, <4>1
      <3>6. \A i \in 1..Len(entries') :
              i \in 1..Len(entries) \/ i = Len(entries) + 1
        BY <1>0, <2>2
      <3>7. \A i \in 1..Len(entries') : entries'[i] = queued'[m + i]
        BY <3>4, <3>5, <3>6
      <3>8. Len(queued') = m + Len(entries')
        BY <1>0, <2>2, <3>1
      <3> QED
        BY <2>4, <3>2, <3>3, <3>7, <3>8 DEF LoggedOnce
    <2>7. ShutdownInv'
      BY <1>0, <2>2, <2>4 DEF ShutdownInv
    <2> QED
      BY <2>5, <2>6, <2>7 DEF IInv
  <1> QED
    BY <1>1, <1>2 DEF Log

\* flushLoop keeps the invariant.
LEMMA LoopKeeps ==
  ASSUME IInv, LoopStep
  PROVE  IInv'
  <1>0. /\ TypeOK /\ LoggedOnce /\ ShutdownInv
        /\ entries \in Seq(Entry) /\ batch \in Seq(Entry)
        /\ queued \in Seq(Entry) /\ disposed \in Seq(Written)
        /\ Len(entries) \in Nat /\ Len(batch) \in Nat
        /\ Len(queued) \in Nat /\ Len(disposed) \in Nat
        /\ atClose \in 0..Len(queued)
    BY DEF IInv, TypeOK
  <1>1. CASE Receive
    <2>1. /\ LoggedOnce'
          /\ batch' \in Seq(Entry) /\ Len(batch') = Len(batch) + 1
          /\ entries' \in Seq(Entry) /\ Len(entries') = Len(entries) - 1
      BY <1>0, <1>1, ReceiveOnce DEF Receive
    <2>2. Len(batch') <= BatchSize /\ batch' # <<>>
      BY <1>0, <1>1, <2>1 DEF Receive, ShutdownInv
    <2>3. loop' = IF Len(batch') >= BatchSize THEN "flush" ELSE "select"
      BY <1>1 DEF Receive, BatchFull
    <2>4. /\ main' = main /\ cancelled' = cancelled /\ next' = next
          /\ queued' = queued /\ disposed' = disposed /\ atClose' = atClose
          /\ loop = "select"
      BY <1>1 DEF Receive
    <2>5. TypeOK'
      BY <1>0, <2>1, <2>2, <2>3, <2>4 DEF TypeOK, LoopPc
    <2>6. ShutdownInv'
      BY <1>0, <2>1, <2>2, <2>3, <2>4 DEF ShutdownInv
    <2> QED
      BY <2>1, <2>5, <2>6 DEF IInv
  <1>2. CASE Tick \/ CtxDone
    <2>1. TypeOK'
      BY <1>0, <1>2 DEF Tick, CtxDone, TypeOK, LoopPc
    <2>2. LoggedOnce'
      BY <1>0, <1>2 DEF Tick, CtxDone, LoggedOnce
    <2>3. ShutdownInv'
      BY <1>0, <1>2 DEF Tick, CtxDone, ShutdownInv
    <2> QED
      BY <2>1, <2>2, <2>3 DEF IInv
  <1>3. CASE DrainReceive
    <2>1. /\ LoggedOnce'
          /\ batch' \in Seq(Entry) /\ Len(batch') = Len(batch) + 1
          /\ entries' \in Seq(Entry) /\ Len(entries') = Len(entries) - 1
      BY <1>0, <1>3, ReceiveOnce DEF DrainReceive
    <2>2. /\ UNCHANGED <<main, loop, cancelled, next, queued, disposed, atClose>>
          /\ loop = "drain"
      BY <1>3 DEF DrainReceive
    <2>3. TypeOK'
      BY <1>0, <2>1, <2>2 DEF TypeOK
    <2>4. ShutdownInv'
      BY <1>0, <2>2 DEF ShutdownInv
    <2> QED
      BY <2>1, <2>3, <2>4 DEF IInv
  <1>4. CASE DrainDone
    <2>1. /\ UNCHANGED <<main, cancelled, entries, batch, next, queued,
                         disposed, atClose>>
          /\ loop = "drain" /\ loop' = IF batch = <<>> THEN "exited" ELSE "lastFlush"
          /\ Len(entries) = 0
      BY <1>4 DEF DrainDone, ChannelEmpty
    <2>2. atClose <= Len(disposed) + Len(batch)
      BY <1>0, <2>1 DEF LoggedOnce
    <2>3. batch = <<>> => atClose <= Len(disposed)
      BY <1>0, <2>2
    <2>4. TypeOK'
      BY <1>0, <2>1 DEF TypeOK, LoopPc
    <2>5. LoggedOnce'
      BY <1>0, <2>1 DEF LoggedOnce
    <2>6. ShutdownInv'
      BY <1>0, <2>1, <2>2, <2>3 DEF ShutdownInv
    <2> QED
      BY <2>4, <2>5, <2>6 DEF IInv
  <1>5. ASSUME NEW place \in Place, Flush(place) PROVE IInv'
    <2>1. /\ LoggedOnce'
          /\ disposed' \in Seq(Written)
          /\ Len(disposed') = Len(disposed) + Len(batch)
          /\ batch' = <<>>
      BY <1>0, <1>5, FlushOnce
    <2>2. /\ UNCHANGED <<main, cancelled, entries, next, queued, atClose>>
          /\ loop \in {"flush", "lastFlush"}
          /\ loop' = IF loop = "flush" THEN "select" ELSE "exited"
      BY <1>5 DEF Flush
    <2>3. batch' \in Seq(Entry) /\ Len(batch') = 0
      BY <2>1
    <2>4. TypeOK'
      BY <1>0, <2>1, <2>2, <2>3 DEF TypeOK, LoopPc
    <2>5. ShutdownInv'
      BY <1>0, <2>1, <2>2, <2>3 DEF ShutdownInv
    <2> QED
      BY <2>1, <2>4, <2>5 DEF IInv
  <1> QED
    BY <1>1, <1>2, <1>3, <1>4, <1>5
    DEF LoopStep, FlushOk, FlushError, FlushAmbiguous, Place

\* The inductive invariant: every queued entry is in the history of written
\* entries, the batch or the channel, and flushLoop leaves only when nothing
\* queued before Close is left behind.
THEOREM Invariance == Spec => []IInv
  <1>1. Init => IInv
    BY InitIInv
  <1>2. IInv /\ [Next]_vars => IInv'
    <2> SUFFICES ASSUME IInv, [Next]_vars PROVE IInv'
      OBVIOUS
    <2>0. /\ TypeOK /\ LoggedOnce /\ ShutdownInv
          /\ Len(queued) \in Nat
      BY DEF IInv, TypeOK
    <2>1. CASE Log
      BY <2>1, LogStep
    <2>2. CASE LoopStep
      BY <2>2, LoopKeeps
    <2>3. CASE Cancel \/ CloseReturn
      <3>1. TypeOK'
        <4>1. /\ UNCHANGED <<loop, entries, batch, next, queued, disposed>>
              /\ main' \in {"running", "closing", "exited"}
              /\ cancelled' \in BOOLEAN
              /\ atClose' \in {atClose, Len(queued)}
          BY <2>0, <2>3 DEF Cancel, CloseReturn, TypeOK
        <4>2. atClose' \in 0..Len(queued)
          BY <2>0, <4>1 DEF TypeOK
        <4> QED
          BY <2>0, <4>1, <4>2 DEF TypeOK
      <3>2. LoggedOnce'
        BY <2>0, <2>3 DEF Cancel, CloseReturn, LoggedOnce
      <3>3. ShutdownInv'
        BY <2>0, <2>3 DEF Cancel, CloseReturn, ShutdownInv, LoopOver
      <3> QED
        BY <3>1, <3>2, <3>3 DEF IInv
    <2>4. CASE UNCHANGED vars
      <3>1. TypeOK' /\ LoggedOnce' /\ ShutdownInv'
        BY <2>0, <2>4 DEF vars, TypeOK, LoggedOnce, ShutdownInv
      <3> QED
        BY <3>1 DEF IInv
    <2> QED
      BY <2>1, <2>2, <2>3, <2>4 DEF Next, Exited
  <1> QED
    BY <1>1, <1>2, PTL DEF Spec

\* The channel never exceeds QUERY_LOG_BUFFER_SIZE nor, before shutdown, a
\* batch QUERY_LOG_BATCH_SIZE.
THEOREM TypeCorrect == Spec => []TypeOK
  <1>1. IInv => TypeOK
    BY DEF IInv
  <1> QED
    BY <1>1, Invariance, PTL

\* Log, flushLoop and flush neither lose nor repeat nor reorder an entry that
\* was counted as queued.
THEOREM OnceInOrder == Spec => []LoggedOnce
  <1>1. IInv => LoggedOnce
    BY DEF IInv
  <1> QED
    BY <1>1, Invariance, PTL

\* Close returns only after everything queued before it was flushed.
THEOREM ShutdownFlushes == Spec => []FlushedBeforeExit
  <1>1. IInv => FlushedBeforeExit
    BY DEF IInv, ShutdownInv, FlushedBeforeExit, TypeOK
  <1> QED
    BY <1>1, Invariance, PTL
-----------------------------------------------------------------------------
(***************************************************************************)
(* The process, whose deferred Close ends the logger.                      *)
(***************************************************************************)
Starting == {"hosts", "tls", "filter", "proxy", "logger", "notify", "listen"}

(***************************************************************************)
(* AbruptExitLosesNothing is not inductive: the ways to a fatal exit are   *)
(* all in the start-up, and there nobody can have connected, because the   *)
(* listener is opened by its last step; a signal kills only before Notify, *)
(* which is part of the start-up.                                          *)
(***************************************************************************)
NobodyYet ==
  mainPc \in Starting \cup {"fatal", "killed"} =>
    /\ served = 0 /\ waiting = 0 /\ handlers = 0
    /\ unflushed = FALSE
    /\ listener = "none"

NotifiedLate ==
  notified = FALSE =>
    mainPc \in (Starting \ {"listen"}) \cup {"fatal", "killed"}

ProcessInv == ProcessTypeOK /\ NobodyYet /\ NotifiedLate

(* The steps, by what they are about.                                      *)
StartUp ==
  CheckHosts \/ LoadTLS \/ MakeFilter \/ NewTCPProxy \/ StartLogger
  \/ Notify \/ Listen
AcceptLoop == Accept \/ AcceptFails \/ AfterAcceptError
Shutdown == Exit \/ Signal \/ SignalGoroutine \/ CloseListener
Clients == Connect \/ HandlerLogs \/ LoggerFlushes \/ HandlerEnds

LEMMA ProcessCases ==
  ProcessNext <=> StartUp \/ AcceptLoop \/ Shutdown \/ Clients \/ Flip
             \/ HealthStep
  BY Zenon DEF ProcessNext, MainStep, Environment, StartUp, AcceptLoop,
     Shutdown, Clients

LEMMA ProcessInvInit == ProcessInit => ProcessInv
<1> SUFFICES ASSUME ProcessInit PROVE ProcessInv
  OBVIOUS
<1>1. Places
  BY DEF ProcessInit, Places, MainPc, HealthPc
<1>2. Flags
  BY Zenon DEF ProcessInit, Flags
<1>3. Counters
  BY ProcessAssumption DEF ProcessInit, Counters
<1>4. NobodyYet /\ NotifiedLate
  BY Zenon DEF ProcessInit, NobodyYet, NotifiedLate, Starting
<1> QED
  BY <1>1, <1>2, <1>3, <1>4 DEF ProcessInv, ProcessTypeOK

(* Where main, the listener, the logger and the health checker are.        *)
LEMMA PlacesKept == ProcessInv /\ [ProcessNext]_processVars => Places'
<1> SUFFICES ASSUME ProcessInv, [ProcessNext]_processVars PROVE Places'
  OBVIOUS
<1> USE DEF ProcessInv, ProcessTypeOK, Places, MainPc, HealthPc, Down,
      startVars, netVars, handlerVars, aliveVars, healthVars,
      stopVars
<1>1. CASE StartUp
  BY <1>1 DEF StartUp, CheckHosts, LoadTLS, StartHealthChecker,
     MakeFilter, NewTCPProxy, StartLogger, Notify, Listen
<1>2. CASE AcceptLoop
  BY <1>2 DEF AcceptLoop, Accept, AcceptFails, AfterAcceptError,
     OnAcceptError
<1>3. CASE Shutdown
  BY <1>3 DEF Shutdown, Exit, Signal, SignalGoroutine, CloseListener,
     Running
<1>4. CASE Clients
  BY <1>4 DEF Clients, Connect, HandlerLogs, LoggerFlushes,
     HandlerEnds, Running
<1>5. CASE Flip
  BY <1>5 DEF Flip
<1>6. CASE HealthStep
  BY <1>6 DEF HealthStep, DialPrimary, DialShadow, Dial,
     StorePrimary, StoreShadow, HealthTick
<1>7. CASE UNCHANGED processVars
  BY <1>7 DEF processVars
<1> QED
  BY <1>1, <1>2, <1>3, <1>4, <1>5, <1>6, <1>7, ProcessCases

(* The flags stay Booleans.                                                *)
LEMMA FlagsKept == ProcessInv /\ [ProcessNext]_processVars => Flags'
<1> SUFFICES ASSUME ProcessInv, [ProcessNext]_processVars PROVE Flags'
  OBVIOUS
<1> USE DEF ProcessInv, ProcessTypeOK, Flags, Places, startVars, netVars,
      handlerVars, aliveVars, healthVars, stopVars
<1>1. CASE StartUp
  <2>1. CASE CheckHosts
    BY <2>1, ZenonT(60) DEF CheckHosts, StartHealthChecker
  <2>2. CASE LoadTLS
    BY <2>2, ZenonT(60) DEF LoadTLS, StartHealthChecker
  <2>3. CASE MakeFilter \/ NewTCPProxy \/ StartLogger \/ Notify
    BY <2>3, ZenonT(60) DEF MakeFilter, NewTCPProxy, StartLogger, Notify
  <2>4. CASE Listen
    BY <2>4, ZenonT(60) DEF Listen
  <2> QED
    BY <1>1, <2>1, <2>2, <2>3, <2>4 DEF StartUp
<1>2. CASE AcceptLoop
  BY <1>2, ZenonT(60) DEF AcceptLoop, Accept, AcceptFails,
     AfterAcceptError, OnAcceptError
<1>3. CASE Shutdown
  BY <1>3, ZenonT(60) DEF Shutdown, Exit, Signal, SignalGoroutine,
     CloseListener, Running
<1>4. CASE Clients
  BY <1>4, ZenonT(60) DEF Clients, Connect, HandlerLogs, LoggerFlushes,
     HandlerEnds, Running
<1>5. CASE Flip
  BY <1>5, ZenonT(60) DEF Flip
<1>6. CASE HealthStep
  BY <1>6, ZenonT(60) DEF HealthStep, DialPrimary, DialShadow, Dial,
     StorePrimary, StoreShadow, HealthTick
<1>7. CASE UNCHANGED processVars
  BY <1>7, ZenonT(60) DEF processVars
<1> QED
  BY <1>1, <1>2, <1>3, <1>4, <1>5, <1>6, <1>7, ProcessCases

(* Connections and handlers: Accept moves one connection from waiting to   *)
(* served and starts its handler.                                          *)
LEMMA CountersKept == ProcessInv /\ [ProcessNext]_processVars => Counters'
<1> SUFFICES ASSUME ProcessInv, [ProcessNext]_processVars PROVE Counters'
  OBVIOUS
<1> USE ProcessAssumption DEF ProcessInv, ProcessTypeOK, Counters, startVars, netVars,
      handlerVars, aliveVars, healthVars, stopVars
<1>1. CASE StartUp
  BY <1>1 DEF StartUp, CheckHosts, LoadTLS, StartHealthChecker,
     MakeFilter, NewTCPProxy, StartLogger, Notify, Listen
<1>2. CASE AcceptLoop
  BY <1>2 DEF AcceptLoop, Accept, AcceptFails, AfterAcceptError,
     OnAcceptError
<1>3. CASE Shutdown
  BY <1>3 DEF Shutdown, Exit, Signal, SignalGoroutine, CloseListener,
     Running
<1>4. CASE Clients
  BY <1>4 DEF Clients, Connect, HandlerLogs, LoggerFlushes,
     HandlerEnds, Running
<1>5. CASE Flip
  BY <1>5 DEF Flip
<1>6. CASE HealthStep
  BY <1>6 DEF HealthStep, DialPrimary, DialShadow, Dial,
     StorePrimary, StoreShadow, HealthTick
<1>7. CASE UNCHANGED processVars
  BY <1>7 DEF processVars
<1> QED
  BY <1>1, <1>2, <1>3, <1>4, <1>5, <1>6, <1>7, ProcessCases

(* During the start-up the listener is not open, so nobody connects; the   *)
(* accept loop, which is entered with it open, has no way to a fatal exit. *)
LEMMA NobodyYetKept == ProcessInv /\ [ProcessNext]_processVars => NobodyYet'
<1> SUFFICES ASSUME ProcessInv, [ProcessNext]_processVars PROVE NobodyYet'
  OBVIOUS
<1> USE DEF ProcessInv, ProcessTypeOK, NobodyYet, NotifiedLate, Starting,
      Counters, Places, Down, startVars, netVars, handlerVars,
      aliveVars, healthVars, stopVars
<1>1. CASE StartUp
  BY <1>1 DEF StartUp, CheckHosts, LoadTLS, StartHealthChecker,
     MakeFilter, NewTCPProxy, StartLogger, Notify, Listen
<1>2. CASE AcceptLoop
  BY <1>2 DEF AcceptLoop, Accept, AcceptFails, AfterAcceptError,
     OnAcceptError
<1>3. CASE Shutdown
  BY <1>3 DEF Shutdown, Exit, Signal, SignalGoroutine, CloseListener,
     Running
<1>4. CASE Clients
  BY <1>4 DEF Clients, Connect, HandlerLogs, LoggerFlushes,
     HandlerEnds, Running
<1>5. CASE Flip
  BY <1>5 DEF Flip
<1>6. CASE HealthStep
  BY <1>6 DEF HealthStep, DialPrimary, DialShadow, Dial,
     StorePrimary, StoreShadow, HealthTick
<1>7. CASE UNCHANGED processVars
  BY <1>7 DEF processVars
<1> QED
  BY <1>1, <1>2, <1>3, <1>4, <1>5, <1>6, <1>7, ProcessCases

(* Notify comes before Listen.                                             *)
LEMMA NotifiedLateKept == ProcessInv /\ [ProcessNext]_processVars => NotifiedLate'
<1> SUFFICES ASSUME ProcessInv, [ProcessNext]_processVars PROVE NotifiedLate'
  OBVIOUS
<1> USE DEF ProcessInv, ProcessTypeOK, NotifiedLate, Starting, Down, startVars,
      netVars, handlerVars, aliveVars, healthVars, stopVars
<1>1. CASE StartUp
  BY <1>1 DEF StartUp, CheckHosts, LoadTLS, StartHealthChecker,
     MakeFilter, NewTCPProxy, StartLogger, Notify, Listen
<1>2. CASE AcceptLoop
  BY <1>2 DEF AcceptLoop, Accept, AcceptFails, AfterAcceptError,
     OnAcceptError
<1>3. CASE Shutdown
  BY <1>3 DEF Shutdown, Exit, Signal, SignalGoroutine, CloseListener,
     Running
<1>4. CASE Clients
  BY <1>4 DEF Clients, Connect, HandlerLogs, LoggerFlushes,
     HandlerEnds, Running
<1>5. CASE Flip
  BY <1>5 DEF Flip
<1>6. CASE HealthStep
  BY <1>6 DEF HealthStep, DialPrimary, DialShadow, Dial,
     StorePrimary, StoreShadow, HealthTick
<1>7. CASE UNCHANGED processVars
  BY <1>7 DEF processVars
<1> QED
  BY <1>1, <1>2, <1>3, <1>4, <1>5, <1>6, <1>7, ProcessCases

LEMMA ProcessInvariance == ProcessSpec => []ProcessInv
<1>1. ProcessInv /\ [ProcessNext]_processVars => ProcessInv'
  BY PlacesKept, FlagsKept, CountersKept, NobodyYetKept, NotifiedLateKept DEF
     ProcessInv, ProcessTypeOK
<1> QED
  BY ProcessInvInit, <1>1, PTL DEF ProcessSpec

\* Every variable keeps its type, and no handler runs without a connection.
THEOREM ProcessTypes == ProcessSpec => []ProcessTypeOK
<1>1. ProcessInv => ProcessTypeOK
  BY DEF ProcessInv
<1> QED
  BY <1>1, ProcessInvariance, PTL

\* An exit that skips the deferred Close of the logger, by log.Fatal or by a
\* signal before Notify, happens before any connection was accepted.
THEOREM AbruptExitSafe == ProcessSpec => []AbruptExitLosesNothing
<1>1. ProcessInv => AbruptExitLosesNothing
  BY DEF ProcessInv, AbruptExitLosesNothing, NobodyYet
<1> QED
  BY <1>1, ProcessInvariance, PTL
=============================================================================
