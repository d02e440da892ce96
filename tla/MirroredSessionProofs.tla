----------------------- MODULE MirroredSessionProofs ------------------------
(***************************************************************************)
(* Proofs about MirroredSession, for any databases, statements, queue size *)
(* and number of commands.                                                 *)
(***************************************************************************)
EXTENDS MirroredSession, FiniteSetTheorems, TLAPS

\* The primary's session when it has done all that the worker was given.
Expected == IF pc = "answer" THEN Outcome(primary, cur, cur.ok) ELSE primary

Serving == pc \in {"read", "write", "mirror", "answer"}

\* The handler, the worker's phase and the command in hand agree.
Agreement ==
  /\ pc \in {"write", "mirror", "answer"} => cur \in Command /\ cur.before = primary
  /\ Serving => phase = "open"
  /\ phase \in {"open", "draining"} => skipped = {}

\* While nothing was missed the sessions are one history: a request waiting in
\* the queue finds the session its predecessor leaves, the oldest the shadow's,
\* and the last one leaves the primary's.
OneHistory ==
  missed = {} /\ skipped = {} =>
    /\ \A i \in 1..Len(accepted) : \A j \in 1..Len(accepted) :
         settled < i /\ j = i + 1 =>
           accepted[j].before = Outcome(accepted[i].before, accepted[i],
                                        accepted[i].ok)
    /\ settled < Len(accepted) => shadow = Oldest.before
    /\ Serving /\ settled = Len(accepted) => Expected = shadow
    /\ Serving /\ settled < Len(accepted) =>
         Expected = Outcome(accepted[Len(accepted)].before,
                            accepted[Len(accepted)],
                            accepted[Len(accepted)].ok)

IInv == TypeOK /\ Agreement /\ OneHistory /\ RunsAlike
-----------------------------------------------------------------------------
\* A command leads from a session to a session.
LEMMA OutcomeType ==
  ASSUME NEW s \in Session, NEW c \in Command, NEW ok \in BOOLEAN
  PROVE  Outcome(s, c, ok) \in Session
<1>1. /\ s.db \in Databases /\ s.issued \in Nat
      /\ s.stmts \in [Ids -> {None} \cup Statement]
      /\ s = [db |-> s.db, issued |-> s.issued, stmts |-> s.stmts]
  BY DEF Session
<1>2. c.kind \in Kinds /\ c.arg \in Names(c.kind)
  BY DEF Command
<1>3. CASE c.kind \in {"use", "initdb"}
  <2>1. c.arg \in Databases
    BY <1>2, <1>3 DEF Names
  <2>2. After(s, c) = [s EXCEPT !.db = c.arg]
    BY <1>3 DEF After
  <2> QED  BY <1>1, <2>1, <2>2 DEF Outcome, Session
<1>4. CASE c.kind = "prepare"
  <2>1. c.arg \in Texts
    BY <1>2, <1>4 DEF Names
  <2> DEFINE new == [text |-> c.arg, db |-> s.db, data |-> FALSE]
  <2>2. new \in Statement
    BY <1>1, <2>1 DEF Statement
  <2>3. After(s, c) = [s EXCEPT !.issued = @ + 1, !.stmts[s.issued + 1] = new]
    BY <1>4 DEF After
  <2> HIDE DEF new
  <2>4. [s.stmts EXCEPT ![s.issued + 1] = new] \in [Ids -> {None} \cup Statement]
    BY <1>1, <2>2
  <2>5. After(s, c) = [db |-> s.db, issued |-> s.issued + 1,
                       stmts |-> [s.stmts EXCEPT ![s.issued + 1] = new]]
    BY <1>1, <2>3 DEF Session
  <2>6. After(s, c) \in Session
    BY <1>1, <2>4, <2>5 DEF Session
  <2> QED  BY <2>6 DEF Outcome
<1>5. CASE c.kind \in {"data", "execute"}
  <2>1. c.arg \in Ids
    BY <1>2, <1>5 DEF Names
  <2>2. CASE s.stmts[c.arg] # None
    <3> DEFINE flag == (c.kind = "data")
               new == [s.stmts[c.arg] EXCEPT !.data = flag]
    <3>1. After(s, c) = [s EXCEPT !.stmts[c.arg].data = flag]
      BY <1>5, <2>2 DEF After
    <3>2. s.stmts[c.arg] \in Statement
      BY <1>1, <2>1, <2>2
    <3>3. flag \in BOOLEAN
      OBVIOUS
    <3> HIDE DEF flag
    <3>4. new \in Statement
      BY <3>2, <3>3 DEF Statement
    <3>5. After(s, c) = [s EXCEPT !.stmts = [s.stmts EXCEPT ![c.arg] = new]]
      BY <3>1
    <3> HIDE DEF new
    <3> QED  BY <1>1, <2>1, <3>4, <3>5 DEF Outcome, Session
  <2>3. CASE s.stmts[c.arg] = None
    <3>1. After(s, c) = s
      BY <1>5, <2>3 DEF After
    <3> QED  BY <3>1 DEF Outcome
  <2> QED  BY <2>2, <2>3
<1>6. CASE c.kind = "close"
  <2>1. After(s, c) = [s EXCEPT !.stmts[c.arg] = None]
    BY <1>6 DEF After
  <2> QED  BY <1>1, <2>1 DEF Outcome, Session
<1>7. CASE c.kind \in {"query", "quit"}
  <2>1. After(s, c) = s
    BY <1>7 DEF After
  <2> QED  BY <2>1 DEF Outcome
<1> QED  BY <1>2, <1>3, <1>4, <1>5, <1>6, <1>7 DEF Kinds

\* A query changes no session.
LEMMA QueryKeeps ==
  ASSUME NEW s, NEW c, c.kind = "query"
  PROVE  After(s, c) = s
BY DEF After
-----------------------------------------------------------------------------
(* Types.                                                                  *)

CountType == count \in [{"primary", "shadow", "filtered", "drops"} -> Nat]
LogType == logged \in [{"primary", "shadow"} -> SUBSET Ids]

LEMMA IncType ==
  ASSUME CountType, NEW f \in {"primary", "shadow", "filtered", "drops"}, Inc(f)
  PROVE  CountType'
BY DEF CountType, Inc

LEMMA LogEntryType ==
  ASSUME LogType, NEW i \in Ids,
         \/ logged' = [logged EXCEPT !.primary = @ \cup {i}]
         \/ logged' = [logged EXCEPT !.shadow = @ \cup {i}]
  PROVE  LogType'
BY DEF LogType

LEMMA InitType == Init => TypeOK
<1> SUFFICES ASSUME Init PROVE TypeOK
  OBVIOUS
<1>1. primary \in Session /\ shadow = primary
  BY DEF Init, Session, Statement
<1>2. /\ accepted = <<>> /\ settled = 0 /\ skipped = {} /\ lost = FALSE
      /\ phase = "open"
  BY DEF Init, Worker!Init
<1>3. CountType
  BY DEF Init, CountType
<1>4. LogType
  BY DEF Init, LogType
<1>5. /\ pc \in HandlerPc /\ cur = None /\ dropped = {} /\ missed = {}
      /\ strayed = {}
  BY DEF Init, HandlerPc
<1>6. /\ accepted \in Seq(Command) /\ settled \in 0..Len(accepted)
      /\ skipped \subseteq 1..Len(accepted)
  BY <1>2
<1> QED  BY <1>1, <1>2, <1>3, <1>4, <1>5, <1>6 DEF TypeOK, CountType, LogType
-----------------------------------------------------------------------------
(* The handler's steps, but for Send.                                      *)

\* A step that gives the worker nothing and takes nothing from it keeps the
\* history, if it lets the primary go on from where it was expected to be.
LEMMA SameRequests ==
  ASSUME IInv,
         UNCHANGED <<accepted, settled, skipped, shadow, strayed>>,
         missed \subseteq missed',
         missed' = {} /\ Serving' => Serving /\ Expected' = Expected
  PROVE  OneHistory' /\ RunsAlike'
<1>1. OneHistory /\ RunsAlike
  BY DEF IInv
<1>2. RunsAlike'
  BY <1>1 DEF RunsAlike
<1>3. missed' = {} => missed = {}
  OBVIOUS
<1>4. Oldest' = Oldest
  BY DEF Oldest
<1>5. ASSUME missed' = {}, skipped' = {} PROVE OneHistory'
  <2>1. Serving' => Serving /\ Expected' = Expected
    BY <1>5
  <2> HIDE DEF Expected, Oldest, Serving
  <2> QED  BY <1>1, <1>3, <1>4, <1>5, <2>1 DEF OneHistory
<1> QED  BY <1>2, <1>5 DEF OneHistory

\* What a command that leaves the session alone does for either verdict.
LEMMA OutcomeKept ==
  ASSUME NEW s, NEW c, NEW ok \in BOOLEAN, ok => After(s, c) = s
  PROVE  Outcome(s, c, ok) = s
BY DEF Outcome

LEMMA ReadCommandInv ==
  ASSUME IInv, ReadCommand
  PROVE  IInv'
<1>1. /\ pc = "read" /\ pc' = "write" /\ NextId \in Ids
      /\ UNCHANGED <<primary, shadow, accepted, settled, skipped, lost, phase,
                     logged, dropped, missed, strayed>>
  BY DEF ReadCommand, worker
<1>2. TypeOK /\ Agreement
  BY DEF IInv
<1>3. PICK kind \in Kinds, ok \in BOOLEAN : \E a \in Arguments(kind) :
        cur' = [id |-> NextId, kind |-> kind, arg |-> a, ok |-> ok,
                before |-> primary]
  BY DEF ReadCommand
<1>4. PICK a \in Arguments(kind) :
        cur' = [id |-> NextId, kind |-> kind, arg |-> a, ok |-> ok,
                before |-> primary]
  BY <1>3
<1>5. a \in Names(kind) /\ a \in Databases \cup Texts \cup Ids \cup {None}
  BY DEF Arguments, Names
<1>6. cur' \in Command /\ cur'.before = primary
  BY <1>1, <1>2, <1>4, <1>5 DEF Command, TypeOK
<1>7. CountType'
  <2>1. CountType
    BY <1>2 DEF TypeOK, CountType
  <2>2. Inc("primary") \/ UNCHANGED count
    BY DEF ReadCommand
  <2> QED  BY <2>1, <2>2, IncType DEF CountType
<1>8. TypeOK'
  BY <1>1, <1>2, <1>6, <1>7 DEF TypeOK, CountType, HandlerPc
<1>9. Agreement'
  BY <1>1, <1>2, <1>6 DEF Agreement, Serving
<1>10. Serving /\ Expected' = Expected
  BY <1>1 DEF Serving, Expected
<1>11. OneHistory' /\ RunsAlike'
  BY <1>1, <1>10, SameRequests
<1> QED  BY <1>8, <1>9, <1>11 DEF IInv

\* The steps that leave the sessions and the worker alone.
LEMMA HandlerIdleInv ==
  ASSUME IInv, WritePrimary \/ WriteError \/ RespondError \/ ClientGone
  PROVE  IInv'
<1>1. /\ \/ pc = "write" /\ pc' = "mirror"
         \/ pc \in {"read", "write", "answer"} /\ pc' = "closing"
      /\ UNCHANGED <<cur, primary, shadow, accepted, settled, skipped, lost,
                     phase, count, dropped, missed, strayed>>
      /\ UNCHANGED logged \/ (pc \in {"write", "answer"} /\ logPrimaryExecution)
  BY DEF WritePrimary, WriteError, RespondError, ClientGone, worker
<1>2. TypeOK /\ Agreement
  BY DEF IInv
<1>3. LogType'
  <2>1. LogType
    BY <1>2 DEF TypeOK, LogType
  <2>2. pc \in {"write", "answer"} => cur.id \in Ids
    BY <1>2 DEF Agreement, Command
  <2> QED  BY <1>1, <2>1, <2>2, LogEntryType DEF logPrimaryExecution, LogType
<1>4. TypeOK'
  BY <1>1, <1>2, <1>3 DEF TypeOK, LogType, HandlerPc
<1>5. Agreement'
  BY <1>1, <1>2 DEF Agreement, Serving
<1>6. Serving' => Serving /\ Expected' = Expected
  BY <1>1 DEF Serving, Expected
<1>7. OneHistory' /\ RunsAlike'
  BY <1>1, <1>6, SameRequests
<1> QED  BY <1>4, <1>5, <1>7 DEF IInv

LEMMA RespondInv ==
  ASSUME IInv, Respond
  PROVE  IInv'
<1>1. /\ pc = "answer" /\ pc' = "read" /\ logPrimaryExecution
      /\ primary' = Outcome(primary, cur, cur.ok)
      /\ UNCHANGED <<cur, shadow, accepted, settled, skipped, lost, phase, count,
                     dropped, missed, strayed>>
  BY DEF Respond, worker
<1>2. TypeOK /\ Agreement /\ cur \in Command /\ primary \in Session
  BY <1>1 DEF IInv, Agreement, TypeOK
<1>3. LogType'
  <2>1. LogType /\ cur.id \in Ids
    BY <1>2 DEF TypeOK, LogType, Command
  <2> QED  BY <1>1, <2>1, LogEntryType DEF logPrimaryExecution
<1>4. primary' \in Session
  <2>1. cur.ok \in BOOLEAN
    BY <1>2 DEF Command
  <2> QED  BY <1>1, <1>2, <2>1, OutcomeType
<1>5. TypeOK'
  BY <1>1, <1>2, <1>3, <1>4 DEF TypeOK, LogType, HandlerPc
<1>6. Agreement'
  BY <1>1, <1>2 DEF Agreement, Serving
<1>7. Serving /\ Expected' = Expected
  BY <1>1 DEF Serving, Expected
<1>8. OneHistory' /\ RunsAlike'
  BY <1>1, <1>7, SameRequests
<1> QED  BY <1>5, <1>6, <1>8 DEF IInv

LEMMA CloseInv ==
  ASSUME IInv, Close
  PROVE  IInv'
<1>1. /\ pc = "closing" /\ pc' \in {"closing", "ended"}
      /\ UNCHANGED <<cur, primary, shadow, count, logged, dropped, missed, strayed>>
      /\ UNCHANGED <<accepted, settled, skipped, lost>>
      /\ phase' \in {"draining", "forced", "closed"}
      /\ phase' = "draining" => phase = "open"
  BY DEF Close, CloseDrains, CloseForces, CloseReturns, Worker!Drain,
     Worker!Force, Worker!Close
<1>2. TypeOK /\ Agreement
  BY DEF IInv
<1>3. TypeOK'
  BY <1>1, <1>2 DEF TypeOK, HandlerPc
<1>4. Agreement' /\ ~Serving'
  BY <1>1, <1>2 DEF Agreement, Serving
<1>5. OneHistory' /\ RunsAlike'
  BY <1>1, <1>4, SameRequests
<1> QED  BY <1>3, <1>4, <1>5 DEF IInv
\* The end of the loop body for a command in hand: whether the response is
\* still to come or there is none, the primary is expected to carry it out.
LEMMA NoResponseFacts ==
  ASSUME TypeOK, Agreement, pc = "mirror", NoResponse, cur' = cur
  PROVE  /\ primary' \in Session /\ LogType'
         /\ pc' \in {"read", "closing", "answer"}
         /\ pc' = "answer" => primary' = primary
         /\ Expected' = Outcome(primary, cur, cur.ok)
<1>1. /\ LogType /\ cur \in Command /\ cur.id \in Ids /\ cur.ok \in BOOLEAN
      /\ primary \in Session
  BY DEF TypeOK, LogType, Agreement, Command
<1>2. CASE isNoResponseCommand(cur.kind)
  <2>1. /\ primary' = Outcome(primary, cur, cur.ok)
        /\ logPrimaryExecution
        /\ pc' \in {"read", "closing"}
    BY <1>2 DEF NoResponse
  <2>2. LogType'
    BY <1>1, <2>1, LogEntryType DEF logPrimaryExecution
  <2>3. primary' \in Session
    BY <1>1, <2>1, OutcomeType
  <2> QED  BY <2>1, <2>2, <2>3 DEF Expected
<1>3. CASE ~isNoResponseCommand(cur.kind)
  <2>1. UNCHANGED <<primary, logged>> /\ pc' = "answer"
    BY <1>3 DEF NoResponse
  <2> QED  BY <1>1, <2>1 DEF Expected, LogType
<1> QED  BY <1>2, <1>3

LEMMA SkipInv ==
  ASSUME IInv, Skip
  PROVE  IInv'
<1>1. /\ pc = "mirror" /\ cur.kind = "quit" /\ NoResponse
      /\ UNCHANGED <<cur, shadow, accepted, settled, skipped, lost, phase, count,
                     dropped, missed, strayed>>
  BY DEF Skip, NotMirrored, worker
<1>2. TypeOK /\ Agreement
  BY DEF IInv
<1>3. primary' \in Session /\ LogType'
  BY <1>1, <1>2, NoResponseFacts
<1>4. pc' = "closing"
  BY <1>1 DEF NoResponse, isNoResponseCommand
<1>5. TypeOK'
  BY <1>1, <1>2, <1>3, <1>4 DEF TypeOK, LogType, HandlerPc
<1>6. Agreement' /\ ~Serving'
  BY <1>1, <1>2, <1>4 DEF Agreement, Serving
<1>7. OneHistory' /\ RunsAlike'
  BY <1>1, <1>6, SameRequests
<1> QED  BY <1>5, <1>6, <1>7 DEF IInv

LEMMA FilteredInv ==
  ASSUME IInv, Filtered
  PROVE  IInv'
<1>1. /\ pc = "mirror" /\ pc' = "answer" /\ cur.kind \in {"query", "use"}
      /\ Inc("filtered") /\ logFilteredShadow
      /\ UNCHANGED <<cur, primary, shadow, accepted, settled, skipped, lost,
                     phase, dropped, strayed>>
  BY DEF Filtered, Filterable, worker
<1>2. TypeOK /\ Agreement /\ cur \in Command /\ cur.before = primary
  BY <1>1 DEF IInv, Agreement
<1>3. missed' \in {missed, missed \cup {"filtered"}}
  BY DEF Filtered, Miss
<1>4. LogType' /\ CountType'
  <2>1. LogType /\ CountType /\ cur.id \in Ids
    BY <1>2 DEF TypeOK, LogType, CountType, Command
  <2> QED  BY <1>1, <2>1, LogEntryType, IncType DEF logFilteredShadow
<1>5. TypeOK'
  BY <1>1, <1>2, <1>3, <1>4 DEF TypeOK, LogType, CountType, HandlerPc
<1>6. Agreement'
  BY <1>1, <1>2 DEF Agreement, Serving
<1>7. missed' = {} => Expected' = Expected
  <2> SUFFICES ASSUME missed' = {} PROVE Expected' = Expected
    OBVIOUS
  <2>1. ~(cur.kind = "use" /\ cur.ok /\ After(cur.before, cur) # cur.before)
    BY DEF Filtered, Miss
  <2>2. cur.ok => After(primary, cur) = primary
    BY <1>1, <1>2, <2>1, QueryKeeps
  <2>3. Outcome(primary, cur, cur.ok) = primary
    BY <1>2, <2>2, OutcomeKept DEF Command
  <2> QED  BY <1>1, <2>3 DEF Expected
<1>8. Serving
  BY <1>1 DEF Serving
<1>9. OneHistory' /\ RunsAlike'
  BY <1>1, <1>3, <1>7, <1>8, SameRequests
<1> QED  BY <1>5, <1>6, <1>9 DEF IInv

LEMMA DropInv ==
  ASSUME IInv, Drop
  PROVE  IInv'
<1>1. /\ pc = "mirror" /\ NoResponse /\ Inc("drops")
      /\ dropped' = dropped \cup {cur}
      /\ UNCHANGED <<cur, shadow, accepted, settled, skipped, lost, phase,
                     strayed>>
  BY DEF Drop, CountDrop, worker
<1>2. TypeOK /\ Agreement /\ cur \in Command /\ cur.before = primary
  BY <1>1 DEF IInv, Agreement
<1>3. missed' \in {missed, missed \cup {"dropped"}}
  BY DEF Drop, Miss
<1>4. /\ primary' \in Session /\ LogType'
      /\ pc' \in {"read", "closing", "answer"}
      /\ pc' = "answer" => primary' = primary
      /\ Expected' = Outcome(primary, cur, cur.ok)
  BY <1>1, <1>2, NoResponseFacts
<1>5. CountType'
  <2>1. CountType
    BY <1>2 DEF TypeOK, CountType
  <2> QED  BY <1>1, <2>1, IncType
<1>6. TypeOK'
  <2>1. dropped' \subseteq Command
    BY <1>1, <1>2 DEF TypeOK
  <2> QED  BY <1>1, <1>2, <1>3, <1>4, <1>5, <2>1
           DEF TypeOK, LogType, CountType, HandlerPc
<1>7. Agreement'
  BY <1>1, <1>2, <1>4 DEF Agreement, Serving
<1>8. missed' = {} => Expected' = Expected
  <2> SUFFICES ASSUME missed' = {} PROVE Expected' = Expected
    OBVIOUS
  <2>1. cur.ok => After(primary, cur) = primary
    BY <1>2 DEF Drop, Miss
  <2>2. Outcome(primary, cur, cur.ok) = primary
    BY <1>2, <2>1, OutcomeKept DEF Command
  <2> QED  BY <1>1, <1>4, <2>2 DEF Expected
<1>9. Serving
  BY <1>1 DEF Serving
<1>10. OneHistory' /\ RunsAlike'
  BY <1>1, <1>3, <1>8, <1>9, SameRequests
<1> QED  BY <1>6, <1>7, <1>10 DEF IInv
-----------------------------------------------------------------------------
(* Send, and the worker.                                                   *)

LEMMA SendInv ==
  ASSUME IInv, Send
  PROVE  IInv'
<1> DEFINE n == Len(accepted)
<1>1. /\ pc = "mirror" /\ NoResponse
      /\ accepted' = Append(accepted, cur)
      /\ UNCHANGED <<settled, skipped, lost, phase>>
      /\ UNCHANGED <<cur, shadow, count, dropped, missed, strayed>>
  BY DEF Send, Worker!Accept
<1>2. TypeOK /\ Agreement /\ cur \in Command /\ cur.before = primary
  BY <1>1 DEF IInv, Agreement
<1>3. /\ primary' \in Session /\ LogType'
      /\ pc' \in {"read", "closing", "answer"}
      /\ pc' = "answer" => primary' = primary
      /\ Expected' = Outcome(primary, cur, cur.ok)
  BY <1>1, <1>2, NoResponseFacts
<1>4. /\ accepted \in Seq(Command) /\ n \in Nat /\ settled \in 0..n
      /\ accepted' \in Seq(Command) /\ Len(accepted') = n + 1
      /\ \A i \in 1..n : accepted'[i] = accepted[i]
      /\ accepted'[n + 1] = cur
  BY <1>1, <1>2 DEF TypeOK
<1>5. TypeOK'
  <2>1. settled' \in 0..Len(accepted') /\ skipped' \subseteq 1..Len(accepted')
    BY <1>1, <1>2, <1>4 DEF TypeOK
  <2> HIDE DEF n
  <2> QED  BY <1>1, <1>2, <1>3, <1>4, <2>1 DEF TypeOK, LogType, HandlerPc
<1>6. Agreement'
  BY <1>1, <1>2, <1>3 DEF Agreement, Serving
<1>7. ASSUME missed = {}, skipped = {}  PROVE OneHistory'
  <2>0. Serving /\ Expected = primary
    BY <1>1 DEF Serving, Expected
  <2>1. /\ \A i \in 1..n : \A j \in 1..n :
             settled < i /\ j = i + 1 =>
               accepted[j].before = Outcome(accepted[i].before, accepted[i],
                                            accepted[i].ok)
        /\ settled < n => shadow = accepted[settled + 1].before
        /\ settled = n => shadow = primary
        /\ settled < n => primary = Outcome(accepted[n].before, accepted[n],
                                            accepted[n].ok)
    BY <1>7, <2>0 DEF IInv, OneHistory, Oldest
  <2> HIDE DEF n
  <2>2. ASSUME NEW i \in 1..n + 1, NEW j \in 1..n + 1, settled < i, j = i + 1
        PROVE  accepted'[j].before = Outcome(accepted'[i].before, accepted'[i],
                                             accepted'[i].ok)
    <3>1. i \in 1..n /\ accepted'[i] = accepted[i]
      BY <1>4, <2>2
    <3>2. CASE j \in 1..n
      BY <1>4, <2>1, <2>2, <3>1, <3>2
    <3>3. CASE j = n + 1
      <4>1. i = n /\ accepted'[j] = cur
        BY <1>4, <2>2, <3>3
      <4> QED  BY <1>2, <1>4, <2>1, <2>2, <3>1, <4>1
    <3> QED  BY <1>4, <3>2, <3>3
  <2>3. settled < n + 1 /\ shadow = accepted'[settled + 1].before
    <3>1. CASE settled < n
      BY <1>4, <2>1, <3>1
    <3>2. CASE settled = n
      BY <1>2, <1>4, <2>1, <3>2
    <3> QED  BY <1>4, <3>1, <3>2
  <2>4. Expected' = Outcome(accepted'[n + 1].before, accepted'[n + 1],
                            accepted'[n + 1].ok)
    BY <1>2, <1>3, <1>4
  <2>5. Oldest' = accepted'[settled + 1]
    BY <1>1 DEF Oldest
  <2>6. settled' = settled /\ shadow' = shadow /\ settled # n + 1
    BY <1>1, <1>4
  <2> QED  BY <1>4, <2>2, <2>3, <2>4, <2>5, <2>6 DEF OneHistory
<1>8. OneHistory'
  BY <1>1, <1>7 DEF OneHistory
<1>9. RunsAlike'
  BY <1>1 DEF IInv, RunsAlike
<1> QED  BY <1>5, <1>6, <1>8, <1>9 DEF IInv

\* What every attempt does to the worker's bookkeeping.
LEMMA AttemptFacts ==
  ASSUME TypeOK, Attempt, CountShadow, logQueryExecution
  PROVE  /\ skipped = {} /\ settled < Len(accepted) /\ settled' = settled + 1
         /\ UNCHANGED <<accepted, skipped, phase, lost>>
         /\ Oldest \in Command /\ CountType' /\ LogType'
         /\ settled \in Nat /\ Len(accepted) \in Nat /\ settled' \in 0..Len(accepted)
<1>1. /\ skipped = {} /\ settled < Len(accepted) /\ settled' = settled + 1
      /\ UNCHANGED <<accepted, skipped, phase>> /\ lost' = FALSE
  BY DEF Attempt, Worker!Attempt
<1>2. /\ accepted \in Seq(Command) /\ settled \in 0..Len(accepted)
      /\ Len(accepted) \in Nat /\ lost = FALSE
  BY DEF TypeOK
<1>3. Oldest \in Command
  BY <1>1, <1>2 DEF Oldest
<1>4. CountType'
  <2>1. CountType /\ (Inc("shadow") \/ UNCHANGED count)
    BY DEF TypeOK, CountType, CountShadow
  <2> QED  BY <2>1, IncType DEF CountType
<1>5. LogType'
  <2>1. LogType /\ Oldest.id \in Ids
    BY <1>3 DEF TypeOK, LogType, Command
  <2> QED  BY <2>1, LogEntryType DEF logQueryExecution
<1>6. lost' = lost
  BY <1>1, <1>2
<1>7. settled' \in 0..Len(accepted) /\ settled \in Nat
  BY <1>1, <1>2
<1> QED  BY <1>1, <1>2, <1>3, <1>4, <1>5, <1>6, <1>7

LEMMA ProcessInv ==
  ASSUME IInv, Process
  PROVE  IInv'
<1> DEFINE n == Len(accepted)
<1>1. PICK ok \in BOOLEAN :
        /\ shadow' = Outcome(shadow, Oldest, ok)
        /\ missed' = IF ok # Oldest.ok THEN missed \cup {"failed"} ELSE missed
  BY DEF Process
<1>2. /\ TypeOK /\ Agreement
      /\ UNCHANGED <<pc, cur, primary, dropped>>
  BY DEF IInv, Process
<1>3. /\ skipped = {} /\ settled < n /\ settled' = settled + 1
      /\ UNCHANGED <<accepted, skipped, phase, lost>>
      /\ Oldest \in Command /\ CountType' /\ LogType'
      /\ settled \in Nat /\ n \in Nat /\ settled' \in 0..n
  BY <1>2, AttemptFacts DEF Process
<1>4. shadow' \in Session
  BY <1>1, <1>2, <1>3, OutcomeType DEF TypeOK
<1>5. strayed' = IF Target(shadow, Oldest) # Target(Oldest.before, Oldest)
                   THEN strayed \cup {Oldest.id} ELSE strayed
  BY DEF Process
<1>6. TypeOK'
  <2>1. strayed' \subseteq Ids /\ missed' \subseteq {"filtered", "dropped", "failed"}
    <3>1. Oldest.id \in Ids
      BY <1>3 DEF Command
    <3> QED  BY <1>1, <1>2, <1>5, <3>1 DEF TypeOK
  <2> QED  BY <1>2, <1>3, <1>4, <2>1 DEF TypeOK, CountType, LogType
<1>7. Agreement' /\ Serving' = Serving /\ Expected' = Expected
  BY <1>2, <1>3 DEF Agreement, Serving, Expected
<1>8. ASSUME missed' = {}
      PROVE  missed = {} /\ ok = Oldest.ok /\ shadow = Oldest.before
  <2>1. missed = {} /\ ok = Oldest.ok
    BY <1>1, <1>8
  <2> QED  BY <1>3, <2>1 DEF IInv, OneHistory
<1>9. RunsAlike'
  <2>1. missed' = {} => strayed' = strayed /\ missed = {}
    BY <1>5, <1>8
  <2> QED  BY <2>1 DEF IInv, RunsAlike
<1>10. ASSUME missed' = {}  PROVE OneHistory'
  <2>1. /\ \A i \in 1..n : \A j \in 1..n :
             settled < i /\ j = i + 1 =>
               accepted[j].before = Outcome(accepted[i].before, accepted[i],
                                            accepted[i].ok)
        /\ Serving => Expected = Outcome(accepted[n].before, accepted[n],
                                         accepted[n].ok)
    BY <1>3, <1>8, <1>10 DEF IInv, OneHistory
  <2>2. shadow' = Outcome(Oldest.before, Oldest, Oldest.ok)
    BY <1>1, <1>8, <1>10
  <2>3. Oldest = accepted[settled + 1] /\ settled + 1 \in 1..n
    BY <1>3 DEF Oldest
  <2> HIDE DEF n
  <2>4. CASE settled + 1 = n
    <3>1. ~(settled' < Len(accepted')) /\ Len(accepted') = n
      BY <1>3, <2>4 DEF n
    <3>2. Serving => Expected = shadow'
      BY <2>1, <2>2, <2>3, <2>4
    <3>3. \A i \in 1..n : ~(settled' < i)
      BY <1>3, <2>4
    <3> QED  BY <1>3, <1>7, <3>1, <3>2, <3>3 DEF OneHistory
  <2>5. CASE settled + 1 < n
    <3>1. settled' < n /\ settled' # n /\ Len(accepted') = n
      BY <1>3, <2>5 DEF n
    <3>2. settled + 2 \in 1..n /\ Oldest' = accepted[settled + 2]
      BY <1>3, <2>5 DEF Oldest
    <3>3. accepted[settled + 2].before = shadow'
      BY <1>3, <2>1, <2>2, <2>3, <3>2
    <3>4. \A i \in 1..n : settled' < i => settled < i
      BY <1>3
    <3> QED  BY <1>3, <1>7, <2>1, <3>1, <3>2, <3>3, <3>4 DEF OneHistory
  <2> QED  BY <1>3, <2>4, <2>5
<1> QED  BY <1>6, <1>7, <1>9, <1>10 DEF IInv, OneHistory

LEMMA ProcessErrorInv ==
  ASSUME IInv, ProcessError
  PROVE  IInv'
<1>1. /\ missed' = missed \cup {"failed"}
      /\ UNCHANGED <<pc, cur, primary, shadow, dropped, strayed>>
      /\ TypeOK /\ Agreement
  BY DEF ProcessError, IInv
<1>2. /\ UNCHANGED <<accepted, skipped, phase, lost>>
      /\ CountType' /\ LogType'
      /\ settled' \in 0..Len(accepted)
  BY <1>1, AttemptFacts DEF ProcessError
<1>3. TypeOK'
  BY <1>1, <1>2 DEF TypeOK, CountType, LogType
<1>4. Agreement'
  BY <1>1, <1>2 DEF Agreement, Serving
<1>5. OneHistory' /\ RunsAlike'
  BY <1>1 DEF OneHistory, RunsAlike
<1> QED  BY <1>3, <1>4, <1>5 DEF IInv

LEMMA AbandonInv ==
  ASSUME IInv, Abandon
  PROVE  IInv'
<1>1. /\ UNCHANGED <<pc, cur, primary, shadow, count, logged, dropped, missed,
                     strayed>>
      /\ TypeOK /\ Agreement /\ RunsAlike
  BY DEF Abandon, IInv
<1>2. /\ phase = "forced" \/ lost
      /\ settled < Len(accepted) /\ settled' = settled + 1
      /\ skipped' = skipped \cup {settled + 1}
      /\ UNCHANGED <<accepted, lost, phase>>
  BY DEF Abandon, Worker!Skip
<1>3. TypeOK'
  <2>1. /\ settled \in 0..Len(accepted) /\ Len(accepted) \in Nat
        /\ skipped \subseteq 1..Len(accepted)
    BY <1>1 DEF TypeOK
  <2>2. settled' \in 0..Len(accepted') /\ skipped' \subseteq 1..Len(accepted')
    BY <1>2, <2>1
  <2> QED  BY <1>1, <1>2, <2>2 DEF TypeOK
<1>4. phase = "forced"
  BY <1>1, <1>2 DEF TypeOK
<1>5. Agreement'
  BY <1>1, <1>2, <1>4 DEF Agreement, Serving
<1>6. OneHistory' /\ RunsAlike'
  <2>1. skipped' # {}
    BY <1>2
  <2> QED  BY <1>1, <2>1 DEF OneHistory, RunsAlike
<1> QED  BY <1>3, <1>5, <1>6 DEF IInv
-----------------------------------------------------------------------------
LEMMA InitInv == Init => IInv
<1> SUFFICES ASSUME Init PROVE IInv
  OBVIOUS
<1>1. TypeOK
  BY InitType
<1>2. /\ pc = "read" /\ shadow = primary /\ strayed = {}
      /\ accepted = <<>> /\ settled = 0 /\ skipped = {} /\ phase = "open"
  BY DEF Init, Worker!Init
<1>3. Agreement /\ RunsAlike
  BY <1>2 DEF Agreement, RunsAlike
<1>4. Expected = shadow /\ settled = Len(accepted)
  BY <1>2 DEF Expected
<1>5. OneHistory
  BY <1>2, <1>4 DEF OneHistory
<1> QED  BY <1>1, <1>3, <1>5 DEF IInv

LEMMA NextInv == IInv /\ [Next]_vars => IInv'
<1> SUFFICES ASSUME IInv, [Next]_vars PROVE IInv'
  OBVIOUS
<1>1. CASE HandlerStep
  BY <1>1, ReadCommandInv, HandlerIdleInv, SkipInv, FilteredInv, SendInv, DropInv,
     RespondInv, CloseInv DEF HandlerStep
<1>2. CASE WorkerStep
  BY <1>2, ProcessInv, ProcessErrorInv, AbandonInv DEF WorkerStep
<1>3. CASE UNCHANGED vars
  <2>1. UNCHANGED <<pc, cur, primary, shadow, accepted, settled, skipped, lost,
                    phase, count, logged, dropped, missed, strayed>>
    BY <1>3 DEF vars, worker
  <2>2. Expected' = Expected /\ Serving' = Serving
    BY <2>1 DEF Expected, Serving
  <2>3. OneHistory' /\ RunsAlike'
    BY <2>1, <2>2, SameRequests
  <2>4. TypeOK' /\ Agreement'
    BY <2>1, <2>2 DEF IInv, TypeOK, Agreement
  <2> QED  BY <2>3, <2>4 DEF IInv
<1> QED  BY <1>1, <1>2, <1>3 DEF Next, Ended

\* The inductive invariant holds in every behaviour of a mirrored session.
LEMMA Invariance == Spec => []IInv
BY InitInv, NextInv, PTL DEF Spec

\* The sessions, requests, counters and log entries stay well formed: ids the
\* servers give out included.
THEOREM TypeCorrect == Spec => []TypeOK
<1>1. IInv => TypeOK
  BY DEF IInv
<1> QED  BY <1>1, Invariance, PTL

\* No command runs on another database or statement on the shadow than on the
\* primary unless a USE was filtered, a command dropped, or one failed on one
\* side (the loop of proxyWithMirrorWorker feeding processRequest).
THEOREM RunAlike == Spec => []RunsAlike
<1>1. IInv => RunsAlike
  BY DEF IInv
<1> QED  BY <1>1, Invariance, PTL

\* Under the same provisos the shadow's session equals the primary's whenever
\* the worker has caught up.
THEOREM AgreeWhenCaughtUp == Spec => []SessionsAgree
<1>1. IInv => SessionsAgree
  BY DEF IInv, OneHistory, Agreement, Serving, Expected, SessionsAgree
<1> QED  BY <1>1, Invariance, PTL
-----------------------------------------------------------------------------
(* The counters and the log entries.                                       *)

InHand == pc \in {"write", "mirror", "answer"}

\* The ids that have come to the shadow's side: logged for it, dropped, or
\* waiting with the worker.
Waiting == settled + 1..Len(accepted)
WaitingIds == {accepted[i].id : i \in Waiting}
Handled == logged.shadow \cup DroppedIds \cup WaitingIds

\* The handler numbers its commands upwards and logs each for the primary when
\* it is done with it; an id comes to the shadow's side before that.
Numbered ==
  /\ cur = None => logged.primary = {}
  /\ cur # None => \A i \in logged.primary : i <= cur.id /\ (InHand => i < cur.id)
  /\ Handled \subseteq logged.primary \cup (IF pc = "answer" THEN {cur.id} ELSE {})

\* As long as no request is abandoned, what the primary's log has came to the
\* shadow's side, but for the command the loop ended with.
Answered ==
  skipped = {} =>
    /\ logged.primary \subseteq Handled \cup
         (IF pc \in {"closing", "ended"} /\ cur # None THEN {cur.id} ELSE {})
    /\ pc \in {"read", "answer"} /\ cur # None => cur.id \in Handled

\* Parity before the queue is empty: the queries still owed to the shadow, and
\* the one the handler has read and not handed over, are added to its side.
OthersDropped == {c \in dropped : ~isCountableCommand(c.kind)}
OwedQueries == {i \in Waiting : isCountableCommand(accepted[i].kind)}
Unsent == /\ cur # None /\ isCountableCommand(cur.kind)
          /\ cur.id \notin Handled

Balance ==
  skipped = {} =>
    count.primary + Cardinality(OthersDropped) =
      count.shadow + count.filtered + count.drops + Cardinality(OwedQueries)
      + (IF Unsent THEN 1 ELSE 0)

Books == Numbered /\ Answered /\ Balance /\ IsFiniteSet(dropped)

\* What the type invariant says of the counters and of the sets counted.
LEMMA BooksTypes ==
  ASSUME TypeOK, IsFiniteSet(dropped)
  PROVE  /\ IsFiniteSet(OthersDropped) /\ Cardinality(OthersDropped) \in Nat
         /\ IsFiniteSet(OwedQueries) /\ Cardinality(OwedQueries) \in Nat
         /\ count.primary \in Nat /\ count.shadow \in Nat
         /\ count.filtered \in Nat /\ count.drops \in Nat
         /\ logged.primary \subseteq Ids /\ logged.shadow \subseteq Ids
         /\ settled \in Nat /\ Len(accepted) \in Nat
<1>1. IsFiniteSet(OthersDropped)
  BY FS_Subset DEF OthersDropped
<1>2. settled \in Nat /\ Len(accepted) \in Nat
  BY DEF TypeOK
<1>3. IsFiniteSet(Waiting)
  BY <1>2, FS_Interval DEF Waiting
<1>4. IsFiniteSet(OwedQueries)
  BY <1>3, FS_Subset DEF OwedQueries
<1>5. Cardinality(OthersDropped) \in Nat /\ Cardinality(OwedQueries) \in Nat
  BY <1>1, <1>4, FS_CardinalityType
<1>6. /\ count.primary \in Nat /\ count.shadow \in Nat
      /\ count.filtered \in Nat /\ count.drops \in Nat
      /\ logged.primary \subseteq Ids /\ logged.shadow \subseteq Ids
  BY DEF TypeOK
<1> QED  BY <1>1, <1>2, <1>4, <1>5, <1>6

\* A step that neither hands over nor takes a request and logs nothing for the
\* shadow leaves its side as it is.
LEMMA SameSide ==
  ASSUME UNCHANGED <<accepted, settled, dropped>>, logged'.shadow = logged.shadow
  PROVE  /\ Handled' = Handled /\ OthersDropped' = OthersDropped
         /\ OwedQueries' = OwedQueries
<1>1. Waiting' = Waiting
  BY DEF Waiting
<1>2. DroppedIds' = DroppedIds
  BY DEF DroppedIds
<1>3. WaitingIds' = WaitingIds
  BY <1>1 DEF WaitingIds
<1>4. OthersDropped' = OthersDropped
  BY DEF OthersDropped
<1>5. OwedQueries' = OwedQueries
  BY <1>1 DEF OwedQueries
<1> QED  BY <1>2, <1>3, <1>4, <1>5 DEF Handled

LEMMA IncFacts ==
  ASSUME TypeOK, NEW f \in {"primary", "shadow", "filtered", "drops"}, Inc(f)
  PROVE  /\ count'[f] = count[f] + 1
         /\ \A g \in {"primary", "shadow", "filtered", "drops"} \ {f} :
              count'[g] = count[g]
BY DEF TypeOK, Inc

LEMMA EntryFacts ==
  ASSUME TypeOK, NEW i
  PROVE  /\ logged' = [logged EXCEPT !.primary = @ \cup {i}] =>
              /\ logged'.primary = logged.primary \cup {i}
              /\ logged'.shadow = logged.shadow
         /\ logged' = [logged EXCEPT !.shadow = @ \cup {i}] =>
              /\ logged'.shadow = logged.shadow \cup {i}
              /\ logged'.primary = logged.primary
BY DEF TypeOK

LEMMA ReadCommandBooks ==
  ASSUME IInv, Books, ReadCommand
  PROVE  Books'
<1>1. /\ pc = "read" /\ pc' = "write"
      /\ UNCHANGED <<accepted, settled, skipped, logged, dropped>>
      /\ cur'.id = NextId
  BY DEF ReadCommand, worker
<1>2. TypeOK /\ Agreement /\ TypeOK' /\ Agreement' /\ cur' \in Command /\ cur' # None
      /\ skipped = {}
  <2>1. IInv'
    BY ReadCommandInv
  <2>2. cur' \in Command
    BY <1>1, <2>1 DEF IInv, Agreement
  <2> QED  BY <1>1, <2>1, <2>2, NoCommandAssumption DEF IInv, Agreement, Serving
<1>3. Handled' = Handled /\ OthersDropped' = OthersDropped /\ OwedQueries' = OwedQueries
  BY <1>1, SameSide
<1>4. \A i \in logged.primary : i < cur'.id
  <2>1. logged.primary \subseteq Ids /\ (cur # None => cur.id \in Ids)
    BY <1>2 DEF TypeOK, Command
  <2> QED  BY <1>1, <2>1 DEF Books, Numbered, NextId, Ids
<1>5. Handled \subseteq logged.primary /\ cur'.id \notin Handled
  <2>1. Handled \subseteq logged.primary
    BY <1>1 DEF Books, Numbered
  <2>2. cur'.id \in Ids
    BY <1>2 DEF Command
  <2>3. logged.primary \subseteq Ids
    BY <1>2 DEF TypeOK
  <2> QED  BY <1>4, <2>1, <2>2, <2>3 DEF Ids
<1>6. Numbered'
  BY <1>1, <1>2, <1>3, <1>4, <1>5 DEF Numbered, TypeOK, Command, Ids
<1>7. Answered'
  BY <1>1, <1>3 DEF Books, Answered
<1>8. Balance'
  <2>1. ~Unsent
    BY <1>1, <1>2 DEF Books, Answered, Unsent
  <2>2. Unsent' <=> isCountableCommand(cur'.kind)
    BY <1>2, <1>3, <1>5 DEF Unsent
  <2>3. /\ count'.shadow = count.shadow /\ count'.filtered = count.filtered
        /\ count'.drops = count.drops
        /\ count'.primary = count.primary + IF isCountableCommand(cur'.kind) THEN 1 ELSE 0
    <3>1. CASE isCountableCommand(cur'.kind)
      <4>1. Inc("primary")
        BY <3>1 DEF ReadCommand
      <4> QED  BY <1>2, <3>1, <4>1, IncFacts
    <3>2. CASE ~isCountableCommand(cur'.kind)
      <4>1. count' = count
        BY <3>2 DEF ReadCommand
      <4>2. count.primary \in Nat
        BY <1>2, BooksTypes DEF Books
      <4> QED  BY <3>2, <4>1, <4>2
    <3> QED  BY <3>1, <3>2
  <2>4. /\ Cardinality(OthersDropped) \in Nat /\ Cardinality(OwedQueries) \in Nat
        /\ count.primary \in Nat /\ count.shadow \in Nat
        /\ count.filtered \in Nat /\ count.drops \in Nat
    BY <1>2, BooksTypes DEF Books
  <2>5. count.primary + Cardinality(OthersDropped) =
          count.shadow + count.filtered + count.drops + Cardinality(OwedQueries)
    BY <1>2, <2>1, <2>4 DEF Books, Balance
  <2> QED  BY <1>3, <2>2, <2>3, <2>4, <2>5 DEF Balance
<1> QED  BY <1>1, <1>6, <1>7, <1>8 DEF Books

\* The steps that do not touch the shadow's side: a command in hand is logged
\* for the primary when the handler is done with it, and only then.
LEMMA PrimarySideBooks ==
  ASSUME IInv, Books,
         UNCHANGED <<cur, count, accepted, settled, skipped, dropped>>,
         \/ /\ UNCHANGED logged
            /\ \/ pc = "write" /\ pc' = "mirror"
               \/ pc \in {"read", "closing"} /\ pc' \in {"closing", "ended"}
               \/ pc' = pc
         \/ /\ logPrimaryExecution
            /\ \/ InHand /\ pc' = "closing"
               \/ pc = "answer" /\ pc' = "read"
  PROVE  Books'
<1>1. TypeOK /\ Agreement
  BY DEF IInv
<1>2. logged'.shadow = logged.shadow
  BY <1>1, EntryFacts DEF logPrimaryExecution
<1>3. Handled' = Handled /\ OthersDropped' = OthersDropped /\ OwedQueries' = OwedQueries
  BY <1>2, SameSide
<1>4. Balance'
  BY <1>3 DEF Books, Balance, Unsent
<1>5. CASE /\ UNCHANGED logged
           /\ \/ pc = "write" /\ pc' = "mirror"
              \/ pc \in {"read", "closing"} /\ pc' \in {"closing", "ended"}
              \/ pc' = pc
  <2>1. Numbered'
    BY <1>3, <1>5 DEF Books, Numbered, InHand
  <2>2. Answered'
    BY <1>3, <1>5 DEF Books, Answered
  <2> QED  BY <1>4, <2>1, <2>2 DEF Books
<1>6. CASE logPrimaryExecution /\ InHand /\ pc' \in {"closing", "read"}
           /\ (pc' = "read" => pc = "answer")
  <2>1. /\ logged'.primary = logged.primary \cup {cur.id}
        /\ cur \in Command /\ cur # None /\ cur.id \in Nat /\ logged.primary \subseteq Nat
    BY <1>1, <1>6, EntryFacts, NoCommandAssumption
       DEF logPrimaryExecution, Agreement, InHand, Command, TypeOK, Ids
  <2>2. Numbered'
    BY <1>3, <1>6, <2>1 DEF Books, Numbered, InHand
  <2>3. Answered'
    BY <1>3, <1>6, <2>1 DEF Books, Answered, InHand
  <2> QED  BY <1>4, <2>2, <2>3 DEF Books
<1> QED  BY <1>5, <1>6 DEF InHand

\* Handing the command in hand over to the shadow's side, in whatever way.
LEMMA HandOver ==
  ASSUME IInv, Books, pc = "mirror", cur' = cur, skipped' = skipped,
         Handled' = Handled \cup {cur.id},
         \/ pc' = "answer" /\ logged'.primary = logged.primary
         \/ pc' = "read" /\ logged'.primary = logged.primary \cup {cur.id}
  PROVE  /\ Numbered' /\ Answered'
         /\ cur.id \notin Handled /\ skipped = {}
         /\ ~Unsent' /\ (Unsent <=> isCountableCommand(cur.kind))
<1>1. /\ cur \in Command /\ cur # None /\ cur.id \in Nat /\ logged.primary \subseteq Nat
      /\ skipped = {}
  BY NoCommandAssumption DEF IInv, Agreement, Command, TypeOK, Ids, Serving
<1>2. /\ \A i \in logged.primary : i < cur.id
      /\ Handled \subseteq logged.primary
  BY <1>1 DEF Books, Numbered, InHand
<1>3. cur.id \notin Handled
  BY <1>1, <1>2
<1>4. Numbered'
  BY <1>1, <1>2 DEF Numbered, InHand
<1>5. Answered'
  BY <1>1 DEF Books, Answered
<1> QED  BY <1>1, <1>3, <1>4, <1>5 DEF Unsent

\* The end of the loop body as HandOver needs it.
LEMMA NoResponseEntries ==
  ASSUME TypeOK, NoResponse, cur.kind # "quit"
  PROVE  /\ \/ pc' = "answer" /\ logged'.primary = logged.primary
            \/ pc' = "read" /\ logged'.primary = logged.primary \cup {cur.id}
         /\ logged'.shadow = logged.shadow
BY EntryFacts DEF NoResponse, logPrimaryExecution

LEMMA FilteredBooks ==
  ASSUME IInv, Books, Filtered
  PROVE  Books'
<1>1. /\ pc = "mirror" /\ pc' = "answer" /\ cur.kind \in {"query", "use"}
      /\ Inc("filtered") /\ logFilteredShadow
      /\ UNCHANGED <<cur, accepted, settled, skipped, dropped>>
  BY DEF Filtered, Filterable, worker
<1>2. TypeOK
  BY DEF IInv
<1>3. logged'.primary = logged.primary /\ logged'.shadow = logged.shadow \cup {cur.id}
  BY <1>1, <1>2, EntryFacts DEF logFilteredShadow
<1>4. /\ Handled' = Handled \cup {cur.id}
      /\ OthersDropped' = OthersDropped /\ OwedQueries' = OwedQueries
  BY <1>1, <1>3 DEF Handled, DroppedIds, WaitingIds, Waiting, OthersDropped, OwedQueries
<1>5. /\ Numbered' /\ Answered' /\ skipped = {}
      /\ ~Unsent' /\ (Unsent <=> isCountableCommand(cur.kind))
  BY <1>1, <1>3, <1>4, HandOver
<1>6. isCountableCommand(cur.kind)
  BY <1>1 DEF isCountableCommand
<1>7. /\ count'.filtered = count.filtered + 1 /\ count'.primary = count.primary
      /\ count'.shadow = count.shadow /\ count'.drops = count.drops
  BY <1>1, <1>2, IncFacts
<1>8. Balance'
  <2>1. /\ Cardinality(OthersDropped) \in Nat /\ Cardinality(OwedQueries) \in Nat
        /\ count.primary \in Nat /\ count.shadow \in Nat
        /\ count.filtered \in Nat /\ count.drops \in Nat
    BY <1>2, BooksTypes DEF Books
  <2>2. count.primary + Cardinality(OthersDropped) =
          count.shadow + count.filtered + count.drops + Cardinality(OwedQueries) + 1
    BY <1>5, <1>6 DEF Books, Balance
  <2> QED  BY <1>4, <1>5, <1>7, <2>1, <2>2 DEF Balance
<1> QED  BY <1>1, <1>5, <1>8 DEF Books

LEMMA DropBooks ==
  ASSUME IInv, Books, Drop
  PROVE  Books'
<1>1. /\ pc = "mirror" /\ cur.kind # "quit" /\ NoResponse /\ Inc("drops")
      /\ dropped' = dropped \cup {cur}
      /\ UNCHANGED <<cur, accepted, settled, skipped>>
  BY DEF Drop, CountDrop, NotMirrored, worker
<1>2. TypeOK
  BY DEF IInv
<1>3. /\ \/ pc' = "answer" /\ logged'.primary = logged.primary
         \/ pc' = "read" /\ logged'.primary = logged.primary \cup {cur.id}
      /\ logged'.shadow = logged.shadow
  BY <1>1, <1>2, NoResponseEntries
<1>4. DroppedIds' = DroppedIds \cup {cur.id}
  BY <1>1 DEF DroppedIds
<1>5. Handled' = Handled \cup {cur.id} /\ OwedQueries' = OwedQueries
  BY <1>1, <1>3, <1>4 DEF Handled, WaitingIds, Waiting, OwedQueries
<1>6. /\ Numbered' /\ Answered' /\ skipped = {} /\ cur.id \notin Handled
      /\ ~Unsent' /\ (Unsent <=> isCountableCommand(cur.kind))
  BY <1>1, <1>3, <1>5, HandOver
<1>7. cur \notin dropped
  BY <1>6 DEF Handled, DroppedIds
<1>8. IsFiniteSet(dropped')
  BY <1>1, FS_AddElement DEF Books
<1>9. Cardinality(OthersDropped') = Cardinality(OthersDropped)
                                    + IF isCountableCommand(cur.kind) THEN 0 ELSE 1
  <2>1. IsFiniteSet(OthersDropped) /\ Cardinality(OthersDropped) \in Nat
    BY <1>2, BooksTypes DEF Books
  <2>2. CASE isCountableCommand(cur.kind)
    <3>1. OthersDropped' = OthersDropped
      BY <1>1, <2>2 DEF OthersDropped
    <3> QED  BY <2>1, <2>2, <3>1
  <2>3. CASE ~isCountableCommand(cur.kind)
    <3>1. OthersDropped' = OthersDropped \cup {cur} /\ cur \notin OthersDropped
      BY <1>1, <1>7, <2>3 DEF OthersDropped
    <3> QED  BY <2>1, <2>3, <3>1, FS_AddElement
  <2> QED  BY <2>2, <2>3
<1>10. /\ count'.drops = count.drops + 1 /\ count'.primary = count.primary
       /\ count'.shadow = count.shadow /\ count'.filtered = count.filtered
  BY <1>1, <1>2, IncFacts
<1>11. Balance'
  <2>1. /\ Cardinality(OthersDropped) \in Nat /\ Cardinality(OwedQueries) \in Nat
        /\ count.primary \in Nat /\ count.shadow \in Nat
        /\ count.filtered \in Nat /\ count.drops \in Nat
    BY <1>2, BooksTypes DEF Books
  <2>2. count.primary + Cardinality(OthersDropped) =
          count.shadow + count.filtered + count.drops + Cardinality(OwedQueries)
          + (IF isCountableCommand(cur.kind) THEN 1 ELSE 0)
    BY <1>6 DEF Books, Balance
  <2> QED  BY <1>5, <1>6, <1>9, <1>10, <2>1, <2>2 DEF Balance
<1> QED  BY <1>6, <1>8, <1>11 DEF Books

LEMMA SendBooks ==
  ASSUME IInv, Books, Send
  PROVE  Books'
<1> DEFINE n == Len(accepted)
<1>1. /\ pc = "mirror" /\ cur.kind # "quit" /\ NoResponse
      /\ accepted' = Append(accepted, cur)
      /\ UNCHANGED <<cur, settled, skipped, count, dropped>>
  BY DEF Send, Worker!Accept, NotMirrored
<1>2. TypeOK
  BY DEF IInv
<1>3. /\ \/ pc' = "answer" /\ logged'.primary = logged.primary
         \/ pc' = "read" /\ logged'.primary = logged.primary \cup {cur.id}
      /\ logged'.shadow = logged.shadow
  BY <1>1, <1>2, NoResponseEntries
<1>4. /\ accepted \in Seq(Command) /\ n \in Nat /\ settled \in 0..n
      /\ cur \in Command /\ Len(accepted') = n + 1
      /\ \A i \in 1..n : accepted'[i] = accepted[i]
      /\ accepted'[n + 1] = cur
  <2>1. cur \in Command
    BY <1>1 DEF IInv, Agreement
  <2>2. accepted \in Seq(Command) /\ settled \in 0..n
    BY <1>2 DEF TypeOK
  <2> QED  BY <1>1, <2>1, <2>2
<1> HIDE DEF n
<1>5. /\ Waiting = settled + 1..n /\ Waiting' = Waiting \cup {n + 1}
      /\ n + 1 \notin Waiting
      /\ \A i \in Waiting : accepted'[i] = accepted[i]
  BY <1>1, <1>4 DEF Waiting, n
<1>6. WaitingIds' = WaitingIds \cup {cur.id}
  BY <1>4, <1>5 DEF WaitingIds
<1>7. Handled' = Handled \cup {cur.id} /\ OthersDropped' = OthersDropped
  BY <1>1, <1>3, <1>6 DEF Handled, DroppedIds, OthersDropped
<1>8. /\ Numbered' /\ Answered' /\ skipped = {}
      /\ ~Unsent' /\ (Unsent <=> isCountableCommand(cur.kind))
  BY <1>1, <1>3, <1>7, HandOver
<1>9. Cardinality(OwedQueries') = Cardinality(OwedQueries)
                                  + IF isCountableCommand(cur.kind) THEN 1 ELSE 0
  <2>1. IsFiniteSet(OwedQueries) /\ Cardinality(OwedQueries) \in Nat
    BY <1>2, BooksTypes DEF Books
  <2>2. CASE isCountableCommand(cur.kind)
    <3>1. OwedQueries' = OwedQueries \cup {n + 1} /\ n + 1 \notin OwedQueries
      BY <1>4, <1>5, <2>2 DEF OwedQueries
    <3> QED  BY <2>1, <2>2, <3>1, FS_AddElement
  <2>3. CASE ~isCountableCommand(cur.kind)
    <3>1. OwedQueries' = OwedQueries
      BY <1>4, <1>5, <2>3 DEF OwedQueries
    <3> QED  BY <2>1, <2>3, <3>1
  <2> QED  BY <2>2, <2>3
<1>10. Balance'
  <2>1. /\ Cardinality(OthersDropped) \in Nat /\ Cardinality(OwedQueries) \in Nat
        /\ count.primary \in Nat /\ count.shadow \in Nat
        /\ count.filtered \in Nat /\ count.drops \in Nat
    BY <1>2, BooksTypes DEF Books
  <2>2. count.primary + Cardinality(OthersDropped) =
          count.shadow + count.filtered + count.drops + Cardinality(OwedQueries)
          + (IF isCountableCommand(cur.kind) THEN 1 ELSE 0)
    BY <1>8 DEF Books, Balance
  <2>3. count' = count
    BY <1>1
  <2> QED  BY <1>7, <1>8, <1>9, <2>1, <2>2, <2>3 DEF Balance
<1> QED  BY <1>1, <1>8, <1>10 DEF Books

\* processRequest takes the oldest request from the queue and logs it for the
\* shadow, so what has come to the shadow's side stays the same.
LEMMA AttemptBooks ==
  ASSUME IInv, Books, Process \/ ProcessError
  PROVE  Books'
<1> DEFINE n == Len(accepted)
<1>1. /\ UNCHANGED <<pc, cur, dropped>>
      /\ Attempt /\ CountShadow /\ logQueryExecution
  BY DEF Process, ProcessError
<1>2. TypeOK
  BY DEF IInv
<1>3. /\ skipped = {} /\ settled < n /\ settled' = settled + 1
      /\ UNCHANGED <<accepted, skipped>>
      /\ settled \in Nat /\ n \in Nat
  BY <1>1, <1>2, AttemptFacts
<1>4. logged'.primary = logged.primary /\ logged'.shadow = logged.shadow \cup {Oldest.id}
  BY <1>1, <1>2, EntryFacts DEF logQueryExecution
<1>5. /\ Waiting = settled + 1..n /\ Waiting = Waiting' \cup {settled + 1}
      /\ settled + 1 \notin Waiting'
      /\ Oldest = accepted[settled + 1]
  BY <1>3 DEF Waiting, Oldest
<1> HIDE DEF n
<1>6. WaitingIds = WaitingIds' \cup {Oldest.id}
  BY <1>3, <1>5 DEF WaitingIds
<1>7. Handled' = Handled /\ OthersDropped' = OthersDropped
  BY <1>1, <1>4, <1>6 DEF Handled, DroppedIds, OthersDropped
<1>8. Numbered' /\ Answered' /\ (Unsent' <=> Unsent)
  BY <1>1, <1>3, <1>4, <1>7 DEF Books, Numbered, Answered, Unsent, InHand
<1>9. /\ count'.primary = count.primary /\ count'.filtered = count.filtered
      /\ count'.drops = count.drops
      /\ count'.shadow = count.shadow + IF isCountableCommand(Oldest.kind) THEN 1 ELSE 0
  <2>1. CASE isCountableCommand(Oldest.kind)
    BY <1>1, <1>2, <2>1, IncFacts DEF CountShadow
  <2>2. CASE ~isCountableCommand(Oldest.kind)
    BY <1>1, <1>2, <2>2 DEF CountShadow, TypeOK
  <2> QED  BY <2>1, <2>2
<1>10. /\ Cardinality(OwedQueries) = Cardinality(OwedQueries')
                                     + IF isCountableCommand(Oldest.kind) THEN 1 ELSE 0
       /\ Cardinality(OwedQueries') \in Nat
  <2>1. IsFiniteSet(OwedQueries) /\ OwedQueries' \subseteq OwedQueries
    BY <1>2, <1>3, <1>5, BooksTypes DEF Books, OwedQueries
  <2>2. IsFiniteSet(OwedQueries') /\ Cardinality(OwedQueries') \in Nat
    BY <2>1, FS_Subset, FS_CardinalityType
  <2>3. CASE isCountableCommand(Oldest.kind)
    <3>1. /\ OwedQueries = OwedQueries' \cup {settled + 1}
          /\ settled + 1 \notin OwedQueries'
      BY <1>3, <1>5, <2>3 DEF OwedQueries
    <3> QED  BY <2>2, <2>3, <3>1, FS_AddElement
  <2>4. CASE ~isCountableCommand(Oldest.kind)
    <3>1. OwedQueries' = OwedQueries
      BY <1>3, <1>5, <2>4 DEF OwedQueries
    <3> QED  BY <2>2, <2>4, <3>1
  <2> QED  BY <2>2, <2>3, <2>4
<1>11. Balance'
  <2>1. /\ Cardinality(OthersDropped) \in Nat /\ Cardinality(OwedQueries) \in Nat
        /\ count.primary \in Nat /\ count.shadow \in Nat
        /\ count.filtered \in Nat /\ count.drops \in Nat
    BY <1>2, BooksTypes DEF Books
  <2>2. count.primary + Cardinality(OthersDropped) =
          count.shadow + count.filtered + count.drops + Cardinality(OwedQueries)
          + (IF Unsent THEN 1 ELSE 0)
    BY <1>3 DEF Books, Balance
  <2> QED  BY <1>7, <1>8, <1>9, <1>10, <2>1, <2>2 DEF Balance
<1> QED  BY <1>1, <1>8, <1>11 DEF Books

\* After a forced close a request may leave the queue without an entry.
LEMMA AbandonBooks ==
  ASSUME IInv, Books, Abandon
  PROVE  Books'
<1>1. /\ UNCHANGED <<pc, cur, logged, dropped, accepted>>
      /\ settled' = settled + 1 /\ skipped' = skipped \cup {settled + 1}
  BY DEF Abandon, Worker!Skip
<1>2. settled \in Nat /\ Len(accepted) \in Nat
  BY DEF IInv, TypeOK
<1>3. Waiting' \subseteq Waiting
  BY <1>1, <1>2 DEF Waiting
<1>4. Handled' \subseteq Handled
  BY <1>1, <1>3 DEF Handled, DroppedIds, WaitingIds
<1>5. Numbered'
  BY <1>1, <1>4 DEF Books, Numbered, InHand
<1> QED  BY <1>1, <1>5 DEF Books, Answered, Balance

LEMMA InitBooks == Init => Books
<1> SUFFICES ASSUME Init PROVE Books
  OBVIOUS
<1>1. /\ cur = None /\ accepted = <<>> /\ settled = 0 /\ skipped = {}
      /\ count = [primary |-> 0, shadow |-> 0, filtered |-> 0, drops |-> 0]
      /\ logged = [primary |-> {}, shadow |-> {}] /\ dropped = {} /\ pc = "read"
  BY DEF Init, Worker!Init
<1>2. Waiting = {}
  BY <1>1 DEF Waiting
<1>3. Handled = {} /\ OthersDropped = {} /\ OwedQueries = {}
  BY <1>1, <1>2 DEF Handled, DroppedIds, WaitingIds, OthersDropped, OwedQueries
<1>4. Numbered /\ Answered
  BY <1>1, <1>3 DEF Numbered, Answered
<1>5. Balance
  BY <1>1, <1>3, FS_EmptySet DEF Balance, Unsent
<1> QED  BY <1>1, <1>4, <1>5, FS_EmptySet DEF Books

LEMMA NextBooks == IInv /\ Books /\ [Next]_vars => Books'
<1> SUFFICES ASSUME IInv, Books, [Next]_vars PROVE Books'
  OBVIOUS
<1>1. CASE WritePrimary \/ WriteError \/ Respond \/ RespondError \/ ClientGone
  BY <1>1, PrimarySideBooks DEF WritePrimary, WriteError, Respond, RespondError,
     ClientGone, worker, InHand
<1>2. CASE Skip
  <2>1. pc = "mirror" /\ pc' = "closing" /\ logPrimaryExecution
    BY <1>2 DEF Skip, NotMirrored, NoResponse, isNoResponseCommand
  <2> QED  BY <1>2, <2>1, PrimarySideBooks DEF Skip, worker, InHand
<1>3. CASE Close
  BY <1>3, PrimarySideBooks DEF Close, CloseDrains, CloseForces, CloseReturns,
     Worker!Drain, Worker!Force, Worker!Close
<1>4. CASE UNCHANGED vars
  BY <1>4, PrimarySideBooks DEF vars, worker
<1>5. CASE HandlerStep
  BY <1>1, <1>2, <1>3, <1>5, ReadCommandBooks, FilteredBooks, SendBooks, DropBooks
     DEF HandlerStep
<1>6. CASE WorkerStep
  BY <1>6, AttemptBooks, AbandonBooks DEF WorkerStep
<1> QED  BY <1>4, <1>5, <1>6 DEF Next, Ended

LEMMA BooksInvariance == Spec => []Books
<1>1. Init => IInv /\ Books
  BY InitInv, InitBooks
<1>2. IInv /\ Books /\ [Next]_vars => (IInv /\ Books)'
  BY NextInv, NextBooks
<1> QED  BY <1>1, <1>2, PTL DEF Spec

\* Once everything accepted is settled nothing waits.
LEMMA DrainedSide ==
  ASSUME TypeOK, settled = Len(accepted)
  PROVE  Handled = logged.shadow \cup DroppedIds /\ OwedQueries = {}
<1>1. Waiting = {}
  BY DEF Waiting, TypeOK
<1> QED  BY <1>1 DEF Handled, WaitingIds, OwedQueries

\* When a session has ended and no request was abandoned, every command with an
\* entry for the primary has one for the shadow, unless Send dropped it or it
\* was the last, and no entry for the shadow is without one for the primary
\* (logPrimaryExecution, logFilteredShadow, logQueryExecution).
THEOREM LogsPaired == Spec => []EntriesPaired
<1>1. IInv /\ Books => EntriesPaired
  <2> SUFFICES ASSUME IInv, Books, Drained, cur # None
               PROVE  /\ logged.primary \subseteq
                           logged.shadow \cup DroppedIds \cup {cur.id}
                      /\ logged.shadow \subseteq logged.primary
    BY DEF EntriesPaired
  <2>1. pc = "ended" /\ skipped = {} /\ Handled = logged.shadow \cup DroppedIds
    BY DrainedSide DEF Drained, IInv
  <2> QED  BY <2>1 DEF Books, Numbered, Answered
<1> QED  BY <1>1, Invariance, BooksInvariance, PTL

\* The counters of a session that ended without abandoning a request agree as
\* docs/usage-patterns.md says, but for the drops of commands that are no
\* queries and for a query the primary did not take: for any queue size and any
\* interleaving of the handler with the worker.
THEOREM CountersAgree == Spec => []Parity
<1>1. IInv /\ Books => Parity
  <2> SUFFICES ASSUME IInv, Books, Drained, cur # None
               PROVE  count.primary + Cardinality(OthersDropped) =
                        count.shadow + count.filtered + count.drops
                        + IF /\ isCountableCommand(cur.kind)
                             /\ cur.id \notin logged.shadow \cup DroppedIds
                            THEN 1 ELSE 0
    BY DEF Parity, OthersDropped
  <2>1. TypeOK /\ skipped = {} /\ settled = Len(accepted)
    BY DEF Drained, IInv
  <2>2. Handled = logged.shadow \cup DroppedIds /\ Cardinality(OwedQueries) = 0
    BY <2>1, DrainedSide, FS_EmptySet
  <2>3. /\ count.shadow \in Nat /\ count.filtered \in Nat /\ count.drops \in Nat
    BY <2>1, BooksTypes DEF Books
  <2>4. Unsent <=> /\ isCountableCommand(cur.kind)
                   /\ cur.id \notin logged.shadow \cup DroppedIds
    BY <2>2 DEF Unsent
  <2> QED  BY <2>1, <2>2, <2>3, <2>4 DEF Books, Balance
<1> QED  BY <1>1, Invariance, BooksInvariance, PTL

\* The composition uses the worker only as ShadowMirror allows: whatever the
\* loop and its deferred Close do, the worker's part of a session is a
\* behaviour of what the worker promises.
THEOREM WorkerAsPromised == Spec => Worker!Spec
<1>1. Init => Worker!Init
  BY DEF Init
<1>2. IInv /\ [Next]_vars => [Worker!Next]_(Worker!vars)
  <2> SUFFICES ASSUME IInv, [Next]_vars PROVE [Worker!Next]_(Worker!vars)
    OBVIOUS
  <2>1. CASE Send
    <3>1. cur \in Command /\ Worker!Accept(cur)
      BY <2>1 DEF Send, IInv, Agreement
    <3> QED  BY <3>1 DEF Worker!Next
  <2>2. CASE Close
    BY <2>2 DEF Close, CloseDrains, CloseForces, CloseReturns, Worker!Next
  <2>3. CASE WorkerStep
    BY <2>3 DEF WorkerStep, Process, ProcessError, Attempt, Abandon, Worker!Next
  <2>4. ASSUME UNCHANGED worker PROVE UNCHANGED Worker!vars
    BY <2>4 DEF worker, Worker!vars
  <2>5. CASE \/ ReadCommand \/ WritePrimary \/ WriteError \/ Skip \/ Filtered
             \/ Drop \/ Respond \/ RespondError \/ ClientGone \/ UNCHANGED vars
    BY <2>4, <2>5 DEF ReadCommand, WritePrimary, WriteError, Skip, Filtered, Drop,
       Respond, RespondError, ClientGone, vars
  <2> QED  BY <2>1, <2>2, <2>3, <2>5 DEF Next, HandlerStep, Ended
<1> QED  BY <1>1, <1>2, Invariance, PTL DEF Spec, Worker!Spec
=============================================================================
