-------------------------- MODULE MirroredSession ---------------------------
(***************************************************************************)
(* Two MySQL sessions, the primary's and the shadow's, driven by one       *)
(* client: the loop of proxyWithMirrorWorker (proxy.go) composed with what *)
(* a worker promises (ShadowMirror).  A session is what later commands     *)
(* depend on: the current database and the prepared statements, which the  *)
(* client names by the ids the primary gave out.                           *)
(***************************************************************************)
EXTENDS Naturals, Sequences, FiniteSets

CONSTANTS
  Databases,      \* names of databases
  Texts,          \* texts of statements
  QueueSize,      \* ShadowQueueSize
  MaxCommands,    \* bound: how many commands the client sends
  None            \* no statement, no argument, no command

ASSUME MirroredAssumption ==
  /\ Databases # {}
  /\ QueueSize \in Nat /\ MaxCommands \in Nat

VARIABLES
  pc,             \* where the handler is, see HandlerPc
  cur,            \* the command it serves
  primary,        \* the session on the primary
  shadow,         \* the session on the shadow
  accepted, settled, skipped, lost, phase,      \* the worker, see ShadowMirror
  count,          \* the counters of metrics.go that parity is about
  logged,         \* ids with an entry for the target "primary" or "shadow"
  dropped,        \* history: the commands Send did not take
  missed,         \* history: why the shadow's session may differ
  strayed         \* history: ids that ran on something else on the shadow

worker == <<accepted, settled, skipped, lost, phase>>
vars == <<pc, cur, primary, shadow, worker, count, logged, dropped, missed,
          strayed>>

Ids == 1..MaxCommands
HandlerPc == {"read", "write", "mirror", "answer", "closing", "ended"}

Statement == [text : Texts, db : Databases, data : BOOLEAN]
Session == [db : Databases, issued : Nat, stmts : [Ids -> {None} \cup Statement]]

\* "query" and "use" are COM_QUERY; "data" is COM_STMT_SEND_LONG_DATA.  ok says
\* whether the primary will carry the command out; before is its session then.
Kinds == {"query", "use", "initdb", "prepare", "data", "execute", "close",
          "quit"}
Names(kind) ==
  CASE kind \in {"use", "initdb"} -> Databases
    [] kind = "prepare" -> Texts
    [] kind \in {"data", "execute", "close"} -> Ids
    [] OTHER -> {None}
Command ==
  {c \in [id : Ids, kind : Kinds, arg : Databases \cup Texts \cup Ids \cup {None},
          ok : BOOLEAN, before : Session] : c.arg \in Names(c.kind)}

\* "No command" is not a command.
ASSUME NoCommandAssumption == None \notin Command

Worker == INSTANCE ShadowMirror WITH Request <- Command

Init ==
  /\ pc = "read" /\ cur = None
  /\ \E d \in Databases :
       primary = [db |-> d, issued |-> 0, stmts |-> [i \in Ids |-> None]]
  /\ shadow = primary
  /\ Worker!Init
  /\ count = [primary |-> 0, shadow |-> 0, filtered |-> 0, drops |-> 0]
  /\ logged = [primary |-> {}, shadow |-> {}]
  /\ dropped = {} /\ missed = {} /\ strayed = {}
-----------------------------------------------------------------------------
(* What a server does with a command.                                      *)

\* What the command runs on.
Target(s, c) ==
  IF c.kind \in {"execute", "data", "close"} THEN s.stmts[c.arg] ELSE s.db

\* The session after it.  Ids are given out in order; executing a statement
\* uses up the parameter data sent for it.
After(s, c) ==
  CASE c.kind \in {"use", "initdb"} -> [s EXCEPT !.db = c.arg]
    [] c.kind = "prepare" ->
         [s EXCEPT !.issued = @ + 1,
                   !.stmts[s.issued + 1] =
                     [text |-> c.arg, db |-> s.db, data |-> FALSE]]
    [] c.kind \in {"data", "execute"} /\ s.stmts[c.arg] # None ->
         [s EXCEPT !.stmts[c.arg].data = (c.kind = "data")]
    [] c.kind = "close" -> [s EXCEPT !.stmts[c.arg] = None]
    [] OTHER -> s

Outcome(s, c, ok) == IF ok THEN After(s, c) ELSE s
-----------------------------------------------------------------------------
(* The handler.                                                            *)

\* A client names the statements the primary has open for it.
Arguments(kind) ==
  {a \in Names(kind) :
     kind \in {"data", "execute", "close"} => primary.stmts[a] # None}

isCountableCommand(kind) == kind \in {"query", "use", "prepare", "execute"}
isNoResponseCommand(kind) == kind \in {"data", "close", "quit"}

Inc(field) == count' = [count EXCEPT ![field] = @ + 1]

NextId == IF cur = None THEN 1 ELSE cur.id + 1

\* The client sends a command and the handler reads and counts it.
ReadCommand ==
  /\ pc = "read"
  /\ NextId \in Ids
  /\ \E kind \in Kinds, ok \in BOOLEAN : \E a \in Arguments(kind) :
       cur' = [id |-> NextId, kind |-> kind, arg |-> a, ok |-> ok,
               before |-> primary]
  /\ IF isCountableCommand(cur'.kind) THEN Inc("primary") ELSE UNCHANGED count
  /\ pc' = "write"
  /\ UNCHANGED <<primary, shadow, worker, logged, dropped, missed, strayed>>

logPrimaryExecution ==
  logged' = [logged EXCEPT !.primary = @ \cup {cur.id}]

WritePrimary ==
  /\ pc = "write"
  /\ pc' = "mirror"
  /\ UNCHANGED <<cur, primary, shadow, worker, count, logged, dropped, missed,
                 strayed>>

WriteError ==
  /\ pc = "write"
  /\ pc' = "closing"
  /\ logPrimaryExecution
  /\ UNCHANGED <<cur, primary, shadow, worker, count, dropped, missed, strayed>>

\* Mutant: commands the shadow sends no response to are not mirrored.
SkipNoResponse(kind) == isNoResponseCommand(kind)

\* COM_QUIT would end the shadow's session before its queue is empty.
NotMirrored(kind) == kind = "quit"

\* Mutant: the filter applies to every command.
AnyFilterable(kind) == TRUE

\* Allow rejects only COM_QUERY, by its operation, its text or by sampling.
Filterable(kind) == kind \in {"query", "use"}

\* A change of the primary's session that the shadow will not see.
Miss(why, possible) ==
  missed' = IF possible /\ cur.ok /\ After(cur.before, cur) # cur.before
              THEN missed \cup {why} ELSE missed

Pending == Len(accepted) - settled

\* Mutant: what Send does not take is not counted.
UncountedDrop == UNCHANGED count

CountDrop == Inc("drops")

\* A command without a response is logged at once; the primary, which has it,
\* carries it out.
NoResponse ==
  IF isNoResponseCommand(cur.kind)
    THEN /\ primary' = Outcome(primary, cur, cur.ok)
         /\ logPrimaryExecution
         /\ pc' = IF cur.kind = "quit" THEN "closing" ELSE "read"
    ELSE /\ UNCHANGED <<primary, logged>>
         /\ pc' = "answer"

Skip ==
  /\ pc = "mirror" /\ NotMirrored(cur.kind)
  /\ NoResponse
  /\ UNCHANGED <<cur, shadow, worker, count, dropped, missed, strayed>>

\* Mutant: what is filtered is only counted.
SkipFilteredLog == UNCHANGED logged

logFilteredShadow == logged' = [logged EXCEPT !.shadow = @ \cup {cur.id}]

Filtered ==
  /\ pc = "mirror" /\ ~NotMirrored(cur.kind)
  /\ Filterable(cur.kind)
  /\ Inc("filtered")
  /\ logFilteredShadow
  /\ Miss("filtered", cur.kind = "use")
  /\ pc' = "answer"
  /\ UNCHANGED <<cur, primary, shadow, worker, dropped, strayed>>

\* The queue has room: at most QueueSize requests in it, one with the worker.
Send ==
  /\ pc = "mirror" /\ ~NotMirrored(cur.kind)
  /\ Pending <= QueueSize
  /\ Worker!Accept(cur)
  /\ NoResponse
  /\ UNCHANGED <<cur, shadow, count, dropped, missed, strayed>>

Drop ==
  /\ pc = "mirror" /\ ~NotMirrored(cur.kind)
  /\ Pending >= QueueSize
  /\ CountDrop
  /\ dropped' = dropped \cup {cur}
  /\ Miss("dropped", TRUE)
  /\ NoResponse
  /\ UNCHANGED <<cur, shadow, worker, strayed>>

\* The primary carries the command out and its response is forwarded.
Respond ==
  /\ pc = "answer"
  /\ primary' = Outcome(primary, cur, cur.ok)
  /\ logPrimaryExecution
  /\ pc' = "read"
  /\ UNCHANGED <<cur, shadow, worker, count, dropped, missed, strayed>>

\* The response does not come or cannot be forwarded.
RespondError ==
  /\ pc = "answer"
  /\ logPrimaryExecution
  /\ pc' = "closing"
  /\ UNCHANGED <<cur, primary, shadow, worker, count, dropped, missed, strayed>>

ClientGone ==
  /\ pc = "read"
  /\ pc' = "closing"
  /\ UNCHANGED <<cur, primary, shadow, worker, count, logged, dropped, missed,
                 strayed>>

\* The deferred Close of the worker: drain, force after the timeout, wait.
CloseDrains == pc = "closing" /\ Worker!Drain
CloseForces == pc = "closing" /\ Worker!Force
CloseReturns == pc = "closing" /\ Worker!Close

Close ==
  /\ CloseDrains \/ CloseForces \/ CloseReturns
  /\ pc' = IF phase' = "closed" THEN "ended" ELSE pc
  /\ UNCHANGED <<cur, primary, shadow, count, logged, dropped, missed, strayed>>
-----------------------------------------------------------------------------
(* The worker.                                                             *)

Oldest == accepted[settled + 1]

\* The MySQL worker tries every request, whatever happened to the last one.
Attempt == Worker!Attempt /\ lost' = FALSE

\* processRequest up to the result: it counts and logs on every path.
CountShadow == IF isCountableCommand(Oldest.kind) THEN Inc("shadow")
                                                  ELSE UNCHANGED count
logQueryExecution == logged' = [logged EXCEPT !.shadow = @ \cup {Oldest.id}]

\* The shadow carries it out, with a success or an error of its own; if the
\* worker stops waiting for the response the shadow still does.
Process ==
  /\ Attempt
  /\ CountShadow
  /\ logQueryExecution
  /\ \E ok \in BOOLEAN :
       /\ shadow' = Outcome(shadow, Oldest, ok)
       /\ missed' = IF ok # Oldest.ok THEN missed \cup {"failed"} ELSE missed
  /\ strayed' = IF Target(shadow, Oldest) # Target(Oldest.before, Oldest)
                  THEN strayed \cup {Oldest.id} ELSE strayed
  /\ UNCHANGED <<pc, cur, primary, dropped>>

\* The write fails: the shadow's connection is broken.
ProcessError ==
  /\ Attempt
  /\ CountShadow
  /\ logQueryExecution
  /\ missed' = missed \cup {"failed"}
  /\ UNCHANGED <<pc, cur, primary, shadow, dropped, strayed>>

\* After a forced close the rest of the queue is abandoned.
Abandon ==
  /\ Worker!Skip
  /\ UNCHANGED <<pc, cur, primary, shadow, count, logged, dropped, missed,
                 strayed>>
-----------------------------------------------------------------------------
HandlerStep ==
  \/ ReadCommand \/ WritePrimary \/ WriteError
  \/ Skip \/ Filtered \/ Send \/ Drop
  \/ Respond \/ RespondError \/ ClientGone \/ Close

WorkerStep == Process \/ ProcessError \/ Abandon

Ended == pc = "ended" /\ UNCHANGED vars

Next == HandlerStep \/ WorkerStep \/ Ended

Spec == Init /\ [][Next]_vars
-----------------------------------------------------------------------------
\* Types; the worker never gives up on its backend.
TypeOK ==
  /\ pc \in HandlerPc
  /\ cur = None \/ cur \in Command
  /\ primary \in Session /\ shadow \in Session
  /\ accepted \in Seq(Command)
  /\ settled \in 0..Len(accepted)
  /\ skipped \subseteq 1..Len(accepted)
  /\ lost = FALSE
  /\ phase \in {"open", "draining", "forced", "closed"}
  /\ count \in [{"primary", "shadow", "filtered", "drops"} -> Nat]
  /\ logged \in [{"primary", "shadow"} -> SUBSET Ids]
  /\ dropped \subseteq Command
  /\ missed \subseteq {"filtered", "dropped", "failed"}
  /\ strayed \subseteq Ids

\* "Other MySQL commands ... are always forwarded to keep the shadow session
\* synchronized" (README, Shadow Query Filtering): a command runs on another
\* database or another statement on the shadow only after a USE was filtered
\* out, a command dropped by a full queue, or one failed on one side only.
RunsAlike == strayed # {} => missed # {}

\* Once the worker has caught up the two sessions are the same, statements
\* closed and parameters sent included, under the same provisos.
SessionsAgree ==
  pc = "read" /\ settled = Len(accepted) /\ missed = {} => shadow = primary

\* A session ended without abandoning any request.
Drained == pc = "ended" /\ settled = Len(accepted) /\ skipped = {}

DroppedIds == {c.id : c \in dropped}

\* "primary queries = shadow queries + filtered queries + queue drops"
\* (docs/usage-patterns.md), once a session has ended without a forced close.
\* The formula corrects for two cases: Send also counts drops of commands that
\* are no queries, and a query the primary did not take was not mirrored.
Parity ==
  Drained /\ cur # None =>
    LET others == Cardinality({c \in dropped : ~isCountableCommand(c.kind)})
        unsent == /\ isCountableCommand(cur.kind)
                  /\ cur.id \notin logged.shadow \cup DroppedIds
    IN  count.primary + others = count.shadow + count.filtered + count.drops
                                 + (IF unsent THEN 1 ELSE 0)

\* "This ensures every primary log entry has a corresponding shadow entry"
\* (proxy.go, logFilteredShadow): so it is, but for commands dropped, abandoned
\* by a forced close, or last (COM_QUIT, or one the primary did not take); and
\* the shadow has no entry without one of the primary.
EntriesPaired ==
  Drained /\ cur # None =>
    /\ logged.primary \subseteq logged.shadow \cup DroppedIds \cup {cur.id}
    /\ logged.shadow \subseteq logged.primary
=============================================================================
