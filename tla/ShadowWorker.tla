---------------------------- MODULE ShadowWorker ----------------------------
(***************************************************************************)
(* The MySQL shadow worker (shadow_worker.go): a bounded queue between the *)
(* goroutine that serves a client (the handler) and a worker goroutine     *)
(* that replays the requests on one shadow connection, with the drain,     *)
(* forced close and join of Close().  The handler calls Initialize once,   *)
(* Send any number of times and Close once, in this order (proxy.go,       *)
(* handleConnection); the mutex-protected flag `closed` and the entry in   *)
(* workerRegistry are both implied by handler = "serving".                 *)
(***************************************************************************)
EXTENDS Naturals, Sequences

CONSTANTS
  QueueSize,      \* SHADOW_QUEUE_SIZE: capacity of the queue channel
  MaxRequests     \* bound: how many requests the handler offers

ASSUME BoundsAssumption == QueueSize \in Nat /\ MaxRequests \in Nat

VARIABLES
  handler,        \* where the handler goroutine is, see HandlerPc
  worker,         \* where the worker goroutine is, see WorkerPc
  draining,       \* the worker is in drainPendingRequests, not in worker()
  queue,          \* w.queue, oldest first
  current,        \* <<r>> while processRequest(r) runs, else <<>>
  drainCh, closeCh, doneCh,   \* the signal channels, TRUE once closed
  conn,           \* w.conn: "none", "open" or "closed"
  peer,           \* the shadow server's end of it: "up" or "down"
  pending,        \* requests the server still has to answer
  inbox,          \* parts of replies that wait to be read: their requests' ids
  next,           \* id of the next request the handler offers
  accepted,       \* history: requests Send returned true for
  outcomes,       \* history: how processRequest returned, in order
  forcedAt        \* history: Len(outcomes) when closeCh was closed

chans == <<drainCh, closeCh, doneCh>>
server == <<peer, pending, inbox>>
vars == <<handler, worker, draining, queue, current, chans, conn, server,
          next, accepted, outcomes, forcedAt>>

HandlerPc == {"new", "noShadow", "serving", "draining", "joining", "returned"}
WorkerPc == {"unborn", "select", "drain", "check", "write", "read",
             "return", "done", "exited"}
Result == {"ok", "writeError", "timeout", "readError", "skipped"}

(***************************************************************************)
(* What a command is answered with: nothing (isNoResponseCommand), a       *)
(* response the parser reads to its end, or one it may return from before  *)
(* its end (module MysqlResponse): that of COM_STMT_PREPARE, whose         *)
(* parameter and column definitions follow the OK packet ReadFullResponse  *)
(* takes for the whole, and of LOAD DATA LOCAL.                            *)
(***************************************************************************)
Response == {"none", "whole", "partial"}
Request == [id : 1..MaxRequests, resp : Response]
\* A log entry, or the silent return of a request skipped on closeCh.
Outcome == [req : Request, res : Result, reply : 0..MaxRequests]

Init ==
  /\ handler = "new"
  /\ worker = "unborn"
  /\ draining = FALSE
  /\ queue = <<>>
  /\ current = <<>>
  /\ drainCh = FALSE /\ closeCh = FALSE /\ doneCh = FALSE
  /\ conn = "none"
  /\ peer = "up" /\ pending = <<>> /\ inbox = <<>>
  /\ next = 1
  /\ accepted = <<>>
  /\ outcomes = <<>>
  /\ forcedAt = 0
-----------------------------------------------------------------------------
(* The handler goroutine.                                                  *)

InitializeDialFails ==
  /\ handler = "new"
  /\ handler' = "noShadow"
  /\ UNCHANGED <<worker, draining, queue, current, chans, conn, server, next,
                 accepted, outcomes, forcedAt>>

InitializeAuthFails ==
  /\ handler = "new"
  /\ handler' = "noShadow"
  /\ conn' = "closed"
  /\ UNCHANGED <<worker, draining, queue, current, chans, server, next,
                 accepted, outcomes, forcedAt>>

Initialize ==
  /\ handler = "new"
  /\ handler' = "serving"
  /\ conn' = "open"
  /\ worker' = "select"
  /\ UNCHANGED <<draining, queue, current, chans, server, next, accepted,
                 outcomes, forcedAt>>

HasRoom == Len(queue) < QueueSize

\* The non-blocking channel send takes the request.
SendQueued(r) ==
  /\ HasRoom
  /\ queue' = Append(queue, r)
  /\ accepted' = Append(accepted, r)
  /\ UNCHANGED <<worker, current>>

\* A worker blocked in select gets it directly; an unbuffered channel takes
\* nothing else.
SendHandoff(r) ==
  /\ queue = <<>>
  /\ worker = "select"
  /\ worker' = "check"
  /\ current' = <<r>>
  /\ accepted' = Append(accepted, r)
  /\ UNCHANGED queue

SendDropped(r) ==
  /\ ~HasRoom
  /\ UNCHANGED <<queue, accepted, worker, current>>

Send ==
  /\ handler = "serving"
  /\ next <= MaxRequests
  /\ next' = next + 1
  /\ \E resp \in Response :
       LET r == [id |-> next, resp |-> resp]
       IN  SendQueued(r) \/ SendHandoff(r) \/ SendDropped(r)
  /\ UNCHANGED <<handler, draining, chans, conn, server, outcomes, forcedAt>>

\* Close: mark closed, leave the registry, close(drainCh).
CloseSignal ==
  /\ handler = "serving"
  /\ handler' = "draining"
  /\ drainCh' = TRUE
  /\ UNCHANGED <<worker, draining, queue, current, closeCh, doneCh, conn,
                 server, next, accepted, outcomes, forcedAt>>

CloseDrained ==
  /\ handler = "draining"
  /\ doneCh
  /\ handler' = "joining"
  /\ UNCHANGED <<worker, draining, queue, current, chans, conn, server, next,
                 accepted, outcomes, forcedAt>>

\* ShadowDrainTimeout fires, possibly together with doneCh.
CloseTimeout ==
  /\ handler = "draining"
  /\ handler' = "joining"
  /\ closeCh' = TRUE
  /\ forcedAt' = Len(outcomes)
  /\ UNCHANGED <<worker, draining, queue, current, drainCh, doneCh, conn,
                 server, next, accepted, outcomes>>

\* Mutant: Close does not wait for the goroutine.
NotJoined == TRUE

\* wg.Wait() returns once the worker has called wg.Done().
Joined == worker = "exited"

CloseJoin ==
  /\ handler = "joining"
  /\ Joined
  /\ handler' = "returned"
  /\ conn' = "closed"
  /\ UNCHANGED <<worker, draining, queue, current, chans, server, next,
                 accepted, outcomes, forcedAt>>
-----------------------------------------------------------------------------
(* The worker goroutine.                                                   *)

\* closeCh is ready in the select of worker() or of drainPendingRequests().
WorkerForced ==
  /\ worker \in {"select", "drain"}
  /\ closeCh
  /\ worker' = "return"
  /\ UNCHANGED <<handler, draining, queue, current, chans, conn, server,
                 next, accepted, outcomes, forcedAt>>

WorkerDrain ==
  /\ worker = "select"
  /\ drainCh
  /\ worker' = "drain"
  /\ draining' = TRUE
  /\ UNCHANGED <<handler, queue, current, chans, conn, server, next,
                 accepted, outcomes, forcedAt>>

WorkerTake ==
  /\ worker \in {"select", "drain"}
  /\ queue # <<>>
  /\ current' = <<Head(queue)>>
  /\ queue' = Tail(queue)
  /\ worker' = "check"
  /\ UNCHANGED <<handler, draining, chans, conn, server, next, accepted,
                 outcomes, forcedAt>>

\* Mutant: the drain signal ends the worker whatever is queued.
NothingChecked == TRUE

\* default case of drainPendingRequests: no other case is ready.
NothingPending == ~closeCh /\ queue = <<>>

DrainEmpty ==
  /\ worker = "drain"
  /\ NothingPending
  /\ worker' = "return"
  /\ UNCHANGED <<handler, draining, queue, current, chans, conn, server,
                 next, accepted, outcomes, forcedAt>>

\* processRequest returns to the loop that called it.
Finish(res, reply) ==
  /\ outcomes' = Append(outcomes, [req |-> current[1], res |-> res,
                                   reply |-> reply])
  /\ current' = <<>>
  /\ worker' = IF draining THEN "drain" ELSE "select"
  /\ UNCHANGED <<handler, draining, queue, chans, conn, peer, next, accepted,
                 forcedAt>>

\* Mutant: processRequest does not look at closeCh.
NeverStop == FALSE

\* The check at the top of processRequest.
MustStop == closeCh

CheckForced ==
  /\ worker = "check"
  /\ MustStop
  /\ Finish("skipped", 0)
  /\ UNCHANGED <<pending, inbox>>

CheckPassed ==
  /\ worker = "check"
  /\ ~MustStop
  /\ worker' = "write"
  /\ UNCHANGED <<handler, draining, queue, current, chans, conn, server,
                 next, accepted, outcomes, forcedAt>>

\* Mutant: the test of isNoResponseCommand is negated.
ExpectsNothing(r) == r.resp = "none"

ExpectsReply(r) == r.resp # "none"

\* What the server owes after a write.  A server that went away owes nothing,
\* though TCP may still take the bytes.
Owed(r) ==
  IF peer = "up" /\ r.resp # "none" THEN Append(pending, r) ELSE pending

WriteExpectingReply ==
  /\ worker = "write"
  /\ conn = "open"
  /\ ExpectsReply(current[1])
  /\ worker' = "read"
  /\ pending' = Owed(current[1])
  /\ UNCHANGED <<handler, draining, queue, current, chans, conn, peer, inbox,
                 next, accepted, outcomes, forcedAt>>

WriteNoReply ==
  /\ worker = "write"
  /\ conn = "open"
  /\ ~ExpectsReply(current[1])
  /\ Finish("ok", 0)
  /\ pending' = Owed(current[1])
  /\ UNCHANGED inbox

WriteError ==
  /\ worker = "write"
  /\ peer = "down" \/ conn = "closed"
  /\ Finish("writeError", 0)
  /\ UNCHANGED <<pending, inbox>>

\* The parser reads a reply of its own request up to the end it sees; one that
\* starts in what another reply left may go on into whatever follows.
ReadReply ==
  /\ worker = "read"
  /\ conn = "open"
  /\ inbox # <<>>
  /\ \E n \in 1..Len(inbox) :
       /\ Head(inbox) = current[1].id => n = 1
       /\ inbox' = SubSeq(inbox, n + 1, Len(inbox))
  /\ Finish("ok", Head(inbox))
  /\ UNCHANGED pending

\* Mutant: no deadline is set, the read waits for the reply.
ReadForever == FALSE

\* The deadline set just before the read passes; the connection stays in use.
\* The parser may have read on through all there was: it takes an ERR packet
\* among the rows for a row, and waits for the end of the rows.
ReadTimeout ==
  /\ worker = "read"
  /\ Finish("timeout", 0)
  /\ inbox' \in {inbox, <<>>}
  /\ UNCHANGED pending

\* The connection ends before the response does.
ReadError ==
  /\ worker = "read"
  /\ peer = "down" \/ conn = "closed"
  /\ Finish("readError", 0)
  /\ inbox' = <<>>
  /\ UNCHANGED pending

\* The deferred calls of worker(), last first: close(doneCh), wg.Done().
SignalDone ==
  /\ worker = "return"
  /\ doneCh' = TRUE
  /\ worker' = "done"
  /\ UNCHANGED <<handler, draining, queue, current, drainCh, closeCh, conn,
                 server, next, accepted, outcomes, forcedAt>>

WgDone ==
  /\ worker = "done"
  /\ worker' = "exited"
  /\ UNCHANGED <<handler, draining, queue, current, chans, conn, server,
                 next, accepted, outcomes, forcedAt>>
-----------------------------------------------------------------------------
(* The shadow server: answers in order, however late, until it goes away.  *)

\* A statement without parameters and columns has nothing after its OK packet.
ReplyParts(r) == {<<r.id>>} \cup
                 (IF r.resp = "partial" THEN {<<r.id, r.id>>} ELSE {})

ShadowReply ==
  /\ conn = "open" /\ peer = "up"
  /\ pending # <<>>
  /\ \E parts \in ReplyParts(Head(pending)) : inbox' = inbox \o parts
  /\ pending' = Tail(pending)
  /\ UNCHANGED <<handler, worker, draining, queue, current, chans, conn, peer,
                 next, accepted, outcomes, forcedAt>>

ShadowDown ==
  /\ conn = "open" /\ peer = "up"
  /\ peer' = "down"
  /\ pending' = <<>>
  /\ UNCHANGED <<handler, worker, draining, queue, current, chans, conn,
                 inbox, next, accepted, outcomes, forcedAt>>
-----------------------------------------------------------------------------
HandlerStep ==
  \/ InitializeDialFails \/ InitializeAuthFails \/ Initialize
  \/ Send \/ CloseSignal \/ CloseDrained \/ CloseTimeout \/ CloseJoin

WorkerStep ==
  \/ WorkerForced \/ WorkerDrain \/ WorkerTake \/ DrainEmpty
  \/ CheckForced \/ CheckPassed
  \/ WriteExpectingReply \/ WriteNoReply \/ WriteError
  \/ ReadReply \/ ReadTimeout \/ ReadError
  \/ SignalDone \/ WgDone

ServerStep == ShadowReply \/ ShadowDown

\* Both goroutines are over (or the worker never started).
Terminated ==
  /\ handler \in {"returned", "noShadow"}
  /\ UNCHANGED vars

Next == HandlerStep \/ WorkerStep \/ ServerStep \/ Terminated

Spec == Init /\ [][Next]_vars

(***************************************************************************)
(* Fairness.  The Go scheduler runs a goroutine that can run, the drain    *)
(* timer and the read deadline fire, so the worker never waits forever in  *)
(* a read and the handler never in its select.  That a Write returns is an *)
(* assumption on the network: the code sets no write deadline.  Nothing is *)
(* assumed of the server, and the handler need not send or close.          *)
(***************************************************************************)
FairSpec ==
  /\ Spec
  /\ WF_vars(WorkerStep)
  /\ WF_vars(CloseDrained \/ CloseTimeout)
  /\ WF_vars(CloseJoin)
-----------------------------------------------------------------------------
\* Types, and the bound of the queue: Send never queues more than the capacity
\* the channel was made with.
TypeOK ==
  /\ handler \in HandlerPc
  /\ worker \in WorkerPc
  /\ draining \in BOOLEAN
  /\ queue \in Seq(Request) /\ Len(queue) <= QueueSize
  /\ current \in Seq(Request) /\ Len(current) <= 1
  /\ drainCh \in BOOLEAN /\ closeCh \in BOOLEAN /\ doneCh \in BOOLEAN
  /\ conn \in {"none", "open", "closed"}
  /\ peer \in {"up", "down"}
  /\ pending \in Seq(Request)
  /\ inbox \in Seq(1..MaxRequests)
  /\ next \in 1..MaxRequests+1
  /\ accepted \in Seq(Request)
  /\ outcomes \in Seq(Outcome)
  /\ forcedAt \in 0..Len(outcomes)

\* Close waits for the goroutine "BEFORE closing connection": the worker never
\* writes to or reads from a connection that Close has closed, even when the
\* drain timeout fires while a request is in flight.
ConnOpenWhileUsed == worker \in {"check", "write", "read"} => conn = "open"

\* Nothing Send accepted is lost, duplicated or reordered on its way through
\* the queue: what processRequest has returned from, the request it is in and
\* the queue are, in this order, exactly the accepted requests.
FifoOnce ==
  LET done == Len(outcomes)
      taken == done + Len(current)
  IN  /\ Len(accepted) = taken + Len(queue)
      /\ \A i \in 1..done : outcomes[i].req = accepted[i]
      /\ \A i \in 1..Len(current) : current[i] = accepted[done + i]
      /\ \A i \in 1..Len(queue) : queue[i] = accepted[taken + i]

\* When Close returns without its drain timeout having fired, every accepted
\* request was processed and none was skipped (README, Graceful Shutdown).
GracefulDrain ==
  handler = "returned" /\ ~closeCh =>
    /\ Len(outcomes) = Len(accepted)
    /\ \A i \in 1..Len(outcomes) : outcomes[i].res # "skipped"

\* After the forced close only the request already past the check of closeCh
\* still reaches the shadow; later ones, whichever select case the worker
\* picks, are skipped.  So Close waits for at most one more read deadline.
AtMostOneAfterForce ==
  closeCh => \A i \in 1..Len(outcomes) :
               i > forcedAt + 1 => outcomes[i].res = "skipped"

RightReply(o) ==
  o.res = "ok" /\ o.req.resp # "none" => o.reply = o.req.id

\* A request that may leave part of its response to the next one: its read timed
\* out, or the parser returned before the end.
LeavesRest(o) == o.res = "timeout" \/ o.req.resp = "partial"

\* The reply processRequest credits to a request is its own, as long as no
\* request before it left part of its response on the connection.
RepliesMatchUntilRest ==
  \A i \in 1..Len(outcomes) :
    (\A j \in 1..i - 1 : ~LeavesRest(outcomes[j])) => RightReply(outcomes[i])

\* Once the client is gone, Close returns: a drain that takes too long is
\* forced, and no read outlives its deadline.
CloseReturns == handler = "draining" ~> handler = "returned"

-----------------------------------------------------------------------------
(* The inductive invariant behind the safety properties above.             *)

Busy == worker \in {"check", "write", "read"}
Gone == worker \in {"return", "done", "exited"}

\* The two program counters, the channels and the connection agree.
Lifecycle ==
  /\ Len(current) = IF Busy THEN 1 ELSE 0
  /\ handler \in {"new", "noShadow"} <=> worker = "unborn"
  /\ handler \in {"serving", "draining", "joining"} => conn = "open"
  /\ handler = "returned" => worker = "exited"
  /\ drainCh <=> handler \in {"draining", "joining", "returned"}
  /\ closeCh => handler \in {"joining", "returned"}
  /\ doneCh <=> worker \in {"done", "exited"}
  /\ draining => drainCh
  /\ worker = "drain" => draining
  /\ Gone => drainCh /\ (closeCh \/ queue = <<>>)
  /\ peer = "down" => pending = <<>>

\* Only the forced close makes the worker skip a request.
SkippedOnlyIfForced ==
  \A i \in 1..Len(outcomes) : outcomes[i].res = "skipped" => closeCh

\* A request past the check when closeCh was closed is still the first one to
\* finish after it, and none was skipped before it.
InFlightWhenForced ==
  worker \in {"write", "read"} =>
    /\ closeCh => Len(outcomes) = forcedAt
    /\ \A i \in 1..Len(outcomes) : outcomes[i].res # "skipped"

\* Before a request leaves a rest, the only reply owed or waiting is the current
\* request's.
ReplyInStep ==
  (\A j \in 1..Len(outcomes) : ~LeavesRest(outcomes[j])) =>
    /\ worker # "read" => pending = <<>> /\ inbox = <<>>
    /\ worker = "read" =>
         /\ current[1].resp # "none"
         /\ pending # <<>> => inbox = <<>> /\ pending = <<current[1]>>
         /\ inbox # <<>> => pending = <<>> /\ inbox \in ReplyParts(current[1])

IInv ==
  /\ TypeOK /\ Lifecycle /\ FifoOnce
  /\ SkippedOnlyIfForced /\ InFlightWhenForced /\ AtMostOneAfterForce
  /\ ReplyInStep /\ RepliesMatchUntilRest
-----------------------------------------------------------------------------
Mirror == INSTANCE ShadowMirror WITH
  settled <- Len(outcomes),
  skipped <- {i \in 1..Len(outcomes) : outcomes[i].res = "skipped"},
  lost <- FALSE,
  phase <- IF handler = "returned" THEN "closed"
           ELSE IF closeCh THEN "forced"
           ELSE IF drainCh THEN "draining" ELSE "open"

\* The worker implements the promise of ShadowMirror.
ImplementsMirror == Mirror!Spec
=============================================================================
