--------------------------- MODULE PgShadowWorker ---------------------------
(***************************************************************************)
(* The pgwire shadow worker (pg_shadow_worker.go).  Queue, drain and forced *)
(* close are those of the MySQL worker; what differs is the dead latch:    *)
(* the first I/O error, a read timeout included, closes the connection for *)
(* good, and Send and processFrame then drop frames.  The connection       *)
(* handler calls Initialize once, Send any number of times, Close once.    *)
(***************************************************************************)
EXTENDS Naturals, Sequences

CONSTANTS
  QueueSize,      \* SHADOW_QUEUE_SIZE
  MaxFrames       \* bound: how many frames the handler offers

ASSUME PgBoundsAssumption == QueueSize \in Nat /\ MaxFrames \in Nat

VARIABLES
  handler,        \* where the handler goroutine is
  sending,        \* <<f>> between the dead check and the enqueue of Send(f)
  worker,         \* where the worker goroutine is
  draining,       \* the worker is in drainQueue, not in worker()
  queue,          \* w.queue, oldest first
  current,        \* <<f>> while processFrame(f) runs, else <<>>
  drainCh, closeCh, doneCh,   \* the signal channels, TRUE once closed
  conn,           \* w.conn: "none", "open" or "closed"
  dead,           \* w.dead
  peer,           \* the shadow server's end of conn: "up" or "down"
  pending,        \* messages the server has still to send
  inbox,          \* messages sent and not yet read
  next,           \* id of the next frame the handler offers
  accepted,       \* history: frames Send returned true for
  outcomes        \* history: how processFrame returned, in order

chans == <<drainCh, closeCh, doneCh>>
server == <<peer, pending, inbox>>
vars == <<handler, sending, worker, draining, queue, current, chans, conn,
          dead, server, next, accepted, outcomes>>

HandlerPc == {"new", "noShadow", "serving", "sending", "draining", "joining",
              "returned"}
WorkerPc == {"unborn", "select", "drain", "check", "write", "read", "return",
             "done", "exited"}

\* "ready": Query and Sync, for which expectsResponse is set; "call":
\* FunctionCall, answered up to ReadyForQuery all the same; "plain": the rest.
Kind == {"ready", "call", "plain"}
Frame == [id : 1..MaxFrames, kind : Kind]
\* A backend message: the frame it answers, and whether it is ReadyForQuery.
Message == [id : 1..MaxFrames, z : BOOLEAN]

Failed == {"writeError", "timeout", "readError"}
Unsent == {"skipped", "dropped"}
Result == {"ok"} \cup Failed \cup Unsent
\* reply: the frame whose ReadyForQuery ended the read, 0 if none did.
Outcome == [req : Frame, res : Result, reply : 0..MaxFrames]

Init ==
  /\ handler = "new" /\ sending = <<>>
  /\ worker = "unborn" /\ draining = FALSE
  /\ queue = <<>> /\ current = <<>>
  /\ drainCh = FALSE /\ closeCh = FALSE /\ doneCh = FALSE
  /\ conn = "none" /\ dead = FALSE
  /\ peer = "up" /\ pending = <<>> /\ inbox = <<>>
  /\ next = 1
  /\ accepted = <<>>
  /\ outcomes = <<>>
-----------------------------------------------------------------------------
(* The handler goroutine.                                                  *)

\* No SHADOW_HOST, no connection, or no Hijack: w.conn is never set.
InitializeFails ==
  /\ handler = "new"
  /\ handler' = "noShadow"
  /\ UNCHANGED <<sending, worker, draining, queue, current, chans, conn, dead,
                 server, next, accepted, outcomes>>

Initialize ==
  /\ handler = "new"
  /\ handler' = "serving"
  /\ conn' = "open"
  /\ worker' = "select"
  /\ UNCHANGED <<sending, draining, queue, current, chans, dead, server, next,
                 accepted, outcomes>>

\* Send up to the atomic load of dead; a dead worker takes no frame.
SendCheck ==
  /\ handler = "serving"
  /\ next <= MaxFrames
  /\ next' = next + 1
  /\ IF dead
       THEN UNCHANGED <<handler, sending>>
       ELSE /\ handler' = "sending"
            /\ \E k \in Kind : sending' = <<[id |-> next, kind |-> k]>>
  /\ UNCHANGED <<worker, draining, queue, current, chans, conn, dead, server,
                 accepted, outcomes>>

HasRoom == Len(queue) < QueueSize

Enqueue(f) ==
  /\ HasRoom
  /\ queue' = Append(queue, f)
  /\ accepted' = Append(accepted, f)
  /\ UNCHANGED <<worker, current>>

\* A worker blocked in select gets it directly; an unbuffered channel takes
\* nothing else.
Handoff(f) ==
  /\ queue = <<>>
  /\ worker = "select"
  /\ worker' = "check"
  /\ current' = <<f>>
  /\ accepted' = Append(accepted, f)
  /\ UNCHANGED queue

Overflow(f) ==
  /\ ~HasRoom
  /\ UNCHANGED <<queue, accepted, worker, current>>

\* The rest of Send; the worker may have died since SendCheck.
SendEnqueue ==
  /\ handler = "sending"
  /\ handler' = "serving"
  /\ sending' = <<>>
  /\ Enqueue(sending[1]) \/ Handoff(sending[1]) \/ Overflow(sending[1])
  /\ UNCHANGED <<draining, chans, conn, dead, server, next, outcomes>>

CloseSignal ==
  /\ handler = "serving"
  /\ handler' = "draining"
  /\ drainCh' = TRUE
  /\ UNCHANGED <<sending, worker, draining, queue, current, closeCh, doneCh,
                 conn, dead, server, next, accepted, outcomes>>

CloseDrained ==
  /\ handler = "draining"
  /\ doneCh
  /\ handler' = "joining"
  /\ UNCHANGED <<sending, worker, draining, queue, current, chans, conn, dead,
                 server, next, accepted, outcomes>>

\* ShadowDrainTimeout fires, possibly together with doneCh.
CloseTimeout ==
  /\ handler = "draining"
  /\ handler' = "joining"
  /\ closeCh' = TRUE
  /\ UNCHANGED <<sending, worker, draining, queue, current, drainCh, doneCh,
                 conn, dead, server, next, accepted, outcomes>>

\* wg.Wait()
Joined == worker = "exited"

CloseJoin ==
  /\ handler = "joining"
  /\ Joined
  /\ handler' = "returned"
  /\ conn' = "closed"
  /\ UNCHANGED <<sending, worker, draining, queue, current, chans, dead,
                 server, next, accepted, outcomes>>
-----------------------------------------------------------------------------
(* The worker goroutine.                                                   *)

WorkerForced ==
  /\ worker \in {"select", "drain"}
  /\ closeCh
  /\ worker' = "return"
  /\ UNCHANGED <<handler, sending, draining, queue, current, chans, conn,
                 dead, server, next, accepted, outcomes>>

WorkerDrain ==
  /\ worker = "select"
  /\ drainCh
  /\ worker' = "drain"
  /\ draining' = TRUE
  /\ UNCHANGED <<handler, sending, queue, current, chans, conn, dead, server,
                 next, accepted, outcomes>>

WorkerTake ==
  /\ worker \in {"select", "drain"}
  /\ queue # <<>>
  /\ current' = <<Head(queue)>>
  /\ queue' = Tail(queue)
  /\ worker' = "check"
  /\ UNCHANGED <<handler, sending, draining, chans, conn, dead, server, next,
                 accepted, outcomes>>

\* Mutant: the drain signal ends the worker whatever is queued.
NothingChecked == TRUE

\* default case of drainQueue.
NothingPending == ~closeCh /\ queue = <<>>

DrainEmpty ==
  /\ worker = "drain"
  /\ NothingPending
  /\ worker' = "return"
  /\ UNCHANGED <<handler, sending, draining, queue, current, chans, conn,
                 dead, server, next, accepted, outcomes>>

\* processFrame returns to the loop that called it.
Finish(res, reply) ==
  /\ outcomes' = Append(outcomes, [req |-> current[1], res |-> res,
                                   reply |-> reply])
  /\ current' = <<>>
  /\ worker' = IF draining THEN "drain" ELSE "select"
  /\ UNCHANGED <<handler, sending, draining, queue, chans, peer, next,
                 accepted>>

Alive == UNCHANGED <<conn, dead>>

\* Mutant: the error is logged and the connection stays in use.
LogOnly == Alive

markDead == dead' = TRUE /\ conn' = "closed"

\* Mutant: processFrame does not look at dead.
DeadIgnored == FALSE

DeadLoaded == dead

CheckForced ==
  /\ worker = "check"
  /\ closeCh
  /\ Finish("skipped", 0)
  /\ Alive
  /\ UNCHANGED <<pending, inbox>>

\* conn_dead: counted, not logged.
CheckDead ==
  /\ worker = "check"
  /\ ~closeCh /\ DeadLoaded
  /\ Finish("dropped", 0)
  /\ Alive
  /\ UNCHANGED <<pending, inbox>>

CheckPassed ==
  /\ worker = "check"
  /\ ~closeCh /\ ~DeadLoaded
  /\ worker' = "write"
  /\ UNCHANGED <<handler, sending, draining, queue, current, chans, conn,
                 dead, server, next, accepted, outcomes>>

expectsResponse(f) == f.kind = "ready"

\* What the server answers to frame f, message by message.
Responses(f) ==
  LET data == [id |-> f.id, z |-> FALSE]
      ready == [id |-> f.id, z |-> TRUE]
  IN  IF f.kind = "plain" THEN {<<>>, <<data>>}
                          ELSE {<<ready>>, <<data, ready>>}

\* The frame reaches the server, which owes its answer unless it went away.
Deliver(f) ==
  IF peer = "up" THEN \E m \in Responses(f) : pending' = pending \o m
                 ELSE UNCHANGED pending

WriteExpecting ==
  /\ worker = "write"
  /\ conn = "open"
  /\ expectsResponse(current[1])
  /\ worker' = "read"
  /\ Deliver(current[1])
  /\ UNCHANGED <<handler, sending, draining, queue, current, chans, conn,
                 dead, peer, inbox, next, accepted, outcomes>>

WriteOnly ==
  /\ worker = "write"
  /\ conn = "open"
  /\ ~expectsResponse(current[1])
  /\ Finish("ok", 0)
  /\ Alive
  /\ Deliver(current[1])
  /\ UNCHANGED inbox

WriteError ==
  /\ worker = "write"
  /\ peer = "down" \/ conn = "closed"
  /\ Finish("writeError", 0)
  /\ markDead
  /\ UNCHANGED <<pending, inbox>>

\* Mutant: the first message ends the read.
StopsAtOnce(m) == TRUE

IsReady(m) == m.z

ReadMore ==
  /\ worker = "read"
  /\ conn = "open"
  /\ inbox # <<>> /\ ~IsReady(Head(inbox))
  /\ inbox' = Tail(inbox)
  /\ UNCHANGED <<handler, sending, worker, draining, queue, current, chans,
                 conn, dead, peer, pending, next, accepted, outcomes>>

ReadReady ==
  /\ worker = "read"
  /\ conn = "open"
  /\ inbox # <<>> /\ IsReady(Head(inbox))
  /\ inbox' = Tail(inbox)
  /\ Finish("ok", Head(inbox).id)
  /\ Alive
  /\ UNCHANGED pending

\* Mutant: no deadline is set, the read waits for ReadyForQuery.
ReadForever == FALSE

\* The deadline covers the whole response.
ReadTimeout ==
  /\ worker = "read"
  /\ Finish("timeout", 0)
  /\ markDead
  /\ UNCHANGED <<pending, inbox>>

ReadError ==
  /\ worker = "read"
  /\ \/ peer = "down" /\ inbox = <<>>
     \/ conn = "closed"
  /\ Finish("readError", 0)
  /\ markDead
  /\ UNCHANGED <<pending, inbox>>

\* The deferred calls of worker(), last first: close(doneCh), wg.Done().
SignalDone ==
  /\ worker = "return"
  /\ doneCh' = TRUE
  /\ worker' = "done"
  /\ UNCHANGED <<handler, sending, draining, queue, current, drainCh, closeCh,
                 conn, dead, server, next, accepted, outcomes>>

WgDone ==
  /\ worker = "done"
  /\ worker' = "exited"
  /\ UNCHANGED <<handler, sending, draining, queue, current, chans, conn,
                 dead, server, next, accepted, outcomes>>
-----------------------------------------------------------------------------
(* The shadow server: answers in order, however late, until it goes away.  *)

ShadowReply ==
  /\ conn = "open" /\ peer = "up"
  /\ pending # <<>>
  /\ inbox' = Append(inbox, Head(pending))
  /\ pending' = Tail(pending)
  /\ UNCHANGED <<handler, sending, worker, draining, queue, current, chans,
                 conn, dead, peer, next, accepted, outcomes>>

ShadowDown ==
  /\ conn = "open" /\ peer = "up"
  /\ peer' = "down"
  /\ pending' = <<>>
  /\ UNCHANGED <<handler, sending, worker, draining, queue, current, chans,
                 conn, dead, inbox, next, accepted, outcomes>>
-----------------------------------------------------------------------------
HandlerStep ==
  \/ InitializeFails \/ Initialize \/ SendCheck \/ SendEnqueue
  \/ CloseSignal \/ CloseDrained \/ CloseTimeout \/ CloseJoin

WorkerStep ==
  \/ WorkerForced \/ WorkerDrain \/ WorkerTake \/ DrainEmpty
  \/ CheckForced \/ CheckDead \/ CheckPassed
  \/ WriteExpecting \/ WriteOnly \/ WriteError
  \/ ReadMore \/ ReadReady \/ ReadTimeout \/ ReadError
  \/ SignalDone \/ WgDone

ServerStep == ShadowReply \/ ShadowDown

Terminated ==
  /\ handler \in {"returned", "noShadow"}
  /\ UNCHANGED vars

Next == HandlerStep \/ WorkerStep \/ ServerStep \/ Terminated

Spec == Init /\ [][Next]_vars

(***************************************************************************)
(* Fairness: goroutines that can run do run, and the drain timer and the   *)
(* read deadline fire (a server that keeps sending cannot postpone the     *)
(* deadline, which is set once per frame).  That a Write returns is an     *)
(* assumption on the network.                                              *)
(***************************************************************************)
FairSpec ==
  /\ Spec
  /\ WF_vars(WorkerStep)
  /\ WF_vars(CloseDrained \/ CloseTimeout)
  /\ WF_vars(CloseJoin)
-----------------------------------------------------------------------------
\* Types, and the bound of the queue.
TypeOK ==
  /\ handler \in HandlerPc
  /\ worker \in WorkerPc
  /\ draining \in BOOLEAN
  /\ sending \in Seq(Frame)
  /\ Len(sending) = IF handler = "sending" THEN 1 ELSE 0
  /\ queue \in Seq(Frame) /\ Len(queue) <= QueueSize
  /\ current \in Seq(Frame) /\ Len(current) <= 1
  /\ drainCh \in BOOLEAN /\ closeCh \in BOOLEAN /\ doneCh \in BOOLEAN
  /\ conn \in {"none", "open", "closed"}
  /\ dead \in BOOLEAN
  /\ peer \in {"up", "down"}
  /\ pending \in Seq(Message)
  /\ inbox \in Seq(Message)
  /\ next \in 1..MaxFrames+1
  /\ accepted \in Seq(Frame)
  /\ outcomes \in Seq(Outcome)

\* The worker never writes to or reads from a connection that markDead or
\* Close has closed, whatever was queued behind the failure.
ConnOpenWhileUsed == worker \in {"write", "read"} => conn = "open" /\ ~dead

\* Nothing Send accepted is lost, duplicated or reordered between Send and
\* processFrame.
FifoOnce ==
  LET done == Len(outcomes)
      taken == done + Len(current)
  IN  /\ Len(accepted) = taken + Len(queue)
      /\ \A i \in 1..done : outcomes[i].req = accepted[i]
      /\ \A i \in 1..Len(current) : current[i] = accepted[done + i]
      /\ \A i \in 1..Len(queue) : queue[i] = accepted[taken + i]

\* dead "latches on first I/O error": after a frame failed no later frame is
\* attempted, so the shadow never sees a session with a hole in it.
NothingAfterFailure ==
  \A i, j \in 1..Len(outcomes) :
    i < j /\ outcomes[i].res \in Failed => outcomes[j].res \in Unsent

RightReply(o) ==
  o.res = "ok" /\ expectsResponse(o.req) => o.reply = o.req.id

\* The reply a Query or Sync is credited with, and so its latency, is its own,
\* timeouts or not: a late reply is never read for another frame.  That holds
\* until a FunctionCall is mirrored: it is not waited for, but its answer ends
\* in ReadyForQuery too, and the next frame's read stops there.
RepliesMatchUntilCall ==
  \A i \in 1..Len(outcomes) :
    (\A j \in 1..i : outcomes[j].req.kind # "call") => RightReply(outcomes[i])

\* Once the client is gone, Close returns.
CloseReturns == handler = "draining" ~> handler = "returned"
-----------------------------------------------------------------------------
Mirror == INSTANCE ShadowMirror WITH
  Request <- Frame,
  settled <- Len(outcomes),
  skipped <- {i \in 1..Len(outcomes) : outcomes[i].res \in Unsent},
  lost <- dead,
  phase <- IF handler = "returned" THEN "closed"
           ELSE IF closeCh THEN "forced"
           ELSE IF drainCh THEN "draining" ELSE "open"

\* The worker implements the promise of ShadowMirror, its dead latch being
\* the loss of the backend.
ImplementsMirror == Mirror!Spec
=============================================================================
