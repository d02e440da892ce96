---------------------------- MODULE QueryLogger -----------------------------
(***************************************************************************)
(* The query logger (query_logger.go): handlers and shadow workers call    *)
(* Log, a non-blocking send into a buffered channel; flushLoop moves the   *)
(* entries into a batch and writes each batch to GCS, or to the process's  *)
(* own log when that fails; main cancels the context and waits on the way  *)
(* out (main.go, pg_main.go).  Log keeps being called during and after     *)
(* Close, because nothing waits for the connection handlers.  The channel  *)
(* is never closed, so the `!ok` branch of flushLoop cannot be taken.      *)
(***************************************************************************)
EXTENDS Naturals, Sequences

CONSTANTS
  BufferSize,     \* QUERY_LOG_BUFFER_SIZE
  BatchSize,      \* QUERY_LOG_BATCH_SIZE
  MaxEntries      \* bound: how many entries are offered to Log

ASSUME LoggerAssumption ==
  /\ BufferSize \in Nat \ {0}
  /\ BatchSize \in Nat \ {0}
  /\ MaxEntries \in Nat

VARIABLES
  main,           \* "running", "closing" (in Close) or "exited"
  loop,           \* where flushLoop is, see LoopPc
  cancelled,      \* ql.ctx is done
  entries,        \* the channel, oldest first
  batch,          \* flushLoop's batch
  next,           \* id of the next entry offered to Log
  queued,         \* history: entries counted as "queued"
  disposed,       \* history: entries written, in order, and where
  atClose         \* history: Len(queued) when Close was called

vars == <<main, loop, cancelled, entries, batch, next, queued, disposed,
          atClose>>

LoopPc == {"select", "flush", "drain", "lastFlush", "exited"}
Entry == 1..MaxEntries
Place == {"gcs", "fallback", "both"}
Written == [id : Entry, place : Place]

Init ==
  /\ main = "running"
  /\ loop = "select"
  /\ cancelled = FALSE
  /\ entries = <<>>
  /\ batch = <<>>
  /\ next = 1
  /\ queued = <<>>
  /\ disposed = <<>>
  /\ atClose = 0
-----------------------------------------------------------------------------
(* The goroutines that log.                                                *)

BufferHasRoom == Len(entries) < BufferSize

LogQueued ==
  /\ BufferHasRoom
  /\ entries' = Append(entries, next)
  /\ queued' = Append(queued, next)

LogDropped ==
  /\ ~BufferHasRoom
  /\ UNCHANGED <<entries, queued>>

Log ==
  /\ main # "exited"
  /\ next <= MaxEntries
  /\ next' = next + 1
  /\ LogQueued \/ LogDropped
  /\ UNCHANGED <<main, loop, cancelled, batch, disposed, atClose>>
-----------------------------------------------------------------------------
(* flushLoop.                                                              *)

BatchFull(b) == Len(b) >= BatchSize

Receive ==
  /\ loop = "select"
  /\ entries # <<>>
  /\ batch' = Append(batch, Head(entries))
  /\ entries' = Tail(entries)
  /\ loop' = IF BatchFull(batch') THEN "flush" ELSE "select"
  /\ UNCHANGED <<main, cancelled, next, queued, disposed, atClose>>

\* Mutant: the ticker only flushes full batches.
NeverTick == FALSE

\* The ticker fires; a tick that finds the batch empty changes nothing.
Tick ==
  /\ loop = "select"
  /\ batch # <<>>
  /\ loop' = "flush"
  /\ UNCHANGED <<main, cancelled, entries, batch, next, queued, disposed,
                 atClose>>

CtxDone ==
  /\ loop = "select"
  /\ cancelled
  /\ loop' = "drain"
  /\ UNCHANGED <<main, cancelled, entries, batch, next, queued, disposed,
                 atClose>>

DrainReceive ==
  /\ loop = "drain"
  /\ entries # <<>>
  /\ batch' = Append(batch, Head(entries))
  /\ entries' = Tail(entries)
  /\ UNCHANGED <<main, loop, cancelled, next, queued, disposed, atClose>>

\* Mutant: the loop ends without draining the channel.
ChannelIgnored == TRUE

ChannelEmpty == entries = <<>>

DrainDone ==
  /\ loop = "drain"
  /\ ChannelEmpty
  /\ loop' = IF batch = <<>> THEN "exited" ELSE "lastFlush"
  /\ UNCHANGED <<main, cancelled, entries, batch, next, queued, disposed,
                 atClose>>

\* Mutant: the slice is not truncated after the flush.
KeepBatch(b) == b

\* batch = batch[:0]
ResetBatch(b) == <<>>

\* flush(batch), with the place its entries end up in.
Flush(place) ==
  /\ loop \in {"flush", "lastFlush"}
  /\ disposed' = disposed \o
       [i \in 1..Len(batch) |-> [id |-> batch[i], place |-> place]]
  /\ batch' = ResetBatch(batch)
  /\ loop' = IF loop = "flush" THEN "select" ELSE "exited"
  /\ UNCHANGED <<main, cancelled, entries, next, queued, atClose>>

FlushOk == Flush("gcs")
\* io.Copy to the GCS writer fails, or writer.Close() does: fallbackLog.
FlushError == Flush("fallback")
\* writer.Close() reports an error (its 30s context expired, say) although
\* the object was committed.
FlushAmbiguous == Flush("both")
-----------------------------------------------------------------------------
(* Close, deferred by main; when it returns the process exits.             *)

Cancel ==
  /\ main = "running"
  /\ main' = "closing"
  /\ cancelled' = TRUE
  /\ atClose' = Len(queued)
  /\ UNCHANGED <<loop, entries, batch, next, queued, disposed>>

\* wg.Wait()
LoopOver == loop = "exited"

CloseReturn ==
  /\ main = "closing"
  /\ LoopOver
  /\ main' = "exited"
  /\ UNCHANGED <<loop, cancelled, entries, batch, next, queued, disposed,
                 atClose>>
-----------------------------------------------------------------------------
LoopStep ==
  \/ Receive \/ Tick \/ CtxDone \/ DrainReceive \/ DrainDone
  \/ FlushOk \/ FlushError \/ FlushAmbiguous

Exited == main = "exited" /\ UNCHANGED vars

Next == Log \/ LoopStep \/ Cancel \/ CloseReturn \/ Exited

Spec == Init /\ [][Next]_vars

(***************************************************************************)
(* Fairness: flushLoop runs when it can and its ticker ticks; a flush ends *)
(* because its context times out; wg.Wait returns.  Nobody need log, and   *)
(* the process need not be stopped.                                        *)
(***************************************************************************)
FairSpec == Spec /\ WF_vars(LoopStep) /\ WF_vars(CloseReturn)
-----------------------------------------------------------------------------
\* Types, and two bounds: the channel never holds more than its capacity and,
\* until shutdown, flushLoop never lets a batch outgrow the batch size.
TypeOK ==
  /\ main \in {"running", "closing", "exited"}
  /\ loop \in LoopPc
  /\ cancelled \in BOOLEAN
  /\ entries \in Seq(Entry) /\ Len(entries) <= BufferSize
  /\ batch \in Seq(Entry)
  /\ loop \in {"select", "flush"} => Len(batch) <= BatchSize
  /\ next \in 1..MaxEntries+1
  /\ queued \in Seq(Entry)
  /\ disposed \in Seq(Written)
  /\ atClose \in 0..Len(queued)

\* Every entry counted as "queued" is in one flush, in order, or still in the
\* batch or the channel: resetting the batch, the shutdown drain and a failed
\* flush lose nothing and flush nothing again.  A flush writes to GCS or to the
\* fallback log; one whose Close fails after the object was stored writes to
\* both (FlushAmbiguous), so the two together may name an entry twice.
LoggedOnce ==
  LET n == Len(disposed)
      m == n + Len(batch)
  IN  /\ Len(queued) = m + Len(entries)
      /\ \A i \in 1..n : disposed[i].id = queued[i]
      /\ \A i \in 1..Len(batch) : batch[i] = queued[n + i]
      /\ \A i \in 1..Len(entries) : entries[i] = queued[m + i]

\* Close "gracefully shuts down the logger, flushing remaining entries": all
\* that was queued when Close was called is written before the process exits.
FlushedBeforeExit == main = "exited" => Len(disposed) >= atClose

\* An entry queued while the logger runs is written eventually, even if its
\* batch never fills up.
EventuallyWritten ==
  \A k \in 1..MaxEntries :
    (Len(queued) >= k /\ ~cancelled) ~> Len(disposed) >= k

-----------------------------------------------------------------------------
\* What the shutdown relies on.
ShutdownInv ==
  /\ main = "running" <=> ~cancelled
  /\ main = "exited" => loop = "exited"
  /\ loop \in {"drain", "lastFlush", "exited"} => cancelled
  /\ cancelled => atClose <= Len(queued)
  /\ loop = "lastFlush" => atClose <= Len(disposed) + Len(batch)
  /\ loop = "exited" => atClose <= Len(disposed) /\ batch = <<>>
  /\ loop = "flush" => batch # <<>>
  /\ loop = "select" => Len(batch) < BatchSize

IInv == TypeOK /\ LoggedOnce /\ ShutdownInv
=============================================================================
