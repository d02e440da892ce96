# A TLA+ model of the shadow proxy

The proxy stands between database clients and a *primary* cluster. It forwards
every command to the primary and passes the answer back; it also replays the
commands on a *shadow* cluster, asynchronously, and writes a log entry for each
execution on either side. It speaks MySQL (StarRocks) or pgwire (Postgres).
This directory models its concurrent and protocol-dependent parts in TLA+,
checks them with TLC on small instances, and proves the central safety
properties with TLAPS for all instances.

## The system and its parts

| Part | Code | State | Operations | Modules |
|---|---|---|---|---|
| MySQL shadow worker | `shadow_worker.go` | queue, `closeCh`, `drainCh`, `doneCh`, connection | `Initialize`, `Send`, `Close`, `worker`, `processRequest`, `drainPendingRequests` | `ShadowWorker`, `ShadowWorkerProofs` |
| pgwire shadow worker | `pg_shadow_worker.go` | the same and the `dead` latch | the same, `markDead` | `PgShadowWorker`, `PgShadowWorkerProofs` |
| Query logger | `query_logger.go`, end of `main.go` | channel, batch, context | `Log`, `flushLoop`, `flush`, `fallbackLog`, `Close` | `QueryLogger`, `QueryLoggerProofs` |
| MySQL connection phase | `proxy.go`, `mysql_auth.go` | three connections, sequence numbers, capabilities | `handleMySQLSSLUpgrade`, `forwardMySQLHandshake`, `authenticateWithShadow`, `handleConnection` | `MysqlHandshake`, `MysqlHandshakeProofs` |
| MySQL session | `proxy.go` | the command in hand, the parser's state, the two copies | `proxyWithMirrorWorker`, `proxyWithoutShadow` | `MysqlSession`, `MysqlProofs` |
| MySQL response parser | `mysql_protocol.go` | position in a response | `ReadFullResponse`, `ReadAndForwardResponse`, `ReadSimpleResponse` | `MysqlResponse`, `MysqlProofs` |
| MySQL packet reader | `mysql_protocol.go` | buffer, `offset`, `end` | `readMySQLPacket`, `ReadPacket`, `ensureBytes`, `ReadMultiPacket` | `PacketReader`, `PacketReaderProofs` |
| Mirrored session | `proxy.go`, `shadow_worker.go`, `metrics.go` | sessions of both servers, counters, entries | the loop, filter, `Send` and worker together | `MirroredSession`, `MirroredSessionProofs` |
| pgwire connection | `pg_proxy.go`, `pg_protocol.go` | phase, streams | `handleConnection`, `forwardStartup`, `forwardAuthPhase`, `runQueryLoop`, `forwardResponseUntilReady`, `copyFallback` | `PgSession`, `PgProofs` |
| pgwire sticky filter | `pg_proxy.go`, `pg_shadow_filter.go` | map of filtered statement names | `shouldMirrorPgFrame` | `PgStickyFilter`, `PgProofs` |
| Query filter | `query_filter.go` | none | `NewQueryFilter`, `Allow`, `ExtractPrimarySQLOperation` and its passes | `QueryFilter` |
| Process | `main.go`, `pg_main.go`, `Start` of both proxies | listener, context, health flags | start-up, accept loop, health checker, shutdown | `Process`, `QueryLoggerProofs` |

Per client there are a *handler* goroutine and one *worker* goroutine. The
handler runs the connection phase, starts the worker, then loops: read a
command, write it to the primary, offer it to the worker (`Send`, which never
blocks) unless the filter objects, forward the primary's answer, log. When the
session ends it calls the worker's `Close`. Without a shadow it only copies.
Handler and worker both call `Log`; one `flushLoop` goroutine per process writes
the entries. On a signal one goroutine cancels a context, another closes the
listener, the accept loop returns, `main` closes the logger and exits without
waiting for the handlers.

What is hard to get right here: which goroutine may still use the shadow
connection while `Close` drains, forces and joins; the random choice of `select`
between the queue and two closed channels; a read timeout after which the
connection is used again; the end of a response, which the proxy must see at
exactly the packet where the client does; packets cut out of a stream that
arrives in any pieces; sequence numbers and capabilities when the proxy
terminates TLS; two sessions that must stay alike although one misses some
commands; statements recognised by passes that each see half of the syntax;
entries that are logged while the logger shuts down. `PROJECT.json` lists these
hazards at their lines with the properties that cover them.

## The modules

**ShadowMirror** is abstract: what any shadow worker promises its handler.
Accepted requests are settled once each and in order; each is attempted unless
the close was forced or the backend lost; none is attempted behind one that was
not, so that the shadow always sees a prefix; the worker closes only when nothing
is owed. `ShadowWorker` and `PgShadowWorker` instantiate it with a refinement
mapping and have it as the property `ImplementsMirror`. `MirroredSession` uses it
in the place of a worker.

**ShadowWorker.** `handler` and `worker` are the program counters of the two
goroutines, split wherever the other one can act: at channel operations, at the
check of `closeCh` in `processRequest`, at `Write`, at the read. `queue`,
`drainCh`, `closeCh`, `doneCh` and `conn` are the fields. `pending` and `inbox`
are the requests the shadow has still to answer and the parts of replies on
their way; a part is the id of the request it answers. A command has no reply, one
that the parser reads whole, or one of which it may leave a second part unread
(COM_STMT_PREPARE, LOAD DATA LOCAL); from then on, as after a timeout, a read may
return any part of what is there. `accepted`, `outcomes` and
`forcedAt` record history. With `QueueSize` 0 a request is handed over only to a
worker that waits in its `select`; with a larger one it may be, as Go does.
`PacketReader` is about the pieces in which a packet arrives.

**PgShadowWorker** has the same structure. `Send` is two steps, as it loads
`dead` and later enqueues, and an error in the worker may fall between. Replies
are streams of messages that end in ReadyForQuery.

**MirroredSession** composes the session loop with what `ShadowMirror` promises,
and with the two servers. A session is what later commands depend on: the
current database, the prepared statements under the ids the server gave out, and
whether parameter data was sent. A command has the session it found on the
primary with it (`before`), so that `strayed` can record ids that ran on something
else on the shadow. `missed` records why that may be: a USE sent as a query and
filtered out, a command dropped by a full queue, one that failed on one side
only. `count` has the four counters of the parity formula, `logged` the entries
of both targets. The worker may be forced to give up when the session closes.

**QueryLogger.** `entries` is the channel, `batch` the slice of `flushLoop`,
`disposed` what was written and where. A flush succeeds, fails (the batch goes
to the process log), or fails with the object stored all the same (both). A
batch is flushed when full, at a tick, and at shutdown after the drain.

**MysqlResponse** is the automaton of the response parser over packets of a few
kinds, and the results that a server may give: a response is any number of results
with the flag that more follow, then a last one. **MysqlSession** runs it
between a client and a primary, for a connection with a shadow, and the two
copying goroutines and their WaitGroup for one without (`pc = "copy"`). The primary
sends a response result by result (`AnswerMore`, `AnswerLast`). The client
has its own idea of where a response ends, the mark that the last packet carries.
Commands are classes: `query`, `execute`, `simple`, `silent` (no response), `quit`,
and, left out of the passing run, `failing` and `prepare`.

**PacketReader** has the two ways packets are cut out of a stream: two exact reads
during the handshake, and the buffer of `MySQLPacketReader` afterwards. `buf`,
`offset` and `end` are the fields; a byte is its position in the stream, and 0 a
byte of the buffer never written. A `Read` returns any number of bytes that fit;
for the shadow a deadline may pass at any of them, whereupon the call fails and
the next one goes on with what is in the buffer. The handshake of each of the
three roles reads its own number of packets.

**MysqlHandshake** has a client, a primary and a shadow as small state machines
that count sequence numbers as MySQL does, the links between them, and the
handler's steps. Packets carry a kind, a sequence number and the
CLIENT_DEPRECATE_EOF flag. All choices of TLS on either side are initial states.
Once the handler is done with the login, `SessionRelay` passes on what the client
still sends: over TLS that is the reply to an auth switch request, which the
session loop takes for a command. A primary that gets a packet with another
number than it expects hangs up (`PrimaryHangsUp`).

**PgSession** has the client, the primary and the handler, with `up`, `work` and
`down` for the streams. Startup, authentication, the query loop and COPY. The
primary may answer Parse, Bind, Describe, Execute and Flush at once, with rows or an
error, or only with the next Sync; the loop reads such answers when it reads the
response of a Query or Sync.

**PgStickyFilter** has the prepared statements and the portal of both servers
and the map `filteredStmtNames`. `tainted` records that the map was cleared at
its cap or that the primary refused a filtered Parse; see below.

**QueryFilter.** A query text is a sequence of tokens (words, quotes, semicolons,
comment marks, backslashes, space) that grows by one token per step, so TLC judges
every text up to a length. `splitStatements`, `stripLeadingComments`,
`stripAllBlockComments`, `normalizeWhitespacePrefix` and the rest are the code's
algorithms. `LexStep` is the reference: it reads the text once and knows at each
token whether it is in code, in a string or in a comment. `NewQueryFilter` and
`Allow` are functions of a configuration and a text; `Allow` returns the set of
verdicts that sampling makes possible. The sampling per connection of pgwire uses
the same rules without the random part.

**Process** has `main` of both proxies step by step, with what can fail there
(`config` says what will), the health checker, in which a dial and the storing of
its result are two steps, the accept loop, and the way from a signal to the exit.
Handlers are counted and produce entries.

Some definitions have a neighbour whose comment begins with "Mutant:". It is the
same definition with a plausible bug. Each property of a passing run is shown to
fail under one.

## What the runs check

Passing runs, one per component:

| Run | Bounds | Shows |
|---|---|---|
| `ShadowWorker` | queue 2, 3 requests | the worker never uses a closed connection (`ConnOpenWhileUsed`); a forced close tries at most one more request (`AtMostOneAfterForce`); until a read times out or a response is left unread to its end replies are the request's own (`RepliesMatchUntilRest`); `ImplementsMirror`, and with it order and drain; `CloseReturns` |
| `PgShadowWorker` | queue 2, 3 frames | as above; no frame is written after an I/O error (`NothingAfterFailure`); replies match, timeouts or not, until a FunctionCall is mirrored (`RepliesMatchUntilCall`) |
| `QueryLogger` | buffer 2, batch 2, 5 entries | entries are flushed once and in order whatever fails (`LoggedOnce`); what was queued at `Close` is written before the exit (`FlushedBeforeExit`); `EventuallyWritten` |
| `MirroredSession` | 2 databases, 1 text, queue 1, 3 commands | commands run on the same database and statement on both servers (`RunsAlike`) and the sessions are equal when the worker has caught up (`SessionsAgree`), both unless `missed`; the counters (`Parity`) and the log entries (`EntriesPaired`) of the two targets add up when a session has ended with its queue drained |
| `MysqlSession` | 3 commands; results of up to 2 columns and 2 rows, any number of them, none sent with 2 packets in flight | parser and primary stay in step (`InStep`), the proxy ends a response where the client does (`SameEnd`), one primary entry per command on every path (`LoggedOnce`), a waiting client gets its response or loses the connection (`Answered`), a handler whose peers are gone returns (`Released`) |
| `MysqlHandshake` | none | sequence numbers, until the session loop takes over (`SeqInStep`); without TLS no session before the login is accepted (`LoginFirst`); no mirrored session negotiates EOF markers away, if the client uses an offered TLS (`EofStripped`); a client that is let in gets its session, whatever the shadow does but stay silent for ever (`SessionStarts`) |
| `PacketReader` | all streams of 3 packets with payloads of 0 to 3 bytes, 3 being the maximum after which a command goes on; buffer of 5; 1 deadline | the callers get the bytes once, in order, cut where packets and commands end (`Framed`), and all of them (`AllDelivered`) |
| `PgSession` | 3 frames | every message reaches the client once and in order (`Transparent`); no end of a response is left over when the loop reads the client (`NoEndLeftOver`), with Flush and early answers; `Answered`; `CopyTakenDown` |
| `PgStickyFilter` | 2 names, 3 texts, cap 2 | a mirrored Bind finds its statement (`BindFindsStatement`) and allowed statements run alike (`AllowedRunsMatch`), unless `tainted` |
| `QueryFilter` | all plain texts of up to 6 tokens of 13; 120 configurations | the operation is the one the reference finds (`OperationDetected`); every accepted configuration that sets a mode, or neither mode nor criteria, mirrors what the documentation of include, exclude and sampling says (`Documented`) |
| `Process` | 2 clients, 1 accept error, every configuration | no exit without deferred calls once a client was served (`AbruptExitLosesNothing`); a signal ends the process (`ShutdownTerminates`); clients are served in spite of accept errors (`ClientsServed`); `/ready` and `/status` settle on what the backends are (`StatusFollows`) |

The bounds are small and enough for the cases that matter: the queue can fill,
drop, be refilled and be drained with requests behind the one in flight; a batch
can fill, be flushed and another be begun; a session meets each class of
response after each other one; a statement can be prepared, given data and
executed after a database was changed, with a request dropped in between; a
packet can be larger than the buffer, and a command consist of three packets, the
last one empty; with two names and a cap of two the map is cleared with names in
use; six tokens hold two statements, a comment or a string with something inert
in it, and a two-word operation. Names and texts in `PgStickyFilter` are only
compared, so the run uses symmetry (the filtered text is alone in its class).
Deadlock is checked but for `QueryFilter`, whose texts end, and `Process`, which
does.

One run ends in a violation, and shows where the code differs from what the
repository says (quoted in `PROJECT.json`): `MysqlSession_prepare` violates
`InStep`, as the rest of a COM_STMT_PREPARE response is left unread.

## Known limits

Passing properties state the limit up to which they hold. What lies beyond:

- `RepliesMatchUntilRest`: after a read timeout (`shadow_worker.go:233`) the late
  reply is credited to the next request, although `README.md:168` promises
  "accurate latency measurements". The same goes for what follows the OK packet of
  a COM_STMT_PREPARE response and for a LOAD DATA LOCAL exchange, of which the
  worker's parser returns before the end: nothing is claimed after one of these.
- `CloseReturns`: a `Write` to a shadow that stops reading has no deadline, and `Close`
  waits for the worker before it closes the connection that would unblock it.
- `RepliesMatchUntilCall`: a mirrored FunctionCall is not followed by a read, so
  its ReadyForQuery is taken for the next one.
- `LoginFirst` is about the path without TLS. With TLS (`proxy.go:210`) the loop
  starts after an auth switch request or an error as well, although
  `proxy.go:287` "expects the handshake to be complete". `EofStripped` leaves out
  a client that declines an offered TLS.
- `SeqInStep` ends with the handshake. Over TLS the reply to an auth switch request
  is passed on by the session loop with the client's number, 4, where the primary
  expects 3 (the loop does not rewrite numbers), and the primary hangs up.
- `ReadShadowResult` takes any first byte but 0xFF (error) and 0xFE (auth switch) for
  a login: after an AuthMoreData packet the worker starts on a session that the
  shadow has not opened. `SessionStarts` is about the client's session, which goes on.
- `SessionStarts`: the shadow login has no deadline (`proxy.go:371`), so a shadow that
  stays silent keeps the client from its session.
- `NoEndLeftOver` and `Answered` of `PgSession` hold without `"call"` among the `Frames`: a
  FunctionCall is answered with a ReadyForQuery that the loop does not wait for
  (`pg_proxy.go:380`) and takes for that of the next Query or Sync. What the primary
  sends before that, for a Flush or unasked, stays unread until the next Query or
  Sync, and is credited to it; a client that waits for the answer to a Flush waits
  until then (`pg_proxy.go:306` counts Flush among the messages that "don't trigger
  a response"). `Answered` is about clients that wait for a login, a Query or a Sync.
- `AllowedRunsMatch` is about allowed statements. An Execute is mirrored whatever
  its portal was bound to (`pg_proxy.go:463`), so the shadow may execute again what
  an earlier Bind left; `docs/POSTGRES.md:107` says it is filtered.
  `BindFindsStatement` and `AllowedRunsMatch` end when the map was cleared or a
  filtered Parse refused by the primary.
- `Answered` of `MysqlSession` fails with `"failing"` among the `Commands`: a query that
  ends in ERR among its rows, which the row loop does not look for. In a session
  without shadow a client that waits while the primary goes away keeps waiting,
  as only the copy towards it ends.
- `RunsAlike` and `SessionsAgree` end when a USE sent as COM_QUERY is filtered out, a
  command dropped, or one fails on one side only. A dropped COM_STMT_PREPARE makes
  all later statement ids differ.
- `Parity` is the formula of `docs/usage-patterns.md:210` with two corrections: the
  drop counter also counts commands that are no queries, and the last query of a
  session is counted for the primary even if the primary did not take it.
  `EntriesPaired` excepts dropped commands and the last one, COM_QUIT among them.
- `FlushedBeforeExit` is about entries queued before `Close`. Handlers are not waited
  for at the exit, and their workers are not drained.
- `OperationDetected` is about texts the passes are written for (`plain`). Others can
  be misjudged: a quote, semicolon or backslash in a comment; a backslash outside
  a string; a line comment within a statement; a string directly behind a word; a
  statement that does not begin with a word; an unterminated comment.
- `Documented` leaves out criteria without a mode. The code takes them for those of
  an include filter (`query_filter.go:43`; `query_filter_test.go:673` expects it); `README.md:460`
  says "If unset, filtering is disabled (mirror all)", `docs/POSTGRES.md:111` "Empty
  disables filtering" and `config.go:52` "empty = disabled, shadow everything".

## Fairness

Weak fairness of the goroutines' steps: the Go scheduler runs a goroutine that
can run, and timers fire. A read with a deadline (both workers) therefore
returns, with or without the server; a `select` with a timer does too. That a
`Write` returns is an assumption: the code sets no write deadline, and a shadow
that stops reading would keep `Close` waiting for its worker. In the sessions the
primary is assumed to answer what it has read, and to come to the end of every
response (`AnswerLast`, `PrimaryAuth`, `PrimaryAnswers`), since the proxy sets no deadline there and a client talking
to the primary directly would wait as well; and a client whose connection was
closed notices. In `MysqlHandshake` only the handler is assumed to go on when it
can; `SessionStarts` names the shadow that stays silent, since its login has no
deadline and comes before the client is served. In `PacketReader` what was sent arrives. In `Process`
dials return (they have a timeout), `Accept` returns a connection that waits, and
closing the logger returns (its flush has a deadline). In the steady state no
client is assumed to send anything, no handler to end, no backend to change.

## What is proved

TLAPS checks these for every value of the constants, under the named assumptions
on them: sizes are naturals, and so a shadow queue may have capacity zero; the
logger's sizes are positive; texts and names are distinct from the null values; a
stream consists of packets no larger than the maximum; there is a database; the
null command is no command; a result set has at least one column, and fewer than
2^24 (a larger count would begin with the first byte of an EOF packet).

*ShadowWorkerProofs.* `Invariance`: `IInv` of `ShadowWorker` is inductive. The
properties alone are not: `Lifecycle` ties the channels to the two program
counters (`doneCh` is closed exactly when the worker is past its loop, the
connection is open until the join, a request is in hand exactly while one is
being processed, and a worker that returns unforced has left the queue empty),
`SkippedOnlyIfForced` and `InFlightWhenForced` say what the forced close may still
find in flight, and `ReplyInStep` that before the first timeout or unread rest at
most the current request is unanswered. From it follow `TypeCorrect`, `NoUseAfterClose`, `Fifo`,
`DrainComplete`, `ForceIsPrompt` and `RepliesCorrect`. `Refinement` proves
`ImplementsMirror`: initial states map to initial states, and every step to a step
of `ShadowMirror` or a stutter.

*PgShadowWorkerProofs.* The same theorems for the pgwire worker, `FailureLatches`
for the dead latch in the place of prompt force, and `Refinement`. `Lifecycle` has
the latch in it (the connection is closed exactly when the worker is dead, until
the handler closes it); `Latched` says that a frame is left out only after a forced
close or a failure and that nothing is on the wire then; `ReadyInStep` that,
without a FunctionCall, a ReadyForQuery on its way is the one that is waited for.

*MirroredSessionProofs.* `RunAlike` and `AgreeWhenCaughtUp`. The invariant is
`OneHistory`: as long as nothing was missed, the requests in the queue are a chain.
The oldest finds the session the shadow has, each next one the session that its
predecessor leaves, and the last leaves the primary's. `LogsPaired` (`EntriesPaired`)
and `CountersAgree` (`Parity`) rest on `Books`: commands are numbered in the order
they are read (`Numbered`); each one the primary's log has was executed, filtered,
dropped or is still queued for the shadow (`Answered`); and the counters balance once
the queries in the queue and the one in the handler's hand are added to the shadow's
side (`Balance`), the last two as long as the worker was not forced to give up.
`WorkerAsPromised` shows that the composition asks nothing of the worker that
`ShadowMirror` does not promise: the session's behaviours satisfy the abstract
specification that both workers are proved to implement.

*MysqlProofs.* `PrimaryLogComplete` (`LoggedOnce`) for all commands: one primary entry
per command, on every path out of the loop. For commands other than `failing` and
`prepare` (the hypothesis `Ordinary`): `ResponsesReadWhole` (`InStep`),
`ResponsesReadNoFurther` (`SameEnd`) and `ResponseOwed` (`NeverStuck`: while the handler
waits in the middle of a response, the rest of it is on its way or the primary is
still to send it), for results of any number of columns and rows and responses of
any number of results. None of the three is inductive, as they speak of
the parser's state or of the end of the response only. The invariant `InTurn` says
that the packets on their way from the primary, followed by the results it has
still to send, are exactly the rest of the response that the parser expects; the
witness is a `Trace`, the parser's state before each of these packets, in which only
the packet with the client's mark ends the response. That a result has a trace is
shown from its layout (`ResultSetPath`), without induction over its rows.

*QueryLoggerProofs.* `TypeCorrect`, `OnceInOrder`, `ShutdownFlushes`. The written
entries, the batch and the channel, one after the other, are always the queued
entries; shutdown needs in addition that once the loop has found the channel
empty after the cancellation, what was queued at `Close` is no longer in it. The
second half of the module is about the process that closes the logger:
`ProcessTypes`, and `AbruptExitSafe` (`AbruptExitLosesNothing`). The fatal exits are all
in the start-up, where nobody can have connected because the listener is opened by
its last step, and a signal kills only before `Notify`.

*PacketReaderProofs.* `CompletePackets` (`Framed`) and `NoEmptyRead`. The invariant: the
bytes held back in `result` and the unread ones in the buffer are the bytes of the
stream after those returned (`Content`), the reader stands at the beginning of a
packet and knows its length in the body (`AtPacket`), what is held back is the
beginning of one command (`HeldBack`).

*MysqlHandshakeProofs.* `PacketsInStep` (`SeqInStep`), `LoginComesFirst` (`LoginFirst`) and
`MarkersKept` (`EofStripped`). The model has no constants and finitely many states, so
that TLC's run is exhaustive as well; the proof says why they hold. The invariant
`Exchange` says which packet is under way between client, handler and primary, one
case of `Situation` for each, with the phases and the counters of both ends that go
with it (`LateReply` is the reply to an auth switch request that the session loop
passes on); `ShadowSituation` says the same of the shadow's login, and `NoEof` which
packets may carry the capability.

*PgProofs.* The sticky filter: `StickyTypes`, `NoMissingStatement`, `AllowedMirrored`,
`MapStaysBounded`. The invariant `Tracked` says of each name that the shadow has the
primary's statement unless the name is in the map, and that portals of allowed
statements agree, all as long as `tainted` is false. The session: `BytesUnmodified`
(`Transparent`) and `EachFrameLogged` (one primary entry per frame served) for all
frames; `NothingLeftOver` (`NoEndLeftOver`) for clients that do not use FunctionCall,
whatever else they send and however early the primary answers. The last needs to
know what is between handler and primary in each phase: `LoggingIn`, `Serving` (at the
top of the loop only frames and answers without an end; while a response is waited
for, behind these the one frame that has one, or its answer, whose last message is
the only one that ends it) and `CopyFramesLate`.

Only model-checked: liveness (fairness and ENABLED are beyond the prover);
`OperationDetected` and `Documented` of `QueryFilter`, whose algorithms are recursive over
the text, which would need induction over data. `InStep` and `SameEnd` are not claimed for `failing`
and `prepare`, for which the run `MysqlSession_prepare` and the limits above show the
contrary. Data abstracted to classes (packets, frames, texts) is abstracted for the
proofs as well.

## What is not modelled

- Length-encoded integers, the names in pgwire messages, scrambles and password
  hashes, JSON and object names: computations on bytes without state.
- Counters and histograms other than those of the parity formula: the proxy never
  reads them back. Parsing of environment variables: values are constants, or the
  configurations of `QueryFilter` and `Process`.
- TLS and certificates: external; loading and upgrading succeed or fail.
- Regular expressions: a pattern of the filter is a word that the text contains.
- The table of operations beyond one two-word entry: matching treats all alike.
- `QUERY_LOG_BUFFER_SIZE` or `QUERY_LOG_BATCH_SIZE` of zero, which the configuration
  does not reject; `LoggerAssumption` excludes them.
- COM_FIELD_LIST, COM_STATISTICS and COM_STMT_FETCH, whose responses have other
  shapes; a client that sends file contents for LOCAL INFILE; rows of 16MB or
  more, whose continuation packets the row loop looks at like rows.
- AuthMoreData from the primary, and with it authentication of more than one round
  after the switch.
- Postgres messages that arrive while the session is idle (notices), which like
  early answers are forwarded with the next response; clients that pipeline several
  Syncs; a COPY begun by Execute; a Query behind an extended-protocol error, which
  Postgres skips until a Sync.

## Plan

1. Pipelining Postgres clients and idle messages in `PgSession`.
2. Rows over several packets in `MysqlResponse`, composed with `PacketReader`.
3. Further authentication rounds in `MysqlHandshake`, with their cases in `Situation`.
