---------------------------- MODULE MysqlSession ----------------------------
(***************************************************************************)
(* A MySQL session in its steady state (proxy.go, proxyWithMirrorWorker):  *)
(* read a command from the client, write it to the primary, offer it to    *)
(* the shadow worker, read the response with the parser of MysqlResponse   *)
(* and forward it packet by packet.  The client and the primary are        *)
(* modelled as far as this loop depends on them; of the shadow, only what  *)
(* it is offered (what becomes of it is the subject of MirroredSession).   *)
(* Without a shadow worker the session is proxyWithoutShadow's instead:    *)
(* two goroutines that copy bytes, and the handler waiting for both.       *)
(***************************************************************************)
EXTENDS MysqlResponse

CONSTANTS
  Commands,       \* the kinds of commands the client sends, see LastResult
  MaxCommands,    \* bound: how many commands it sends
  MaxInFlight     \* bound: with so many packets on their way to it, the client
                  \* is sent no further result

ASSUME SessionAssumption ==
  /\ Commands \subseteq {"query", "execute", "failing", "prepare", "simple",
                         "silent", "quit"}
  /\ MaxCommands \in Nat /\ MaxInFlight \in Nat

VARIABLES
  client,         \* "idle", "wait" for a response, "infile" or "gone"
  up,             \* commands on their way from the client
  pc,             \* where the handler is
  cur,            \* <<c>>: the command it is serving, or <<>>
  parser,         \* state of the response parser
  primary,        \* "up" or "down"
  work,           \* commands the primary has not answered yet
  down,           \* packets on their way from the primary
  next,           \* id of the client's next command
  read,           \* history: ids of the commands the handler has read
  primaryLog,     \* history: ids with a target=primary entry, in order
  copying         \* the directions proxyWithoutShadow still copies

vars == <<client, up, pc, cur, parser, primary, work, down, next, read,
          primaryLog, copying>>

\* The kinds of commands.  "silent": COM_STMT_CLOSE, COM_STMT_SEND_LONG_DATA;
\* "simple": the isSimpleResponseCommand ones; "empty": the packet that ends
\* LOCAL INFILE, too short to have a command byte; "failing": a query that
\* fails midway.

Init ==
  /\ client = "idle" /\ up = <<>>
  /\ cur = <<>> /\ parser = Start
  /\ \/ pc = "read" /\ copying = {}
     \/ pc = "copy" /\ copying = {"up", "down"}
  /\ primary = "up" /\ work = <<>> /\ down = <<>>
  /\ next = 1
  /\ read = <<>> /\ primaryLog = <<>>
-----------------------------------------------------------------------------
(* The client: one request at a time, as MySQL clients work.               *)

HasResponse(cmd) == cmd \notin {"silent", "quit"}

ClientSends(cmd) ==
  /\ next <= MaxCommands
  /\ next' = next + 1
  /\ up' = Append(up, [id |-> next, cmd |-> cmd])
  /\ client' = IF HasResponse(cmd) THEN "wait" ELSE client
  /\ UNCHANGED <<pc, cur, parser, primary, work, down, read, primaryLog,
                 copying>>

ClientCommand == client = "idle" /\ \E cmd \in Commands : ClientSends(cmd)

\* Asked for a local file, the client has none to send.
ClientRefusesFile == client = "infile" /\ ClientSends("empty")

\* It disconnects, or sees that the handler has closed the connection.
ClientGone ==
  /\ client # "gone"
  /\ client' = "gone"
  /\ UNCHANGED <<up, pc, cur, parser, primary, work, down, next, read,
                 primaryLog, copying>>
-----------------------------------------------------------------------------
(* The handler.                                                            *)

ReadCommand ==
  /\ pc = "read"
  /\ up # <<>>
  /\ cur' = <<Head(up)>>
  /\ up' = Tail(up)
  /\ read' = Append(read, Head(up).id)
  /\ pc' = "write"
  /\ UNCHANGED <<client, parser, primary, work, down, next, primaryLog,
                 copying>>

ReadEnds ==
  /\ pc = "read"
  /\ client = "gone"
  /\ pc' = "ended"
  /\ UNCHANGED <<client, up, cur, parser, primary, work, down, next, read,
                 primaryLog, copying>>

\* Mutant: the error path does not log.
SkipLog == UNCHANGED primaryLog

logPrimaryExecution == primaryLog' = Append(primaryLog, cur[1].id)

isNoResponseCommand(cmd) == cmd \in {"silent", "quit"}

\* Mutant: every response goes through the result-set parser.
NoSimpleCommand(cmd) == FALSE

isSimpleResponseCommand(cmd) == cmd = "simple"

\* The command is written, mirrored and, if it has no response, done with.
WritePrimary ==
  /\ pc = "write"
  /\ work' = IF primary = "up" THEN Append(work, cur[1]) ELSE work
  /\ LET cmd == cur[1].cmd
     IN  IF isNoResponseCommand(cmd)
           THEN /\ pc' = IF cmd = "quit" THEN "ended" ELSE "read"
                /\ logPrimaryExecution
           ELSE /\ pc' = IF isSimpleResponseCommand(cmd) THEN "simple"
                                                         ELSE "respond"
                /\ UNCHANGED primaryLog
  /\ parser' = Start
  /\ UNCHANGED <<client, up, cur, primary, down, next, read, copying>>

WriteError ==
  /\ pc = "write"
  /\ primary = "down"
  /\ pc' = "ended"
  /\ logPrimaryExecution
  /\ UNCHANGED <<client, up, cur, parser, primary, work, down, next, read,
                 copying>>

\* Packet p reaches the client; the last one ends its wait.
Deliver(p) ==
  client' = IF client = "wait" /\ p.last
              THEN IF p.k = "infile" THEN "infile" ELSE "idle"
              ELSE client

\* ReadAndForwardSimpleResponse: one packet, whatever it is.
ForwardSimple ==
  /\ pc = "simple"
  /\ down # <<>>
  /\ down' = Tail(down)
  /\ Deliver(Head(down))
  /\ pc' = "read"
  /\ logPrimaryExecution
  /\ UNCHANGED <<up, cur, parser, primary, work, next, read, copying>>

\* One ReadPacket of ReadAndForwardResponse, and the Write that forwards it.
ForwardPacket ==
  /\ pc = "respond"
  /\ down # <<>>
  /\ down' = Tail(down)
  /\ Deliver(Head(down))
  /\ parser' = Step(parser, Head(down))
  /\ IF parser'.at = "done"
       THEN pc' = "read" /\ logPrimaryExecution
       ELSE UNCHANGED <<pc, primaryLog>>
  /\ UNCHANGED <<up, cur, primary, work, next, read, copying>>

\* The primary closes the connection, or the client does not take a packet.
ForwardError ==
  /\ pc \in {"simple", "respond"}
  /\ \/ primary = "down" /\ down = <<>>
     \/ client = "gone" /\ down # <<>>
  /\ pc' = "ended"
  /\ logPrimaryExecution
  /\ UNCHANGED <<client, up, cur, parser, primary, work, down, next, read,
                 copying>>
-----------------------------------------------------------------------------
(* proxyWithoutShadow: io.Copy in both directions.                         *)

CopyCommand ==
  /\ "up" \in copying
  /\ up # <<>>
  /\ up' = Tail(up)
  /\ work' = IF primary = "up" THEN Append(work, Head(up)) ELSE work
  /\ UNCHANGED <<client, pc, cur, parser, primary, down, next, read, primaryLog,
                 copying>>

CopyPacket ==
  /\ "down" \in copying
  /\ down # <<>>
  /\ down' = Tail(down)
  /\ Deliver(Head(down))
  /\ UNCHANGED <<up, pc, cur, parser, primary, work, next, read, primaryLog,
                 copying>>

\* A copy ends when its source does or its destination takes no more.
UpEnds == IF up = <<>> THEN client = "gone" ELSE primary = "down"
DownEnds == IF down = <<>> THEN primary = "down" ELSE client = "gone"

CopyEnds(direction, ends) ==
  /\ direction \in copying
  /\ ends
  /\ copying' = copying \ {direction}
  /\ UNCHANGED <<client, up, pc, cur, parser, primary, work, down, next, read,
                 primaryLog>>

\* Mutant: the copy from the primary returns without its wg.Done().
DoneMissing == FALSE

Joined == copying = {}

\* wg.Wait() returns.
CopyJoined ==
  /\ pc = "copy"
  /\ Joined
  /\ pc' = "ended"
  /\ UNCHANGED <<client, up, cur, parser, primary, work, down, next, read,
                 primaryLog, copying>>
-----------------------------------------------------------------------------
(* The primary.                                                            *)

\* A result that another one follows.
AnswerMore ==
  /\ primary = "up"
  /\ work # <<>>
  /\ Len(down) < MaxInFlight
  /\ \E r \in MoreResult(Head(work).cmd) : down' = down \o r
  /\ UNCHANGED <<client, up, pc, cur, parser, primary, work, next, read,
                 primaryLog, copying>>

\* The last one, if the command has a response.
AnswerLast ==
  /\ primary = "up"
  /\ work # <<>>
  /\ work' = Tail(work)
  /\ LET c == Head(work)
     IN  IF HasResponse(c.cmd)
           THEN \E r \in LastResult(c.cmd) : down' = down \o r
           ELSE UNCHANGED down
  /\ UNCHANGED <<client, up, pc, cur, parser, primary, next, read, primaryLog,
                 copying>>

\* It goes away, perhaps halfway through a response.
PrimaryDown ==
  /\ primary = "up"
  /\ primary' = "down"
  /\ work' = <<>>
  /\ \E k \in 0..Len(down) : down' = SubSeq(down, 1, k)
  /\ UNCHANGED <<client, up, pc, cur, parser, next, read, primaryLog,
                 copying>>
-----------------------------------------------------------------------------
ClientStep == ClientCommand \/ ClientRefusesFile \/ ClientGone

HandlerStep ==
  \/ ReadCommand \/ ReadEnds \/ WritePrimary \/ WriteError
  \/ ForwardSimple \/ ForwardPacket \/ ForwardError

CopyUp == CopyCommand \/ CopyEnds("up", UpEnds)
CopyDown == CopyPacket \/ CopyEnds("down", DownEnds)

PrimaryStep == AnswerMore \/ AnswerLast \/ PrimaryDown

\* Nobody is left to do anything.
Ended ==
  /\ client = "gone"
  /\ pc = "ended" \/ primary = "down"
  /\ UNCHANGED vars

Next ==
  \/ ClientStep \/ HandlerStep \/ CopyUp \/ CopyDown \/ CopyJoined
  \/ PrimaryStep \/ Ended

Spec == Init /\ [][Next]_vars

(***************************************************************************)
(* Fairness: every goroutine runs when it can, the primary gets to the end *)
(* of every response, and a client sees its connection closed once the     *)
(* handler ends.  Nobody need send a command or go away.                   *)
(***************************************************************************)
FairSpec ==
  /\ Spec
  /\ WF_vars(HandlerStep)
  /\ WF_vars(CopyUp) /\ WF_vars(CopyDown) /\ WF_vars(CopyJoined)
  /\ WF_vars(AnswerLast)
  /\ WF_vars(pc = "ended" /\ ClientGone)
-----------------------------------------------------------------------------
\* "Reads complete MySQL responses" (README): when the handler turns to the
\* next command, no packet of the last response is left to be taken for an
\* answer to it.
InStep == pc \in {"read", "write"} => down = <<>>

\* The parser and the client agree on where the response ends: the handler
\* still reads a response only while the client waits for one, so it never
\* blocks on the primary while the client sends the next command.
SameEnd == pc \in {"simple", "respond"} => client \in {"wait", "gone"}

\* Whatever path the handler takes, every command it has read gets exactly one
\* target=primary log entry, in order.
LoggedOnce ==
  /\ Len(primaryLog) <= Len(read)
  /\ \A i \in 1..Len(primaryLog) : primaryLog[i] = read[i]
  /\ pc \in {"read", "ended"} => Len(primaryLog) = Len(read)

\* A client that waits for a response gets it, or loses the connection; in a
\* session without shadow, only as long as the primary is there, for nobody
\* closes the client's connection while the copy from the client goes on.
Answered ==
  client = "wait" ~> (client # "wait" \/ (pc = "copy" /\ primary = "down"))

\* Once the client and the primary are gone the handler returns, wherever it
\* is, and its deferred calls release the connections; proxyWithoutShadow waits
\* for two copies to see it, each of which may outlive the other.
Released == (client = "gone" /\ primary = "down") ~> pc = "ended"
=============================================================================
