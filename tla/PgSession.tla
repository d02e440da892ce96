----------------------------- MODULE PgSession ------------------------------
(***************************************************************************)
(* A pgwire connection (pg_proxy.go): the startup and authentication       *)
(* phases, the start of the shadow worker, the request/response loop of    *)
(* runQueryLoop and the plain copying it falls back to for COPY.  The      *)
(* client and the primary are modelled as far as the proxy depends on      *)
(* them; which frames are mirrored is the subject of PgStickyFilter, what  *)
(* becomes of them that of PgShadowWorker.                                 *)
(***************************************************************************)
EXTENDS Naturals, Sequences

CONSTANTS
  Frames,         \* the kinds of frames the client sends once logged in
  MaxFrames       \* bound: how many of them

ASSUME PgSessionAssumption ==
  /\ Frames \subseteq {"plain", "flush", "call", "query", "copy", "sync",
                       "terminate"}
  /\ MaxFrames \in Nat

VARIABLES
  listenerTLS,    \* p.listenerTLS # nil
  client,         \* what the client is doing
  asks,           \* encryption requests it may still make
  up,             \* frames on their way from the client
  pc,             \* where handleConnection is
  cur,            \* the frame runQueryLoop is serving
  primary,        \* what the primary is doing
  work,           \* frames the primary has not looked at
  down,           \* messages on their way from the primary
  frames,         \* how many frames the client has sent since login
  sent,           \* history: messages the primary has sent
  got,            \* history: those the client has received
  read, logged    \* history: frames runQueryLoop has read, log entries

vars == <<listenerTLS, client, asks, up, pc, cur, primary, work, down, frames,
          sent, got, read, logged>>

\* "plain": Parse, Bind, Describe, Execute, Close; "call": FunctionCall;
\* "copy": a Query that the primary answers with CopyIn/CopyOut/
\* CopyBothResponse.
Frame == Frames \cup {"gss", "ssl", "cancel", "startup", "password",
                      "copyData", "copyDone"}
Message == {"authReq", "saslFinal", "authOk", "error", "data", "copy",
            "ready"}
ClientPc == {"start", "asked", "login", "idle", "wait", "copying", "gone"}
HandlerPc == {"dial", "startup", "auth", "password", "shadow", "read", "write",
              "respond", "copying", "ended"}
PrimaryPc == {"new", "authWait", "up", "down"}

Init ==
  /\ listenerTLS \in BOOLEAN
  /\ client = "start" /\ asks = {"gss", "ssl"} /\ up = <<>>
  /\ pc = "dial" /\ cur = "startup"
  /\ primary = "new" /\ work = <<>> /\ down = <<>>
  /\ frames = 0 /\ sent = <<>> /\ got = <<>> /\ read = 0 /\ logged = 0

ClientVars == <<client, asks, up, frames>>
HandlerVars == <<pc, cur, read, logged>>
PrimaryVars == <<primary, work, sent>>
-----------------------------------------------------------------------------
(* handleConnection: startup and authentication.                           *)

\* The dial and, where configured, upgradeBackendTLS; either may fail.
DialPrimary ==
  /\ pc = "dial"
  /\ pc' \in {"startup", "ended"}
  /\ UNCHANGED <<listenerTLS, ClientVars, cur, PrimaryVars, down, got, read,
                 logged>>

\* forwardStartup: 'N' to a request for GSS encryption, or for TLS when the
\* proxy does not terminate it; the upgrade itself may fail.
AnswerEncryption ==
  /\ pc = "startup"
  /\ up # <<>> /\ Head(up) \in {"gss", "ssl"}
  /\ up' = Tail(up)
  /\ \/ /\ pc' = pc
        /\ client' = IF client = "asked" THEN "start" ELSE client
     \/ /\ (Head(up) = "ssl" /\ listenerTLS) \/ client = "gone"
        /\ pc' = "ended"
        /\ UNCHANGED client
  /\ UNCHANGED <<listenerTLS, asks, cur, PrimaryVars, down, frames, got, read,
                 logged>>

\* A CancelRequest or the StartupMessage goes to the primary.
ForwardStartup ==
  /\ pc = "startup"
  /\ up # <<>> /\ Head(up) \in {"cancel", "startup"}
  /\ up' = Tail(up)
  /\ work' = IF primary = "down" THEN work ELSE Append(work, Head(up))
  /\ pc' = IF Head(up) = "cancel" THEN "ended" ELSE "auth"
  /\ UNCHANGED <<listenerTLS, client, asks, cur, primary, down, frames, sent,
                 got, read, logged>>

\* What the client does on message m.
Acts(m) ==
  client' = CASE client \in {"login", "wait"} /\ m = "ready" -> "idle"
              [] client = "wait" /\ m = "copy" -> "copying"
              [] OTHER -> client

\* Mutant: only the messages that the handler acts on are forwarded.
WriteSome(m) ==
  IF m = "data" THEN UNCHANGED <<got, client>>
                ELSE got' = Append(got, m) /\ Acts(m)

\* client.Write(msg.Bytes()): the message goes to the client as it is.
WriteClient(m) ==
  /\ got' = Append(got, m)
  /\ Acts(m)

\* Mutant: every AuthenticationXxx is taken for a request.
AllAskPassword(m) == m \in {"authReq", "saslFinal"}

\* The authentication codes that the client answers with a message of its own.
AsksPassword(m) == m = "authReq"

\* One round of forwardAuthPhase.
ForwardAuth ==
  /\ pc = "auth"
  /\ down # <<>>
  /\ LET m == Head(down)
     IN  /\ WriteClient(m)
         /\ pc' = CASE AsksPassword(m) -> "password"
                    [] m = "ready" -> "shadow"
                    [] m = "error" -> "ended"
                    [] OTHER -> "auth"
         /\ up' = IF m = "authReq" /\ client = "login"
                    THEN Append(up, "password") ELSE up
  /\ down' = Tail(down)
  /\ UNCHANGED <<listenerTLS, asks, cur, PrimaryVars, frames, read, logged>>

ForwardPassword ==
  /\ pc = "password"
  /\ up # <<>>
  /\ up' = Tail(up)
  /\ work' = IF primary = "down" THEN work ELSE Append(work, Head(up))
  /\ pc' = "auth"
  /\ UNCHANGED <<listenerTLS, client, asks, cur, primary, down, frames, sent,
                 got, read, logged>>

\* startShadowWorker: whatever becomes of it, the session goes on.
StartShadow ==
  /\ pc = "shadow"
  /\ pc' = "read"
  /\ UNCHANGED <<listenerTLS, ClientVars, cur, PrimaryVars, down, got, read,
                 logged>>
-----------------------------------------------------------------------------
(* runQueryLoop.                                                           *)

ReadFrame ==
  /\ pc = "read"
  /\ up # <<>>
  /\ cur' = Head(up)
  /\ up' = Tail(up)
  /\ read' = read + 1
  /\ pc' = "write"
  /\ UNCHANGED <<listenerTLS, client, asks, PrimaryVars, down, frames, got,
                 logged>>

logEntry == logged' = logged + 1

\* Mutant: Sync is not waited for.
OnlyQueryWaits(f) == f \in {"query", "copy"}

\* Only Query and Sync are followed by a read of the response.
TriggersResponse(f) == f \in {"query", "copy", "sync"}

\* The frame is written and offered to the shadow; unless it is a Query or a
\* Sync it is then logged, and Terminate ends the loop.
WritePrimary ==
  /\ pc = "write"
  /\ work' = IF primary = "down" THEN work ELSE Append(work, cur)
  /\ IF TriggersResponse(cur)
       THEN pc' = "respond" /\ UNCHANGED logged
       ELSE /\ pc' = IF cur = "terminate" THEN "ended" ELSE "read"
            /\ logEntry
  /\ UNCHANGED <<listenerTLS, ClientVars, cur, primary, down, sent, got, read>>

WriteError ==
  /\ pc = "write"
  /\ primary = "down"
  /\ pc' = "ended"
  /\ logEntry
  /\ UNCHANGED <<listenerTLS, ClientVars, cur, PrimaryVars, down, got, read>>

\* The messages that end forwardResponseUntilReady.
EndsResponse(m) == m \in {"ready", "copy"}

\* One message of forwardResponseUntilReady; the last one is logged.
ForwardResponse ==
  /\ pc = "respond"
  /\ down # <<>>
  /\ LET m == Head(down)
     IN  /\ WriteClient(m)
         /\ IF EndsResponse(m)
              THEN /\ pc' = IF m = "copy" THEN "copying" ELSE "read"
                   /\ logEntry
              ELSE UNCHANGED <<pc, logged>>
  /\ down' = Tail(down)
  /\ UNCHANGED <<listenerTLS, asks, up, cur, PrimaryVars, frames, read>>

ResponseError ==
  /\ pc = "respond"
  /\ \/ primary = "down" /\ down = <<>>
     \/ client = "gone" /\ down # <<>>
  /\ pc' = "ended"
  /\ logEntry
  /\ UNCHANGED <<listenerTLS, ClientVars, cur, PrimaryVars, down, got, read>>

\* copyFallback: two goroutines copy; the first to end closes both ends.
CopyUp ==
  /\ pc = "copying"
  /\ up # <<>>
  /\ up' = Tail(up)
  /\ work' = IF primary = "down" THEN work ELSE Append(work, Head(up))
  /\ UNCHANGED <<listenerTLS, client, asks, HandlerVars, primary, down, frames,
                 sent, got>>

CopyDown ==
  /\ pc = "copying"
  /\ down # <<>>
  /\ WriteClient(Head(down))
  /\ down' = Tail(down)
  /\ UNCHANGED <<listenerTLS, asks, up, HandlerVars, PrimaryVars, frames>>

\* Mutant: both goroutines must end.
BothDone == client = "gone" /\ primary = "down"

\* <-done: one of the copies has met the end of its input or cannot write.
OneDone ==
  \/ client = "gone" /\ (up = <<>> \/ down # <<>>)
  \/ primary = "down" /\ (down = <<>> \/ up # <<>>)

CopyEnds ==
  /\ pc = "copying"
  /\ OneDone
  /\ pc' = "ended"
  /\ UNCHANGED <<listenerTLS, ClientVars, cur, PrimaryVars, down, got, read,
                 logged>>

\* Any other read or write fails because the peer is gone: the handler returns.
PeerGone ==
  /\ \/ pc \in {"startup", "password", "read"} /\ client = "gone" /\ up = <<>>
     \/ pc \in {"startup", "password"} /\ primary = "down" /\ up # <<>>
     \/ pc = "auth" /\ primary = "down" /\ down = <<>>
     \/ pc = "auth" /\ client = "gone" /\ down # <<>>
  /\ pc' = "ended"
  /\ UNCHANGED <<listenerTLS, ClientVars, cur, PrimaryVars, down, got, read,
                 logged>>
-----------------------------------------------------------------------------
(* The client.                                                             *)

Sends(f, to) ==
  /\ up' = Append(up, f)
  /\ client' = to
  /\ UNCHANGED <<listenerTLS, HandlerVars, PrimaryVars, down, got>>

AskEncryption ==
  /\ client = "start"
  /\ \E f \in asks : Sends(f, "asked") /\ asks' = asks \ {f}
  /\ UNCHANGED frames

Login ==
  /\ client = "start"
  /\ Sends("startup", "login") \/ Sends("cancel", "gone")
  /\ UNCHANGED <<asks, frames>>

\* What the client does after f.  It may or may not send on after a Flush; a
\* frame that ends in ReadyForQuery makes it wait.
Waits(f) ==
  CASE f \in {"query", "copy", "sync", "call"} -> "wait"
    [] f = "terminate" -> "gone"
    [] OTHER -> "idle"

SendFrame ==
  /\ client = "idle"
  /\ frames < MaxFrames /\ frames' = frames + 1
  /\ \E f \in Frames : Sends(f, Waits(f))
  /\ UNCHANGED asks

SendCopy ==
  /\ client = "copying"
  /\ \/ /\ frames < MaxFrames /\ frames' = frames + 1
        /\ Sends("copyData", "copying")
     \/ Sends("copyDone", "wait") /\ UNCHANGED frames
  /\ UNCHANGED asks

ClientGone ==
  /\ client # "gone"
  /\ client' = "gone"
  /\ UNCHANGED <<listenerTLS, asks, up, HandlerVars, PrimaryVars, down, frames,
                 got>>
-----------------------------------------------------------------------------
(* The primary.                                                            *)

Emit(ms) == sent' = sent \o ms /\ down' = down \o ms

\* Its answers to the startup: let in at once, ask, refuse.
AuthAnswers(rounds) ==
  {<<"authOk", "data", "ready">>, <<"saslFinal", "authOk", "data", "ready">>,
   <<"error">>} \cup IF rounds > 0 THEN {<<"authReq">>} ELSE {}

PrimaryAuth ==
  /\ primary \in {"new", "authWait"}
  /\ work # <<>> /\ Head(work) \in {"startup", "password"}
  /\ work' = Tail(work)
  /\ \E ms \in AuthAnswers(IF primary = "new" THEN 1 ELSE 0) :
       /\ Emit(ms)
       /\ primary' = CASE ms = <<"authReq">> -> "authWait"
                       [] ms = <<"error">> -> "down"
                       [] OTHER -> "up"
  /\ UNCHANGED <<listenerTLS, ClientVars, HandlerVars, got>>

\* Its answers in the steady state.  Those to Parse, Bind, Describe, Execute
\* and Close go out with the next Sync or Flush, or before it: an ErrorResponse
\* at once, rows when the send buffer is full.
Answers(f) ==
  CASE f \in {"query", "sync", "call"} ->
         {<<"ready">>, <<"data", "ready">>, <<"error", "ready">>}
    [] f = "copy" -> {<<"copy">>}
    [] f = "copyDone" -> {<<"data", "ready">>}
    [] f \in {"plain", "flush"} -> {<<>>, <<"data">>, <<"error">>}
    [] OTHER -> {<<>>}

PrimaryAnswers ==
  /\ primary = "up"
  /\ work # <<>>
  /\ work' = Tail(work)
  /\ \E ms \in Answers(Head(work)) : Emit(ms)
  /\ UNCHANGED <<listenerTLS, ClientVars, HandlerVars, primary, got>>

PrimaryDown ==
  /\ primary # "down"
  /\ pc # "dial"
  /\ primary' = "down"
  /\ work' = <<>>
  /\ \E k \in 0..Len(down) :
       /\ down' = SubSeq(down, 1, k)
       /\ sent' = SubSeq(sent, 1, Len(sent) - (Len(down) - k))
  /\ UNCHANGED <<listenerTLS, ClientVars, HandlerVars, got>>
-----------------------------------------------------------------------------
HandlerStep ==
  \/ DialPrimary \/ AnswerEncryption \/ ForwardStartup \/ ForwardAuth \/ ForwardPassword
  \/ StartShadow \/ ReadFrame \/ WritePrimary \/ WriteError
  \/ ForwardResponse \/ ResponseError \/ CopyEnds \/ PeerGone

ClientStep == AskEncryption \/ Login \/ SendFrame \/ SendCopy \/ ClientGone

PrimaryStep == PrimaryAuth \/ PrimaryAnswers \/ PrimaryDown

Ended == pc = "ended" /\ client = "gone" /\ UNCHANGED vars

Next == HandlerStep \/ CopyUp \/ CopyDown \/ ClientStep \/ PrimaryStep \/ Ended

Spec == Init /\ [][Next]_vars

(***************************************************************************)
(* Fairness: the handler and the two copying goroutines run when they can, *)
(* the primary answers, and the client sees its connection closed once the *)
(* handler has returned.  Nobody need send anything or go away.            *)
(***************************************************************************)
FairSpec ==
  /\ Spec
  /\ WF_vars(HandlerStep) /\ WF_vars(CopyUp) /\ WF_vars(CopyDown)
  /\ WF_vars(PrimaryAuth \/ PrimaryAnswers)
  /\ WF_vars(pc = "ended" /\ ClientGone)
-----------------------------------------------------------------------------
\* Types.
TypeOK ==
  /\ listenerTLS \in BOOLEAN
  /\ client \in ClientPc /\ pc \in HandlerPc /\ primary \in PrimaryPc
  /\ asks \subseteq {"gss", "ssl"}
  /\ up \in Seq(Frame) /\ work \in Seq(Frame) /\ cur \in Frame
  /\ down \in Seq(Message) /\ sent \in Seq(Message) /\ got \in Seq(Message)
  /\ frames \in 0..MaxFrames /\ read \in Nat /\ logged \in Nat

\* "Forwards bytes between a client and the primary without modification":
\* whatever phase the connection is in, the client has received exactly what
\* the primary has sent, in order, but for what is still in flight.
Transparent == sent = got \o down

\* "At top of loop we are in Idle state": answers that the primary sent early to
\* Parse, Bind, Execute or Flush may be waiting in the connection, but never a
\* message that ends a response.  So forwardResponseUntilReady does not stop
\* at the ReadyForQuery of an earlier frame than the one it was called for.
NoEndLeftOver ==
  pc \in {"read", "write"} =>
    \A i \in 1..Len(down) : ~EndsResponse(down[i])

\* Every frame runQueryLoop has read gets exactly one target=primary entry,
\* whichever way it ends.
LoggedOnce ==
  /\ logged <= read
  /\ pc \in {"read", "copying", "ended"} => logged = read

\* A client that waits, for its login or for the ReadyForQuery or the COPY that
\* its Query or Sync leads to, does not wait forever.
Answered == client \in {"login", "wait"} ~> client \notin {"login", "wait"}

\* COPY: when either side has gone, the connection is taken down.
CopyTakenDown ==
  (pc = "copying" /\ (client = "gone" \/ primary = "down")) ~> pc = "ended"
=============================================================================
