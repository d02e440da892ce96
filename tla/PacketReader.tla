---------------------------- MODULE PacketReader ----------------------------
(***************************************************************************)
(* How packets are cut out of a TCP stream (mysql_protocol.go): first by   *)
(* readMySQLPacket, during the handshake, then by MySQLPacketReader, whose *)
(* buffer is compacted, grown and filled by ensureBytes.  A byte is its    *)
(* position in the stream, so that a byte lost, repeated or out of place   *)
(* shows; a Read returns any number of bytes, across packet borders too.   *)
(***************************************************************************)
EXTENDS Naturals, Sequences

CONSTANTS
  NumPackets,     \* how many packets the peer sends
  MaxPayload,     \* 0xFFFFFF: after a packet of this size the command goes on
  InitialSize,    \* size of the buffer of a new reader, 64 KB in the code
  Streams,        \* what the peer may send, see StreamAssumption
  MaxTimeouts     \* bound: how many read deadlines pass

Header == 4

\* Packet k of stream b consists of the bytes b[k-1]+1 to b[k].
ASSUME StreamAssumption ==
  /\ NumPackets \in Nat /\ MaxPayload \in Nat /\ InitialSize \in Nat
  /\ MaxTimeouts \in Nat
  /\ \A b \in Streams :
       /\ b \in [0..NumPackets -> Nat]
       /\ b[0] = 0
       /\ \A j, k \in 0..NumPackets : j < k => b[j] + Header <= b[k]
       /\ \A k \in 1..NumPackets : b[k] <= b[k-1] + Header + MaxPayload

VARIABLES
  begin,          \* the stream
  role,           \* whose packets: "client", "primary" or "shadow"
  pc,             \* where the caller is, see ReaderPc
  stage,          \* which ensureBytes ReadPacket is in: "header" or "body"
  need,           \* its parameter n
  buf,            \* r.buf; 0 is a byte never written
  offset, end,    \* r.offset and r.end
  taken,          \* how many bytes were read from the connection
  start,          \* history: how many of them during the handshake
  result,         \* bytes of the call's packets so far
  out,            \* history: all bytes returned to the caller
  cuts,           \* history: Len(out) after each return
  timeouts        \* how many deadlines have passed

buffer == <<buf, offset, end>>
vars == <<begin, role, pc, stage, need, buffer, taken, start, result, out, cuts,
          timeouts>>

ReaderPc == {"handshake", "idle", "ensure", "fill", "failed"}
Total == begin[NumPackets]
Size == Len(buf)

Init ==
  /\ begin \in Streams
  /\ role \in {"client", "primary", "shadow"}
  /\ pc = "handshake" /\ stage = "header" /\ need = 0
  /\ buf = <<>> /\ offset = 0 /\ end = 0
  /\ taken = 0 /\ start = 0 /\ result = <<>> /\ out = <<>> /\ cuts = {}
  /\ timeouts = 0
-----------------------------------------------------------------------------
(* The connection phase.                                                   *)

\* Mutant: the handshake is read through a buffer that is thrown away.
AfterBuffered(k) == IF k < NumPackets THEN {begin[k], begin[k] + 1}
                                      ELSE {begin[k]}

\* io.ReadFull of the header and then of the payload takes the packet alone.
AfterPacket(k) == {begin[k]}

readMySQLPacket ==
  /\ pc = "handshake"
  /\ \E k \in 1..NumPackets :
       /\ taken = begin[k-1]
       /\ taken' \in AfterPacket(k)
       /\ out' = out \o [i \in 1..begin[k] - begin[k-1] |-> begin[k-1] + i]
       /\ cuts' = cuts \cup {begin[k]}
       /\ start' = begin[k]
  /\ UNCHANGED <<begin, role, pc, stage, need, buffer, result, timeouts>>

NewMySQLPacketReader ==
  /\ pc = "handshake"
  /\ pc' = "idle"
  /\ buf' = [i \in 1..InitialSize |-> 0]
  /\ UNCHANGED <<begin, role, stage, need, offset, end, taken, start, result,
                 out, cuts, timeouts>>
-----------------------------------------------------------------------------
(* The reader.                                                             *)

EnsureHeader == pc' = "ensure" /\ stage' = "header" /\ need' = Header

\* The session calls ReadMultiPacket for the client's commands and ReadPacket
\* for the packets of a response.
Call ==
  /\ pc = "idle"
  /\ EnsureHeader
  /\ result' = <<>>
  /\ UNCHANGED <<begin, role, buffer, taken, start, out, cuts, timeouts>>

Available == end - offset

\* The unread bytes, moved to the front.
Compacted ==
  [i \in 1..Size |-> IF i <= Available THEN buf[offset + i] ELSE buf[i]]

\* The buffer doubled if the packet does not fit.
Grown(b) ==
  IF need > Size
    THEN [i \in 1..2*need |-> IF i <= Available THEN b[i] ELSE 0]
    ELSE b

\* ensureBytes finds too little: it makes room before it reads.
MakeRoom ==
  /\ pc = "ensure"
  /\ Available < need
  /\ buf' = Grown(Compacted)
  /\ end' = Available
  /\ offset' = 0
  /\ pc' = "fill"
  /\ UNCHANGED <<begin, role, stage, need, taken, start, result, out, cuts,
                 timeouts>>

\* conn.Read(r.buf[r.end:]) returns n bytes.
Read(n) ==
  /\ pc = "fill"
  /\ n <= Size - end /\ n <= Total - taken
  /\ buf' = [i \in 1..Size |-> IF i \in end+1..end+n THEN taken + (i - end)
                                                     ELSE buf[i]]
  /\ end' = end + n
  /\ taken' = taken + n
  /\ pc' = IF end' < need THEN "fill" ELSE "ensure"
  /\ UNCHANGED <<begin, role, stage, need, offset, start, result, out, cuts,
                 timeouts>>

ReadSome == \E n \in 1..Size : Read(n)

\* The deadline of the shadow worker passes.  ReadPacket returns the error; a
\* later call starts over with the bytes that are in the buffer.
ReadTimeout ==
  /\ pc = "fill"
  /\ role = "shadow"
  /\ timeouts < MaxTimeouts
  /\ timeouts' = timeouts + 1
  /\ pc' = "idle"
  /\ UNCHANGED <<begin, role, stage, need, buffer, taken, start, result, out,
                 cuts>>

\* The peer closes or resets the connection; the session ends.
ReadError ==
  /\ pc = "fill"
  /\ pc' = "failed"
  /\ UNCHANGED <<begin, role, stage, need, buffer, taken, start, result, out,
                 cuts, timeouts>>

\* The payload length in the header at r.offset; elsewhere in the stream the
\* three bytes may say anything.
LengthAtOffset ==
  LET starts == {k \in 1..NumPackets :
                   \A j \in 1..3 : buf[offset + j] = begin[k-1] + j}
  IN  IF starts = {} THEN 0..MaxPayload
                     ELSE {begin[k] - begin[k-1] - Header : k \in starts}

ParseLength ==
  /\ pc = "ensure" /\ stage = "header"
  /\ Available >= need
  /\ stage' = "body"
  /\ \E length \in LengthAtOffset : need' = Header + length
  /\ UNCHANGED <<begin, role, pc, buffer, taken, start, result, out, cuts,
                 timeouts>>

\* Mutant: length <= 0xFFFFFF, which every packet of a command satisfies.
AlwaysContinues == role = "client"

\* ReadMultiPacket goes on after a packet of the maximal size.
Continues == role = "client" /\ need = Header + MaxPayload

\* The packet is complete: copy it and, for a command, see if more follows.
TakePacket ==
  /\ pc = "ensure" /\ stage = "body"
  /\ Available >= need
  /\ offset' = offset + need
  /\ LET packet == result \o SubSeq(buf, offset + 1, offset + need)
     IN  IF Continues
           THEN /\ EnsureHeader
                /\ result' = packet
                /\ UNCHANGED <<out, cuts>>
           ELSE /\ pc' = "idle"
                /\ out' = out \o packet
                /\ cuts' = cuts \cup {Len(out')}
                /\ result' = <<>>
                /\ UNCHANGED <<stage, need>>
  /\ UNCHANGED <<begin, role, buf, end, taken, start, timeouts>>
-----------------------------------------------------------------------------
HandshakeStep == readMySQLPacket \/ NewMySQLPacketReader
ReaderStep == Call \/ MakeRoom \/ ReadSome \/ ParseLength \/ TakePacket

\* No more bytes will come, or the connection is gone.
Waits == \/ pc = "failed"
         \/ pc = "fill" /\ taken = Total

Next ==
  \/ HandshakeStep \/ ReaderStep \/ ReadTimeout \/ ReadError
  \/ Waits /\ UNCHANGED vars

Spec == Init /\ [][Next]_vars

\* The handshake ends, the session calls the reader in a loop, and what the
\* peer has sent arrives.
FairSpec == Spec /\ WF_vars(NewMySQLPacketReader) /\ WF_vars(ReaderStep)
-----------------------------------------------------------------------------
\* Types; the unread bytes lie within the buffer.
TypeOK ==
  /\ begin \in Streams
  /\ role \in {"client", "primary", "shadow"}
  /\ pc \in ReaderPc
  /\ stage \in {"header", "body"}
  /\ need \in Nat
  /\ buf \in Seq(Nat)
  /\ offset \in Nat /\ end \in Nat
  /\ offset <= end /\ end <= Size
  /\ taken \in Nat /\ start \in Nat
  /\ result \in Seq(Nat) /\ out \in Seq(Nat)
  /\ cuts \in SUBSET Nat
  /\ timeouts \in Nat

\* Where ReadPacket or, for the client, ReadMultiPacket must cut the stream.
Boundary(k) == role = "client" => begin[k] - begin[k-1] < Header + MaxPayload

\* "Ensures we always get complete packets even when TCP fragments them"
\* (mysql_protocol.go, MySQLPacketReader): however the bytes come, whatever is
\* compacted, grown or interrupted by a deadline, the caller gets the bytes of
\* the stream once and in order, and each call to the reader ends where a packet
\* (a command, for the client) does.
Framed ==
  /\ \A i \in 1..Len(out) : out[i] = i
  /\ \A c \in cuts : \E k \in 1..NumPackets :
       c = begin[k] /\ (c > start => Boundary(k))
  /\ \A k \in 1..NumPackets :
       Boundary(k) /\ begin[k] <= Len(out) => begin[k] \in cuts

\* ensureBytes never calls Read with an empty slice, which would return no
\* bytes and no error and make its loop spin: the buffer holds what is needed.
ReadHasRoom == pc = "fill" => end < need /\ need <= Size

\* All that the peer sends is handed on, unless the connection fails.
AllDelivered == <>(pc = "failed" \/ Len(out) = Total)
=============================================================================
