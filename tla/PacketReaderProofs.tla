------------------------- MODULE PacketReaderProofs -------------------------
(***************************************************************************)
(* Proofs about PacketReader, for every stream of packets, buffer size,    *)
(* payload size and way of cutting the stream into reads.                  *)
(***************************************************************************)
EXTENDS PacketReader, TLAPS, SequenceTheorems

\* Where in the stream the next byte to be taken out of the buffer comes from.
Position == Len(out) + Len(result)

\* The packets of the call so far, and the unread bytes after them, are the
\* bytes of the stream from Len(out) on, and none was dropped.
Content ==
  /\ \A i \in 1..Len(result) : result[i] = Len(out) + i
  /\ \A i \in 1..Available : buf[offset + i] = Position + i
  /\ taken = Position + Available
  /\ taken <= Total

\* The reader stands before a packet, and in the body it knows its length.
AtPacket ==
  /\ \E k \in 0..NumPackets : begin[k] = Position
  /\ pc \in {"ensure", "fill"} =>
       /\ stage = "header" => need = Header
       /\ stage = "body" => \E k \in 1..NumPackets :
            begin[k-1] = Position /\ begin[k] = Position + need

\* What is held back in result is the beginning of a command of the client.
HeldBack ==
  /\ pc \in {"handshake", "idle"} \/ role # "client" => result = <<>>
  /\ \A k \in 1..NumPackets :
       Boundary(k) /\ begin[k] > Len(out) => begin[k] > Position

Cuts ==
  /\ start <= Len(out)
  /\ pc = "handshake" => start = Len(out) /\ offset = 0 /\ end = 0
  /\ \A c \in cuts : c <= Len(out)

Filling == pc = "fill" => offset = 0 /\ ReadHasRoom

IInv ==
  TypeOK /\ Content /\ AtPacket /\ HeldBack /\ Cuts /\ Filling /\ Framed
-----------------------------------------------------------------------------
\* A function on 1..n is a sequence of length n.
LEMMA FunctionIsSeq ==
  ASSUME NEW n \in Nat, NEW f \in [1..n -> Nat]
  PROVE  f \in Seq(Nat) /\ Len(f) = n
BY DEF Seq

\* What SubSeq returns.
LEMMA SubSeqElements ==
  ASSUME NEW s \in Seq(Nat), NEW a \in Nat, NEW n \in Nat, a + n <= Len(s)
  PROVE  /\ SubSeq(s, a + 1, a + n) \in Seq(Nat)
         /\ Len(SubSeq(s, a + 1, a + n)) = n
         /\ \A i \in 1..n : SubSeq(s, a + 1, a + n)[i] = s[a + i]
<1>1. \A i \in (a + 1)..(a + n) : s[i] \in Nat
  OBVIOUS
<1> QED  BY <1>1, SubSeqProperties

\* What concatenation returns.
LEMMA ConcatElements ==
  ASSUME NEW s \in Seq(Nat), NEW t \in Seq(Nat)
  PROVE  /\ s \o t \in Seq(Nat)
         /\ Len(s \o t) = Len(s) + Len(t)
         /\ \A i \in 1..Len(s) : (s \o t)[i] = s[i]
         /\ \A i \in 1..Len(t) : (s \o t)[Len(s) + i] = t[i]
BY ConcatProperties

\* A byte sequence that continues one with the bytes from its end on.
LEMMA ConcatRun ==
  ASSUME NEW s \in Seq(Nat), NEW t \in Seq(Nat), NEW p \in Nat,
         \A i \in 1..Len(s) : s[i] = p + i,
         \A i \in 1..Len(t) : t[i] = p + Len(s) + i
  PROVE  /\ s \o t \in Seq(Nat)
         /\ Len(s \o t) = Len(s) + Len(t)
         /\ \A i \in 1..Len(s \o t) : (s \o t)[i] = p + i
<1>1. /\ s \o t \in Seq(Nat)
      /\ Len(s \o t) = Len(s) + Len(t)
  BY ConcatElements
<1>2. ASSUME NEW i \in 1..Len(s \o t)  PROVE (s \o t)[i] = p + i
  <2>1. CASE i <= Len(s)
    BY <1>1, <2>1, ConcatElements
  <2>2. CASE i > Len(s)
    <3> DEFINE j == i - Len(s)
    <3>1. j \in 1..Len(t) /\ i = Len(s) + j
      BY <1>1, <2>2
    <3>2. (s \o t)[Len(s) + j] = t[j] /\ t[j] = p + Len(s) + j
      BY <3>1, ConcatElements
    <3> QED  BY <3>1, <3>2
  <2> QED  BY <1>1, <2>1, <2>2
<1> QED  BY <1>1, <1>2

\* The same for a sequence that begins with the first byte of the stream.
LEMMA ConcatPrefix ==
  ASSUME NEW s \in Seq(Nat), NEW t \in Seq(Nat),
         \A i \in 1..Len(s) : s[i] = i,
         \A i \in 1..Len(t) : t[i] = Len(s) + i
  PROVE  /\ s \o t \in Seq(Nat)
         /\ Len(s \o t) = Len(s) + Len(t)
         /\ \A i \in 1..Len(s \o t) : (s \o t)[i] = i
<1> DEFINE p == 0
<1>1. /\ p \in Nat
      /\ \A i \in 1..Len(s) : s[i] = p + i
      /\ \A i \in 1..Len(t) : t[i] = p + Len(s) + i
  OBVIOUS
<1>2. \A i \in 1..Len(s \o t) : p + i = i
  BY ConcatElements
<1> HIDE DEF p
<1>3. /\ s \o t \in Seq(Nat)
      /\ Len(s \o t) = Len(s) + Len(t)
      /\ \A i \in 1..Len(s \o t) : (s \o t)[i] = p + i
  BY <1>1, ConcatRun
<1> QED  BY <1>2, <1>3

\* The facts about the stream the proof uses.
LEMMA StreamFacts ==
  ASSUME TypeOK
  PROVE  /\ NumPackets \in Nat /\ MaxPayload \in Nat /\ InitialSize \in Nat
         /\ Total \in Nat
         /\ begin[0] = 0
         /\ \A k \in 0..NumPackets : begin[k] \in Nat /\ begin[k] <= Total
         /\ \A j, k \in 0..NumPackets : j < k => begin[j] + Header <= begin[k]
         /\ \A k \in 1..NumPackets : /\ k - 1 \in 0..NumPackets
                                     /\ k \in 0..NumPackets
                                     /\ begin[k] <= begin[k-1] + Header + MaxPayload
<1>1. begin \in Streams
  BY DEF TypeOK
<1>2. begin \in [0..NumPackets -> Nat] /\ begin[0] = 0 /\ NumPackets \in Nat
  BY <1>1, StreamAssumption
<1>3. \A j, k \in 0..NumPackets : j < k => begin[j] + Header <= begin[k]
  BY <1>1, StreamAssumption
<1>4. \A k \in 1..NumPackets : begin[k] <= begin[k-1] + Header + MaxPayload
  BY <1>1, StreamAssumption
<1>5. \A k \in 0..NumPackets : begin[k] \in Nat
  BY <1>2
<1>6. NumPackets \in 0..NumPackets
  BY <1>2
<1>7. \A k \in 0..NumPackets : begin[k] <= Total
  BY <1>3, <1>5, <1>6 DEF Total, Header
<1> QED  BY <1>2, <1>3, <1>4, <1>5, <1>6, <1>7, StreamAssumption DEF Total

LEMMA InitInv == Init => IInv
<1> SUFFICES ASSUME Init PROVE IInv
  OBVIOUS
<1>1. TypeOK
  BY DEF Init, TypeOK, ReaderPc, Size
<1>2. Total \in Nat /\ begin[0] = 0 /\ NumPackets \in Nat
  BY <1>1, StreamFacts
<1>3. Content /\ Cuts /\ Filling /\ Framed
  BY <1>1, <1>2, StreamFacts DEF Init, Content, Position, Available, Cuts,
     Filling, Framed, Header
<1>4. AtPacket
  BY <1>2 DEF Init, AtPacket, Position
<1>5. HeldBack
  BY DEF Init, HeldBack, Position
<1> QED  BY <1>1, <1>3, <1>4, <1>5 DEF IInv
-----------------------------------------------------------------------------
(* One lemma per action.                                                   *)

LEMMA HandshakeInv ==
  ASSUME IInv, readMySQLPacket
  PROVE  IInv'
<1>1. PICK k \in 1..NumPackets :
        /\ taken = begin[k-1]
        /\ taken' = begin[k]
        /\ out' = out \o [i \in 1..begin[k] - begin[k-1] |-> begin[k-1] + i]
        /\ cuts' = cuts \cup {begin[k]}
        /\ start' = begin[k]
  BY DEF readMySQLPacket, AfterPacket
<1>2. /\ pc = "handshake"
      /\ UNCHANGED <<begin, role, pc, stage, need, buf, offset, end, result,
                     timeouts>>
  BY DEF readMySQLPacket, buffer
<1>3. TypeOK /\ Content /\ AtPacket /\ HeldBack /\ Cuts /\ Framed
  BY DEF IInv
<1>4. result = <<>> /\ offset = 0 /\ end = 0 /\ Len(result) = 0
  BY <1>2, <1>3 DEF HeldBack, Cuts
<1>5. /\ out \in Seq(Nat) /\ Len(out) \in Nat
      /\ begin[k-1] = Len(out)
  BY <1>1, <1>3, <1>4 DEF TypeOK, Content, Position, Available
<1> DEFINE packet == [i \in 1..begin[k] - begin[k-1] |-> begin[k-1] + i]
<1>6. /\ begin[k] \in Nat /\ begin[k-1] \in Nat /\ begin[k] <= Total
      /\ begin[k-1] + 4 <= begin[k]
  BY <1>1, <1>3, StreamFacts DEF Header
<1>7. packet \in Seq(Nat) /\ Len(packet) = begin[k] - begin[k-1]
  <2>1. packet \in [1..begin[k] - begin[k-1] -> Nat]
    BY <1>6
  <2>2. begin[k] - begin[k-1] \in Nat
    BY <1>6
  <2> QED  BY <2>1, <2>2, FunctionIsSeq
<1>8. /\ out' \in Seq(Nat) /\ Len(out') = begin[k]
      /\ \A i \in 1..Len(out') : out'[i] = i
  <2>1. \A i \in 1..Len(packet) : packet[i] = Len(out) + i
    BY <1>5, <1>6, <1>7
  <2>2. \A i \in 1..Len(out) : out[i] = i
    BY <1>3, <1>5 DEF Framed
  <2> HIDE DEF packet
  <2>3. /\ out \o packet \in Seq(Nat)
        /\ Len(out \o packet) = Len(out) + Len(packet)
        /\ \A i \in 1..Len(out \o packet) : (out \o packet)[i] = i
    BY <1>5, <1>7, <2>1, <2>2, ConcatPrefix
  <2>4. out' = out \o packet
    BY <1>1 DEF packet
  <2>5. Len(out) + Len(packet) = begin[k]
    BY <1>5, <1>6, <1>7
  <2> QED  BY <2>3, <2>4, <2>5
<1>a. TypeOK'
  BY <1>1, <1>2, <1>3, <1>6, <1>8 DEF TypeOK, Size
<1>b. Content'
  BY <1>1, <1>2, <1>4, <1>6, <1>8, SMTT(30) DEF Content, Position, Available, Total
<1>c. AtPacket'
  <2>1. k \in 0..NumPackets /\ begin'[k] = Position'
    BY <1>2, <1>3, <1>4, <1>6, <1>8, StreamFacts DEF Position
  <2>2. pc' \notin {"ensure", "fill"} /\ NumPackets' = NumPackets
    BY <1>2
  <2> QED  BY <2>1, <2>2 DEF AtPacket
<1>d. HeldBack'
  BY <1>2, <1>4, <1>6, <1>8 DEF HeldBack, Position
<1>e. Cuts'
  BY <1>1, <1>2, <1>3, <1>5, <1>6, <1>8, SMTT(30) DEF Cuts, TypeOK
<1>f. Filling'
  BY <1>2 DEF Filling
<1>g. Framed'
  <2>1. \A i \in 1..Len(out') : out'[i] = i
    BY <1>8
  <2>2. ASSUME NEW c \in cuts'
        PROVE  \E j \in 1..NumPackets :
                 c = begin[j] /\ (c > start' => Boundary(j)')
    <3>1. c <= begin[k] /\ c \in Nat
      BY <1>1, <1>3, <1>5, <1>6 DEF Cuts, TypeOK
    <3>2. \E j \in 1..NumPackets : c = begin[j]
      BY <1>1, <1>3 DEF Framed
    <3> QED  BY <1>1, <1>6, <3>1, <3>2
  <2>3. ASSUME NEW j \in 1..NumPackets, Boundary(j)', begin[j] <= Len(out')
        PROVE  begin[j] \in cuts'
    <3>1. CASE j = k
      BY <1>1, <3>1
    <3>2. CASE j < k
      <4>1. begin[j] <= begin[k-1]
        BY <1>3, <1>6, <3>2, StreamFacts DEF Header
      <4>2. Boundary(j)
        BY <1>2, <2>3 DEF Boundary
      <4> QED  BY <1>1, <1>3, <1>5, <4>1, <4>2 DEF Framed
    <3>3. CASE j > k
      BY <1>3, <1>6, <1>8, <2>3, <3>3, StreamFacts, SMTT(15) DEF Header
    <3> QED  BY <1>3, <3>1, <3>2, <3>3, StreamFacts
  <2> QED  BY <1>2, <2>1, <2>2, <2>3 DEF Framed
<1> QED  BY <1>a, <1>b, <1>c, <1>d, <1>e, <1>f, <1>g DEF IInv
\* What has been returned stays framed while nothing more is returned.
LEMMA FramedStutter ==
  ASSUME Framed, UNCHANGED <<begin, role, out, cuts, start>>
  PROVE  Framed'
BY DEF Framed, Boundary

LEMMA NewReaderInv ==
  ASSUME IInv, NewMySQLPacketReader
  PROVE  IInv'
<1>1. /\ pc = "handshake" /\ pc' = "idle"
      /\ UNCHANGED <<begin, role, stage, need, offset, end, taken, start,
                     result, out, cuts, timeouts>>
  BY DEF NewMySQLPacketReader
<1>2. TypeOK /\ Content /\ AtPacket /\ HeldBack /\ Cuts /\ Framed
  BY DEF IInv
<1>3. offset = 0 /\ end = 0
  BY <1>1, <1>2 DEF Cuts
<1>4. buf' \in Seq(Nat) /\ Len(buf') \in Nat
  <2>1. InitialSize \in Nat /\ buf' \in [1..InitialSize -> Nat]
    BY <1>2, StreamFacts DEF NewMySQLPacketReader
  <2> QED  BY <2>1, FunctionIsSeq
<1>a. TypeOK'
  BY <1>1, <1>2, <1>3, <1>4 DEF TypeOK, Size, ReaderPc
<1>b. Content'
  BY <1>1, <1>2, <1>3 DEF Content, Position, Available, Total
<1>c. AtPacket' /\ Cuts' /\ Filling'
  BY <1>1, <1>2 DEF AtPacket, Position, Cuts, Filling
<1>d. HeldBack'
  BY <1>1, <1>2 DEF HeldBack, Position, Boundary
<1>e. Framed'
  BY <1>1, <1>2, FramedStutter
<1> QED  BY <1>a, <1>b, <1>c, <1>d, <1>e DEF IInv

LEMMA CallInv ==
  ASSUME IInv, Call
  PROVE  IInv'
<1>1. /\ pc = "idle" /\ pc' = "ensure" /\ stage' = "header" /\ need' = 4
      /\ result' = <<>>
      /\ UNCHANGED <<begin, role, buf, offset, end, taken, start, out, cuts,
                     timeouts>>
  BY DEF Call, EnsureHeader, Header, buffer
<1>2. TypeOK /\ Content /\ AtPacket /\ HeldBack /\ Cuts /\ Framed
  BY DEF IInv
<1>3. result' = result
  BY <1>1, <1>2 DEF HeldBack
<1>a. TypeOK'
  BY <1>1, <1>2, <1>3 DEF TypeOK, Size, ReaderPc
<1>b. Content'
  BY <1>1, <1>2, <1>3 DEF Content, Position, Available, Total
<1>c. AtPacket' /\ Cuts' /\ Filling'
  BY <1>1, <1>2, <1>3 DEF AtPacket, Position, Cuts, Filling, Header
<1>d. HeldBack'
  BY <1>1, <1>2, <1>3 DEF HeldBack, Position, Boundary
<1>e. Framed'
  BY <1>1, <1>2, FramedStutter
<1> QED  BY <1>a, <1>b, <1>c, <1>d, <1>e DEF IInv

LEMMA ReadFailsInv ==
  ASSUME IInv, ReadTimeout \/ ReadError
  PROVE  IInv'
<1>1. /\ pc = "fill" /\ pc' \in {"idle", "failed"}
      /\ pc' = "idle" => role = "shadow"
      /\ timeouts' \in {timeouts, timeouts + 1}
      /\ UNCHANGED <<begin, role, stage, need, buf, offset, end, taken, start,
                     result, out, cuts>>
  BY DEF ReadTimeout, ReadError, buffer
<1>2. TypeOK /\ Content /\ AtPacket /\ HeldBack /\ Cuts /\ Framed
  BY DEF IInv
<1>a. TypeOK'
  BY <1>1, <1>2 DEF TypeOK, Size, ReaderPc
<1>b. Content'
  BY <1>1, <1>2 DEF Content, Position, Available, Total
<1>c. AtPacket' /\ Cuts' /\ Filling'
  BY <1>1, <1>2 DEF AtPacket, Position, Cuts, Filling
<1>d. HeldBack'
  BY <1>1, <1>2 DEF HeldBack, Position, Boundary
<1>e. Framed'
  BY <1>1, <1>2, FramedStutter
<1> QED  BY <1>a, <1>b, <1>c, <1>d, <1>e DEF IInv
LEMMA MakeRoomInv ==
  ASSUME IInv, MakeRoom
  PROVE  IInv'
<1>1. /\ pc = "ensure" /\ pc' = "fill"
      /\ Available < need /\ end' = Available /\ offset' = 0
      /\ UNCHANGED <<begin, role, stage, need, taken, start, result, out, cuts,
                     timeouts>>
  BY DEF MakeRoom
<1>2. TypeOK /\ Content /\ AtPacket /\ HeldBack /\ Cuts /\ Framed
  BY DEF IInv
<1>3. /\ Available \in Nat /\ need \in Nat /\ Size \in Nat /\ offset \in Nat
      /\ offset + Available <= Size
      /\ \A i \in 1..Size : buf[i] \in Nat
  BY <1>2 DEF TypeOK, Available, Size
<1>4. /\ Compacted \in [1..Size -> Nat]
      /\ \A i \in 1..Available : Compacted[i] = buf[offset + i]
  BY <1>3 DEF Compacted
<1>5. /\ buf' \in Seq(Nat) /\ Len(buf') \in Nat /\ need <= Len(buf')
      /\ \A i \in 1..Available : buf'[i] = Compacted[i]
  <2>1. buf' = Grown(Compacted)
    BY DEF MakeRoom
  <2>2. CASE need > Size
    <3>1. /\ buf' \in [1..2*need -> Nat]
          /\ \A i \in 1..Available : buf'[i] = Compacted[i]
      BY <1>1, <1>3, <1>4, <2>1, <2>2 DEF Grown
    <3>2. 2 * need \in Nat /\ need <= 2 * need
      BY <1>3
    <3> QED  BY <3>1, <3>2, FunctionIsSeq
  <2>3. CASE ~(need > Size)
    <3>1. buf' = Compacted
      BY <2>1, <2>3 DEF Grown
    <3>2. buf' \in Seq(Nat) /\ Len(buf') = Size
      BY <1>3, <1>4, <3>1, FunctionIsSeq
    <3> QED  BY <1>3, <2>3, <3>1, <3>2
  <2> QED  BY <2>2, <2>3
<1>a. TypeOK'
  BY <1>1, <1>2, <1>3, <1>5 DEF TypeOK, Size, ReaderPc
<1>b. Content'
  <2>1. /\ Available' = Available /\ Position' = Position /\ Total' = Total
    BY <1>1, <1>3 DEF Available, Position, Total
  <2>2. ASSUME NEW i \in 1..Available'
        PROVE  buf'[offset' + i] = Position' + i
    <3>1. offset' + i = i
      BY <1>1, <1>3, <2>1
    <3>2. buf'[i] = buf[offset + i]
      BY <1>4, <1>5, <2>1
    <3> QED  BY <1>2, <2>1, <3>1, <3>2 DEF Content
  <2> QED  BY <1>1, <1>2, <2>1, <2>2 DEF Content
<1>c. AtPacket' /\ Cuts'
  BY <1>1, <1>2 DEF AtPacket, Position, Cuts
<1>d. HeldBack'
  BY <1>1, <1>2 DEF HeldBack, Position, Boundary
<1>e. Framed'
  BY <1>1, <1>2, FramedStutter
<1>f. Filling'
  BY <1>1, <1>5 DEF Filling, ReadHasRoom, Size
<1> QED  BY <1>a, <1>b, <1>c, <1>d, <1>e, <1>f DEF IInv

LEMMA ReadInv ==
  ASSUME IInv, NEW n \in 1..Size, Read(n)
  PROVE  IInv'
<1>1. /\ pc = "fill" /\ pc' \in {"fill", "ensure"}
      /\ pc' = "fill" => end' < need
      /\ n <= Size - end /\ n <= Total - taken
      /\ end' = end + n /\ taken' = taken + n
      /\ UNCHANGED <<begin, role, stage, need, offset, start, result, out, cuts,
                     timeouts>>
  BY DEF Read
<1>2. /\ TypeOK /\ Content /\ AtPacket /\ HeldBack /\ Cuts /\ Framed
      /\ offset = 0 /\ need <= Size
  BY <1>1 DEF IInv, Filling, ReadHasRoom
<1>3. /\ Size \in Nat /\ end \in Nat /\ taken \in Nat /\ n \in Nat
      /\ Total \in Nat /\ need \in Nat
      /\ \A i \in 1..Size : buf[i] \in Nat
      /\ Len(out) \in Nat /\ Len(result) \in Nat
  <2>1. Total \in Nat
    BY <1>2, StreamFacts
  <2> QED  BY <1>2, <2>1 DEF TypeOK, Size
<1>4. /\ buf' \in [1..Size -> Nat]
      /\ \A i \in 1..Size : buf'[i] = IF i \in end+1..end+n
                                        THEN taken + (i - end) ELSE buf[i]
  BY <1>3 DEF Read
<1>5. buf' \in Seq(Nat) /\ Len(buf') = Size
  BY <1>3, <1>4, FunctionIsSeq
<1>6. Position \in Nat /\ Position' = Position /\ taken = Position + end
  <2>1. Available = end
    BY <1>2, <1>3 DEF Available
  <2>2. Position \in Nat /\ Position' = Position
    BY <1>1, <1>3 DEF Position
  <2> QED  BY <1>2, <2>1, <2>2 DEF Content
<1>a. TypeOK'
  BY <1>1, <1>2, <1>3, <1>5, SMTT(30) DEF TypeOK, Size, ReaderPc
<1>b. Content'
  <2>1. /\ Available = end /\ Available' = end + n /\ Total' = Total
    BY <1>1, <1>2, <1>3 DEF Available, Total
  <2>2. ASSUME NEW i \in 1..end + n
        PROVE  buf'[i] = Position + i
    <3>1. i \in 1..Size
      BY <1>1, <1>3
    <3>2. CASE i <= end
      <4>1. buf[0 + i] = Position + i
        BY <1>2, <1>3, <2>1, <3>2 DEF Content
      <4> QED  BY <1>3, <1>4, <3>1, <3>2, <4>1
    <3>3. CASE i > end
      BY <1>3, <1>4, <1>6, <3>1, <3>3
    <3> QED  BY <1>3, <3>2, <3>3
  <2>3. \A i \in 1..Available' : buf'[offset' + i] = Position' + i
    BY <1>1, <1>2, <1>3, <1>6, <2>1, <2>2
  <2>4. taken' = Position' + Available' /\ taken' <= Total'
    BY <1>1, <1>3, <1>6, <2>1
  <2> QED  BY <1>1, <1>2, <2>3, <2>4 DEF Content
<1>c. AtPacket' /\ Cuts'
  BY <1>1, <1>2 DEF AtPacket, Position, Cuts
<1>d. HeldBack'
  BY <1>1, <1>2 DEF HeldBack, Position, Boundary
<1>e. Framed'
  BY <1>1, <1>2, FramedStutter
<1>f. Filling'
  BY <1>1, <1>2, <1>5 DEF Filling, ReadHasRoom, Size
<1> QED  BY <1>a, <1>b, <1>c, <1>d, <1>e, <1>f DEF IInv
LEMMA ParseLengthInv ==
  ASSUME IInv, ParseLength
  PROVE  IInv'
<1>1. /\ pc = "ensure" /\ stage = "header" /\ stage' = "body"
      /\ Available >= need
      /\ UNCHANGED <<begin, role, pc, buf, offset, end, taken, start, result,
                     out, cuts, timeouts>>
  BY DEF ParseLength, buffer
<1>2. TypeOK /\ Content /\ AtPacket /\ HeldBack /\ Cuts /\ Framed
  BY DEF IInv
<1>3. need = 4 /\ Available \in Nat /\ Position \in Nat
  BY <1>1, <1>2 DEF AtPacket, Header, TypeOK, Available, Position
<1>4. PICK k0 \in 0..NumPackets : begin[k0] = Position
  BY <1>2 DEF AtPacket
<1> DEFINE k == k0 + 1
<1>5. k \in 1..NumPackets /\ k - 1 = k0
  <2>1. taken = Position + Available /\ taken <= Total
    BY <1>2 DEF Content
  <2>2. NumPackets \in Nat /\ Total = begin[NumPackets]
    BY <1>2, StreamFacts DEF Total
  <2>3. k0 # NumPackets
    BY <1>1, <1>3, <1>4, <2>1, <2>2
  <2> QED  BY <2>2, <2>3
<1>6. \A j \in 1..3 : buf[offset + j] = Position + j
  BY <1>1, <1>2, <1>3 DEF Content
<1>7. need' = begin[k] - Position
  <2> DEFINE starts == {i \in 1..NumPackets :
                          \A j \in 1..3 : buf[offset + j] = begin[i-1] + j}
  <2>1. k \in starts
    BY <1>4, <1>5, <1>6
  <2>2. ASSUME NEW i \in starts  PROVE i = k
    <3>1. buf[offset + 1] = begin[i-1] + 1 /\ buf[offset + 1] = Position + 1
      BY <1>6
    <3>2. i - 1 \in 0..NumPackets /\ k0 \in 0..NumPackets /\ i \in 1..NumPackets
      BY <1>2, StreamFacts
    <3>3. begin[i-1] = begin[k0]
      BY <1>2, <1>4, <3>1, <3>2, StreamFacts
    <3> QED  BY <1>2, <1>5, <3>2, <3>3, StreamFacts DEF Header
  <2>3. PICK length \in LengthAtOffset : need' = Header + length
    BY DEF ParseLength
  <2>4. LengthAtOffset = {begin[i] - begin[i-1] - Header : i \in starts}
    BY <2>1 DEF LengthAtOffset
  <2> HIDE DEF starts, k
  <2>5. length = begin[k] - begin[k-1] - Header
    BY <2>2, <2>3, <2>4
  <2>6. begin[k] \in Nat /\ begin[k-1] = Position
    BY <1>2, <1>4, <1>5, StreamFacts
  <2> QED  BY <1>3, <2>3, <2>5, <2>6 DEF Header
<1>8. need' \in Nat /\ begin[k-1] = Position /\ begin[k] = Position + need'
  BY <1>2, <1>3, <1>4, <1>5, <1>7, StreamFacts DEF Header
<1> HIDE DEF k
<1>a. TypeOK'
  BY <1>1, <1>2, <1>8 DEF TypeOK, Size, ReaderPc
<1>b. Content'
  BY <1>1, <1>2 DEF Content, Position, Available, Total
<1>c. AtPacket'
  BY <1>1, <1>2, <1>5, <1>8 DEF AtPacket, Position
<1>d. HeldBack'
  BY <1>1, <1>2 DEF HeldBack, Position, Boundary
<1>e. Framed'
  BY <1>1, <1>2, FramedStutter
<1>f. Filling' /\ Cuts'
  BY <1>1, <1>2 DEF Filling, Cuts
<1> QED  BY <1>a, <1>b, <1>c, <1>d, <1>e, <1>f DEF IInv
LEMMA TakePacketInv ==
  ASSUME IInv, TakePacket
  PROVE  IInv'
<1> DEFINE chunk == SubSeq(buf, offset + 1, offset + need)
           packet == result \o chunk
<1>1. /\ pc = "ensure" /\ stage = "body"
      /\ Available >= need
      /\ offset' = offset + need
      /\ UNCHANGED <<begin, role, buf, end, taken, start, timeouts>>
  BY DEF TakePacket
<1>2. TypeOK /\ Content /\ AtPacket /\ HeldBack /\ Cuts /\ Framed
  BY DEF IInv
<1>3. /\ need \in Nat /\ offset \in Nat /\ end \in Nat /\ Size \in Nat
      /\ Available \in Nat /\ offset + need <= Size /\ Available = end - offset
      /\ buf \in Seq(Nat) /\ result \in Seq(Nat) /\ out \in Seq(Nat)
      /\ Len(out) \in Nat /\ Len(result) \in Nat
      /\ Position \in Nat /\ Position = Len(out) + Len(result)
      /\ cuts \in SUBSET Nat
  BY <1>1, <1>2 DEF TypeOK, Available, Size, Position
<1>4. PICK k \in 1..NumPackets :
        begin[k-1] = Position /\ begin[k] = Position + need
  BY <1>1, <1>2 DEF AtPacket
<1>5. /\ chunk \in Seq(Nat) /\ Len(chunk) = need
      /\ \A i \in 1..Len(chunk) : chunk[i] = Len(out) + Len(result) + i
  <2>0. /\ buf \in Seq(Nat) /\ offset \in Nat /\ need \in Nat
        /\ offset + need <= Len(buf)
    BY <1>3 DEF Size
  <2>1. /\ chunk \in Seq(Nat) /\ Len(chunk) = need
        /\ \A i \in 1..need : chunk[i] = buf[offset + i]
    BY <2>0, SubSeqElements
  <2>2. \A i \in 1..need : i \in 1..Available /\ buf[offset + i] = Position + i
    BY <1>1, <1>2, <1>3 DEF Content
  <2> HIDE DEF chunk
  <2> QED  BY <1>3, <2>1, <2>2
<1>6. /\ packet \in Seq(Nat) /\ Len(packet) = Len(result) + need
      /\ \A i \in 1..Len(packet) : packet[i] = Len(out) + i
  <2>1. \A i \in 1..Len(result) : result[i] = Len(out) + i
    BY <1>2 DEF Content
  <2> DEFINE p == Len(out)
  <2>2. p \in Nat /\ result \in Seq(Nat) /\ chunk \in Seq(Nat)
    BY <1>3, <1>5
  <2>3. /\ \A i \in 1..Len(result) : result[i] = p + i
        /\ \A i \in 1..Len(chunk) : chunk[i] = p + Len(result) + i
    BY <1>5, <2>1
  <2> HIDE DEF chunk, p
  <2>4. /\ result \o chunk \in Seq(Nat)
        /\ Len(result \o chunk) = Len(result) + Len(chunk)
        /\ \A i \in 1..Len(result \o chunk) : (result \o chunk)[i] = p + i
    BY <2>2, <2>3, ConcatRun
  <2> QED  BY <1>5, <2>4 DEF p
<1>7. \A j \in 1..NumPackets :
        /\ begin[j] \in Nat
        /\ begin[j] > Position => j >= k
        /\ j > k => begin[j] > begin[k]
  <2> TAKE j \in 1..NumPackets
  <2>1. /\ NumPackets \in Nat
        /\ j \in 0..NumPackets /\ k \in 0..NumPackets /\ k - 1 \in 0..NumPackets
        /\ begin[j] \in Nat /\ begin[k] \in Nat /\ begin[k-1] \in Nat
    BY <1>2, StreamFacts
  <2>2. j < k - 1 => begin[j] + 4 <= begin[k-1]
    BY <1>2, <2>1, StreamFacts DEF Header
  <2>3. k < j => begin[k] + 4 <= begin[j]
    BY <1>2, <2>1, StreamFacts DEF Header
  <2>4. j = k - 1 => begin[j] = Position
    BY <1>4
  <2>5. j < k => begin[j] <= Position
    BY <1>4, <2>1, <2>2, <2>4
  <2> QED  BY <1>3, <2>1, <2>3, <2>5
<1>8. /\ Available' = Available - need /\ Available' \in Nat
      /\ Total' = Total /\ offset' \in Nat /\ offset' <= end'
  BY <1>1, <1>3 DEF Available, Total
<1>9. \A i \in 1..Available' : buf'[offset' + i] = begin[k] + i
  <2> SUFFICES ASSUME NEW i \in 1..Available'
               PROVE  buf'[offset' + i] = begin[k] + i
    OBVIOUS
  <2>1. need + i \in 1..Available
    BY <1>3, <1>8
  <2>2. buf[offset + (need + i)] = Position + (need + i)
    BY <1>2, <2>1 DEF Content
  <2>3. offset + (need + i) = offset' + i
    BY <1>1, <1>3, <1>8
  <2> QED  BY <1>1, <1>3, <1>4, <1>8, <2>2, <2>3
<1>10. taken' = begin[k] + Available' /\ taken' <= Total'
  BY <1>1, <1>2, <1>3, <1>4, <1>8 DEF Content
<1>11. k \in 0..NumPackets /\ begin[k] \in Nat
  BY <1>2, StreamFacts
<1> HIDE DEF packet
<1>12. CASE Continues
  <2>1. /\ pc' = "ensure" /\ stage' = "header" /\ need' = 4
        /\ result' = packet
        /\ UNCHANGED <<out, cuts>>
    BY <1>12 DEF TakePacket, EnsureHeader, Header, packet
  <2>2. Position' = begin[k] /\ Len(out') = Len(out)
    <3>1. Len(result') = Len(result) + need /\ Len(out') = Len(out)
      BY <1>6, <2>1
    <3>2. Position' = Len(out') + Len(result')
      BY DEF Position
    <3> QED  BY <1>3, <1>4, <3>1, <3>2
  <2>a. TypeOK'
    BY <1>1, <1>2, <1>6, <1>8, <2>1 DEF TypeOK, Size, ReaderPc
  <2>b. Content'
    BY <1>6, <1>9, <1>10, <2>1, <2>2 DEF Content
  <2>c. AtPacket'
    BY <1>1, <1>11, <2>1, <2>2 DEF AtPacket, Header
  <2>d. HeldBack'
    <3>1. role = "client" /\ need = Header + MaxPayload
      BY <1>12 DEF Continues
    <3>2. ~Boundary(k)
      <4>1. MaxPayload \in Nat
        BY <1>2, StreamFacts
      <4> QED  BY <1>3, <1>4, <3>1, <4>1 DEF Boundary, Header
    <3>3. ASSUME NEW j \in 1..NumPackets, Boundary(j), begin[j] > Len(out)
          PROVE  begin[j] > begin[k]
      <4>1. begin[j] > Position
        BY <1>2, <3>3 DEF HeldBack
      <4> QED  BY <1>7, <3>2, <3>3, <4>1
    <3> QED  BY <1>1, <2>1, <2>2, <3>1, <3>3 DEF HeldBack, Boundary
  <2>e. Framed'
    BY <1>1, <1>2, <2>1, FramedStutter
  <2>f. Filling' /\ Cuts'
    BY <1>1, <1>2, <2>1 DEF Filling, Cuts
  <2> QED  BY <2>a, <2>b, <2>c, <2>d, <2>e, <2>f DEF IInv
<1>13. CASE ~Continues
  <2>1. /\ pc' = "idle" /\ out' = out \o packet
        /\ cuts' = cuts \cup {Len(out')}
        /\ result' = <<>>
        /\ UNCHANGED <<stage, need>>
    BY <1>13 DEF TakePacket, packet
  <2>2. /\ out' \in Seq(Nat) /\ Len(out') = begin[k]
        /\ \A i \in 1..Len(out') : out'[i] = i
    <3>1. \A i \in 1..Len(out) : out[i] = i
      BY <1>2 DEF Framed
    <3>2. /\ out \o packet \in Seq(Nat)
          /\ Len(out \o packet) = Len(out) + Len(packet)
          /\ \A i \in 1..Len(out \o packet) : (out \o packet)[i] = i
      BY <1>3, <1>6, <3>1, ConcatPrefix
    <3>3. Len(out) + Len(packet) = begin[k]
      BY <1>3, <1>4, <1>6
    <3> QED  BY <2>1, <3>2, <3>3
  <2>3. Position' = begin[k] /\ Len(result') = 0 /\ Len(out) <= begin[k]
    BY <1>3, <1>4, <1>11, <2>1, <2>2 DEF Position
  <2>a. TypeOK'
    <3>1. cuts' = cuts \cup {begin[k]} /\ result' = <<>>
      BY <2>1, <2>2
    <3>2. cuts' \in SUBSET Nat
      BY <1>3, <1>11, <3>1
    <3>3. result' \in Seq(Nat)
      BY <3>1
    <3>4. pc' = "idle" /\ UNCHANGED <<stage, need>>
      BY <2>1
    <3> QED  BY <1>1, <1>2, <1>8, <2>2, <3>2, <3>3, <3>4 DEF TypeOK, Size, ReaderPc
  <2>b. Content'
    BY <1>9, <1>10, <2>1, <2>3 DEF Content
  <2>c. AtPacket'
    BY <1>1, <1>11, <2>1, <2>3 DEF AtPacket
  <2>d. HeldBack'
    BY <1>1, <2>1, <2>2, <2>3 DEF HeldBack
  <2>e. Framed'
    <3>1. Boundary(k)
      <4>1. ~(role = "client" /\ need = Header + MaxPayload)
        BY <1>13 DEF Continues
      <4>2. begin[k] <= begin[k-1] + Header + MaxPayload /\ MaxPayload \in Nat
        BY <1>2, StreamFacts
      <4> QED  BY <1>3, <1>4, <1>11, <4>1, <4>2 DEF Boundary, Header
    <3>2. ASSUME NEW c \in cuts'
          PROVE  \E j \in 1..NumPackets :
                   c = begin[j] /\ (c > start => Boundary(j))
      BY <1>2, <2>1, <2>2, <3>1 DEF Framed
    <3>3. ASSUME NEW j \in 1..NumPackets, Boundary(j), begin[j] <= begin[k]
          PROVE  begin[j] \in cuts'
      <4>1. CASE begin[j] <= Len(out)
        BY <1>2, <2>1, <3>3, <4>1 DEF Framed
      <4>2. CASE begin[j] > Len(out)
        <5>1. begin[j] > Position
          BY <1>2, <3>3, <4>2 DEF HeldBack
        <5>2. j = k
          BY <1>7, <1>11, <3>3, <5>1
        <5> QED  BY <2>1, <2>2, <5>2
      <4> QED  BY <1>3, <1>7, <4>1, <4>2
    <3> QED  BY <1>1, <2>2, <3>2, <3>3 DEF Framed, Boundary
  <2>f. Filling' /\ Cuts'
    BY <1>1, <1>2, <1>3, <1>11, <2>1, <2>2, <2>3 DEF Filling, Cuts, TypeOK
  <2> QED  BY <2>a, <2>b, <2>c, <2>d, <2>e, <2>f DEF IInv
<1> QED  BY <1>12, <1>13
-----------------------------------------------------------------------------
LEMMA NextInv == IInv /\ [Next]_vars => IInv'
<1> SUFFICES ASSUME IInv, [Next]_vars PROVE IInv'
  OBVIOUS
<1>1. CASE HandshakeStep
  BY <1>1, HandshakeInv, NewReaderInv DEF HandshakeStep
<1>2. CASE ReaderStep
  BY <1>2, CallInv, MakeRoomInv, ReadInv, ParseLengthInv, TakePacketInv
     DEF ReaderStep, ReadSome
<1>3. CASE ReadTimeout \/ ReadError
  BY <1>3, ReadFailsInv
<1>4. CASE UNCHANGED vars
  <2>1. UNCHANGED <<begin, role, pc, stage, need, buf, offset, end, taken,
                    start, result, out, cuts, timeouts>>
    BY <1>4 DEF vars, buffer
  <2> QED  BY <2>1 DEF IInv, TypeOK, Content, AtPacket, HeldBack, Cuts, Filling,
              Framed, ReadHasRoom, Position, Available, Total, Size, Boundary
<1> QED  BY <1>1, <1>2, <1>3, <1>4 DEF Next

\* The inductive invariant holds in every behaviour of the reader.
LEMMA Invariance == Spec => []IInv
BY InitInv, NextInv, PTL DEF Spec

\* The indices of the buffer stay within it, whatever arrives (ensureBytes,
\* ReadPacket).
THEOREM TypeCorrect == Spec => []TypeOK
<1>1. IInv => TypeOK
  BY DEF IInv
<1> QED  BY <1>1, Invariance, PTL

\* However TCP cuts the stream, the callers of ReadPacket and ReadMultiPacket
\* get its bytes once, in order, packet by packet or command by command, also
\* across the switch from readMySQLPacket and after a deadline.
THEOREM CompletePackets == Spec => []Framed
<1>1. IInv => Framed
  BY DEF IInv
<1> QED  BY <1>1, Invariance, PTL

\* The loop of ensureBytes always reads into a non-empty slice that ends in the
\* buffer, so it cannot spin without reading.
THEOREM NoEmptyRead == Spec => []ReadHasRoom
<1>1. IInv => ReadHasRoom
  BY DEF IInv, Filling, ReadHasRoom
<1> QED  BY <1>1, Invariance, PTL
=============================================================================
