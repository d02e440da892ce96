--------------------------- MODULE MCPacketReader ---------------------------
(***************************************************************************)
(* PacketReader for TLC: all streams of three packets with payloads of 0   *)
(* to 3 bytes, the last one not of the maximal size, and a buffer too      *)
(* small for the largest packet.                                           *)
(***************************************************************************)
EXTENDS PacketReader

\* The stream of packets with payloads p[1], p[2], ...
StreamOf(p) ==
  LET b[k \in 0..Len(p)] == IF k = 0 THEN 0 ELSE b[k-1] + Header + p[k]
  IN  b

MCStreams == {StreamOf(p) : p \in
                {q \in [1..NumPackets -> 0..MaxPayload] :
                   q[NumPackets] < MaxPayload}}
=============================================================================
