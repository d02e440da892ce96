---------------------------- MODULE MysqlProofs -----------------------------
(***************************************************************************)
(* Proofs about MysqlSession, and the response parser in it, for any       *)
(* number of commands, columns, rows and results of a response.            *)
(***************************************************************************)
EXTENDS MysqlSession, TLAPS

PState == {s \in [at : {"first", "cols", "colEnd", "rows", "done"}, cols : Nat] :
             s.at = "cols" => s.cols # 0}
Packet == [k : {"ok", "err", "eof", "infile", "count", "col", "row"}, n : Nat,
           more : BOOLEAN, last : BOOLEAN]
Command == [id : Nat, cmd : Commands \cup {"empty"}]
-----------------------------------------------------------------------------
(* Facts about sequences.                                                  *)

LEMMA SeqFacts ==
  ASSUME NEW S, NEW q \in Seq(S)
  PROVE  /\ Len(q) \in Nat
         /\ \A i \in 1..Len(q) : q[i] \in S
         /\ \A x \in S : /\ Append(q, x) \in Seq(S)
                         /\ Len(Append(q, x)) = Len(q) + 1
                         /\ Append(q, x)[Len(q) + 1] = x
                         /\ \A i \in 1..Len(q) : Append(q, x)[i] = q[i]
         /\ q # <<>> => /\ Len(q) > 0 /\ Head(q) = q[1] /\ Head(q) \in S
                        /\ Tail(q) \in Seq(S) /\ Len(Tail(q)) = Len(q) - 1
                        /\ \A i \in 1..Len(q) - 1 : Tail(q)[i] = q[i + 1]
         /\ Len(q) = 0 => q = <<>>
<1>1. /\ Len(q) \in Nat
      /\ \A i \in 1..Len(q) : q[i] \in S
      /\ \A x \in S : /\ Append(q, x) \in Seq(S)
                      /\ Len(Append(q, x)) = Len(q) + 1
                      /\ Append(q, x)[Len(q) + 1] = x
                      /\ \A i \in 1..Len(q) : Append(q, x)[i] = q[i]
  OBVIOUS
<1>2. q # <<>> => /\ Len(q) > 0 /\ Head(q) = q[1] /\ Head(q) \in S
                  /\ Tail(q) \in Seq(S) /\ Len(Tail(q)) = Len(q) - 1
                  /\ \A i \in 1..Len(q) - 1 : Tail(q)[i] = q[i + 1]
  OBVIOUS
<1>3. Len(q) = 0 => q = <<>>
  OBVIOUS
<1> QED  BY <1>1, <1>2, <1>3

LEMMA CatFacts ==
  ASSUME NEW S, NEW q \in Seq(S), NEW r \in Seq(S)
  PROVE  /\ q \o r \in Seq(S)
         /\ Len(q \o r) = Len(q) + Len(r)
         /\ \A i \in 1..Len(q) : (q \o r)[i] = q[i]
         /\ \A i \in 1..Len(r) : (q \o r)[Len(q) + i] = r[i]
OBVIOUS
-----------------------------------------------------------------------------
(* The parser and the packets.                                             *)

\* The parser goes from state to state, whatever packet it reads.
LEMMA StepType ==
  ASSUME NEW s \in PState, s.at # "done", NEW p \in Packet
  PROVE  Step(s, p) \in PState
<1>1. \A n \in Nat : Columns(n) \in PState
  BY DEF Columns, At, PState
<1>2. EndResult(p) \in PState
  BY DEF EndResult, Start, At, PState
<1>3. First(p) \in PState
  BY <1>1, <1>2 DEF First, At, PState, Packet
<1>4. CASE s.at = "first"
  BY <1>3, <1>4 DEF Step
<1>5. CASE s.at = "cols"
  <2>1. s.cols - 1 \in Nat
    BY <1>5 DEF PState
  <2> QED  BY <1>1, <1>5, <2>1 DEF Step
<1>6. CASE s.at = "colEnd"
  BY <1>2, <1>6 DEF Step, At, PState
<1>7. CASE s.at = "rows"
  BY <1>2, <1>7 DEF Step
<1> QED  BY <1>4, <1>5, <1>6, <1>7 DEF PState

LEMMA PacketType ==
  /\ \A more \in BOOLEAN : Ok(more) \in Packet /\ Eof(more) \in Packet
  /\ Err \in Packet /\ Infile \in Packet /\ Col \in Packet /\ Row \in Packet
  /\ \A n \in Nat : Count(n) \in Packet
BY DEF Ok, Eof, Err, Infile, Col, Row, Count, Pkt, Packet

\* The packets of a result set, one by one.
Layout(q, c, r, end) ==
  /\ q \in Seq(Packet) /\ Len(q) = c + r + 3
  /\ q[1] = Count(c)
  /\ \A i \in 2..c + 1 : q[i] = Col
  /\ q[c + 2] = Eof(FALSE)
  /\ \A i \in c + 3..c + r + 2 : q[i] = Row
  /\ q[c + r + 3] = end

LEMMA ResultSetFacts ==
  ASSUME NEW c \in Nat, NEW r \in Nat, NEW end \in Packet
  PROVE  Layout(ResultSet(c, r, end), c, r, end)
<1>1. /\ Count(c) \in Packet /\ Col \in Packet /\ Row \in Packet
      /\ Eof(FALSE) \in Packet
  BY PacketType
<1> DEFINE q == ResultSet(c, r, end)
<1>2. ASSUME NEW i \in 1..c + r + 3
      PROVE  /\ i = 1 => q[i] = Count(c)
             /\ i \in 2..c + 1 => q[i] = Col
             /\ i = c + 2 => q[i] = Eof(FALSE)
             /\ i \in c + 3..c + r + 2 => q[i] = Row
             /\ i = c + r + 3 => q[i] = end
  <2>1. q[i] = CASE i = 1         -> Count(c)
                 [] i \in 2..c + 1 -> Col
                 [] i = c + 2      -> Eof(FALSE)
                 [] i = c + r + 3  -> end
                 [] OTHER          -> Row
    BY DEF ResultSet
  <2> HIDE DEF q
  <2>2. CASE i = 1
    <3>1. i \notin 2..c + 1 /\ i # c + 2 /\ i # c + r + 3 /\ i \notin c + 3..c + r + 2
      BY <2>2
    <3> QED  BY <2>1, <2>2, <3>1
  <2>3. CASE i \in 2..c + 1
    <3>1. i # 1 /\ i # c + 2 /\ i # c + r + 3 /\ i \notin c + 3..c + r + 2
      BY <2>3
    <3> QED  BY <2>1, <2>3, <3>1
  <2>4. CASE i = c + 2
    <3>1. i # 1 /\ i \notin 2..c + 1 /\ i # c + r + 3 /\ i \notin c + 3..c + r + 2
      BY <2>4
    <3> QED  BY <2>1, <2>4, <3>1
  <2>5. CASE i \in c + 3..c + r + 2
    <3>1. i # 1 /\ i \notin 2..c + 1 /\ i # c + 2 /\ i # c + r + 3
      BY <2>5
    <3> QED  BY <2>1, <2>5, <3>1
  <2>6. CASE i = c + r + 3
    <3>1. i # 1 /\ i \notin 2..c + 1 /\ i # c + 2 /\ i \notin c + 3..c + r + 2
      BY <2>6
    <3> QED  BY <2>1, <2>6, <3>1
  <2> QED  BY <2>2, <2>3, <2>4, <2>5, <2>6
<1>3. q = [i \in 1..c + r + 3 |-> q[i]]
  BY DEF ResultSet
<1> HIDE DEF q
<1>4. \A i \in 1..c + r + 3 : q[i] \in Packet
  <2> SUFFICES ASSUME NEW i \in 1..c + r + 3 PROVE q[i] \in Packet
    OBVIOUS
  <2>1. \/ i = 1 \/ i \in 2..c + 1 \/ i = c + 2 \/ i \in c + 3..c + r + 2
        \/ i = c + r + 3
    OBVIOUS
  <2> QED  BY <1>1, <1>2, <2>1
<1>5. q \in Seq(Packet) /\ Len(q) = c + r + 3
  BY <1>3, <1>4
<1>6. /\ 1 \in 1..c + r + 3 /\ c + 2 \in 1..c + r + 3 /\ c + r + 3 \in 1..c + r + 3
      /\ \A i \in 2..c + 1 : i \in 1..c + r + 3
      /\ \A i \in c + 3..c + r + 2 : i \in 1..c + r + 3
  OBVIOUS
<1>7. Layout(q, c, r, end)
  BY <1>2, <1>5, <1>6 DEF Layout
<1> QED  BY <1>7 DEF q

LEMMA MarkLastFacts ==
  ASSUME NEW q \in Seq(Packet)
  PROVE  /\ MarkLast(q) \in Seq(Packet) /\ Len(MarkLast(q)) = Len(q)
         /\ \A i \in 1..Len(q) :
              /\ MarkLast(q)[i].last <=> i = Len(q)
              /\ MarkLast(q)[i].k = q[i].k /\ MarkLast(q)[i].n = q[i].n
              /\ MarkLast(q)[i].more = q[i].more
<1>1. ASSUME NEW i \in 1..Len(q)
      PROVE  /\ MarkLast(q)[i] = [q[i] EXCEPT !.last = (i = Len(q))]
             /\ q[i] \in Packet
  BY DEF MarkLast
<1>2. ASSUME NEW p \in Packet, NEW b \in BOOLEAN
      PROVE  /\ [p EXCEPT !.last = b] \in Packet
             /\ [p EXCEPT !.last = b].last = b /\ [p EXCEPT !.last = b].k = p.k
             /\ [p EXCEPT !.last = b].n = p.n /\ [p EXCEPT !.last = b].more = p.more
  BY DEF Packet
<1>3. ASSUME NEW i \in 1..Len(q)
      PROVE  /\ MarkLast(q)[i] \in Packet
             /\ MarkLast(q)[i].last <=> i = Len(q)
             /\ MarkLast(q)[i].k = q[i].k /\ MarkLast(q)[i].n = q[i].n
             /\ MarkLast(q)[i].more = q[i].more
  <2> DEFINE b == (i = Len(q))
  <2>1. b \in BOOLEAN /\ (b <=> i = Len(q)) /\ MarkLast(q)[i] = [q[i] EXCEPT !.last = b]
    BY <1>1
  <2> HIDE DEF b
  <2> QED  BY <1>1, <1>2, <2>1
<1>4. MarkLast(q) = [i \in 1..Len(q) |-> MarkLast(q)[i]]
  BY DEF MarkLast
<1>5. MarkLast(q) \in Seq(Packet) /\ Len(MarkLast(q)) = Len(q)
  BY <1>3, <1>4
<1> QED  BY <1>3, <1>5
-----------------------------------------------------------------------------
(* The states the parser goes through while it reads packets.              *)

\* f[i]: its state after i packets of q; it is done after the last at most.
Path(f, s, q) ==
  /\ f \in [0..Len(q) -> PState]
  /\ f[0] = s
  /\ \A i \in 1..Len(q) : f[i - 1].at # "done" /\ f[i] = Step(f[i - 1], q[i])

\* ... and it is done exactly where the server is.
Trace(f, s, q) ==
  /\ Path(f, s, q)
  /\ \A i \in 1..Len(q) : f[i].at = "done" <=> q[i].last

Reaches(s, q, t) == \E f : Trace(f, s, q) /\ f[Len(q)] = t

Done == At("done", 0)

LEMMA StateType == Start \in PState /\ Done \in PState /\ Start.at # "done"
BY DEF Start, Done, At, PState

LEMMA EmptyTrace ==
  ASSUME NEW s \in PState
  PROVE  Trace([i \in 0..0 |-> s], s, <<>>)
BY DEF Trace, Path

LEMMA TailTrace ==
  ASSUME NEW s, NEW q \in Seq(Packet), q # <<>>, NEW f, Trace(f, s, q)
  PROVE  Trace([i \in 0..Len(q) - 1 |-> f[i + 1]], Step(s, q[1]), Tail(q))
<1> DEFINE g == [i \in 0..Len(q) - 1 |-> f[i + 1]]
<1>1. /\ Len(q) \in Nat /\ Len(q) > 0 /\ Len(Tail(q)) = Len(q) - 1
      /\ \A i \in 1..Len(q) - 1 : Tail(q)[i] = q[i + 1]
  BY SeqFacts
<1>2. g \in [0..Len(q) - 1 -> PState] /\ \A i \in 0..Len(q) - 1 : g[i] = f[i + 1]
  BY <1>1 DEF Trace, Path
<1>3. g[0] = Step(s, q[1])
  BY <1>1, <1>2 DEF Trace, Path
<1> HIDE DEF g
<1>4. ASSUME NEW i \in 1..Len(q) - 1
      PROVE  /\ g[i - 1].at # "done" /\ g[i] = Step(g[i - 1], Tail(q)[i])
             /\ g[i].at = "done" <=> Tail(q)[i].last
  <2>1. i + 1 \in 1..Len(q) /\ i - 1 \in 0..Len(q) - 1 /\ i \in 0..Len(q) - 1
        /\ (i - 1) + 1 = i /\ (i + 1) - 1 = i
    BY <1>1
  <2>2. g[i - 1] = f[i] /\ g[i] = f[i + 1] /\ Tail(q)[i] = q[i + 1]
    BY <1>1, <1>2, <2>1
  <2>3. f[i].at # "done" /\ f[i + 1] = Step(f[i], q[i + 1])
        /\ (f[i + 1].at = "done" <=> q[i + 1].last)
    BY <2>1 DEF Trace, Path
  <2> QED  BY <2>2, <2>3
<1>5. Trace(g, Step(s, q[1]), Tail(q))
  BY <1>1, <1>2, <1>3, <1>4 DEF Trace, Path
<1> QED  BY <1>5 DEF g

LEMMA PrefixTrace ==
  ASSUME NEW s, NEW q \in Seq(Packet), NEW k \in 0..Len(q), NEW f, Trace(f, s, q)
  PROVE  /\ SubSeq(q, 1, k) \in Seq(Packet)
         /\ Trace([i \in 0..k |-> f[i]], s, SubSeq(q, 1, k))
<1>1. /\ SubSeq(q, 1, k) \in Seq(Packet) /\ Len(SubSeq(q, 1, k)) = k
      /\ \A i \in 1..k : SubSeq(q, 1, k)[i] = q[i]
  OBVIOUS
<1> DEFINE g == [i \in 0..k |-> f[i]]
<1>2. g \in [0..k -> PState] /\ \A i \in 0..k : g[i] = f[i]
  BY DEF Trace, Path
<1> HIDE DEF g
<1>3. ASSUME NEW i \in 1..k
      PROVE  /\ g[i - 1].at # "done" /\ g[i] = Step(g[i - 1], SubSeq(q, 1, k)[i])
             /\ g[i].at = "done" <=> SubSeq(q, 1, k)[i].last
  <2>1. g[i - 1] = f[i - 1] /\ g[i] = f[i] /\ i \in 1..Len(q)
    BY <1>2
  <2> QED  BY <1>1, <2>1 DEF Trace, Path
<1>4. g[0] = s
  BY <1>2 DEF Trace, Path
<1>5. Trace(g, s, SubSeq(q, 1, k))
  BY <1>1, <1>2, <1>3, <1>4 DEF Trace, Path
<1> QED  BY <1>1, <1>5 DEF g

LEMMA CatTrace ==
  ASSUME NEW s, NEW t, NEW u, NEW q \in Seq(Packet), NEW r \in Seq(Packet),
         Reaches(s, q, t), Reaches(t, r, u)
  PROVE  Reaches(s, q \o r, u)
<1>1. PICK f : Trace(f, s, q) /\ f[Len(q)] = t
  BY DEF Reaches
<1>2. PICK g : Trace(g, t, r) /\ g[Len(r)] = u
  BY DEF Reaches
<1> DEFINE m == Len(q)
           n == Len(r)
           h == [i \in 0..m + n |-> IF i <= m THEN f[i] ELSE g[i - m]]
<1>3. /\ m \in Nat /\ n \in Nat /\ Len(q \o r) = m + n
      /\ \A i \in 1..m : (q \o r)[i] = q[i]
      /\ \A i \in 1..n : (q \o r)[m + i] = r[i]
  BY CatFacts, SeqFacts
<1>4. /\ f \in [0..m -> PState] /\ f[0] = s
      /\ g \in [0..n -> PState] /\ g[0] = f[m]
      /\ \A i \in 1..m : /\ f[i - 1].at # "done" /\ f[i] = Step(f[i - 1], q[i])
                         /\ f[i].at = "done" <=> q[i].last
      /\ \A i \in 1..n : /\ g[i - 1].at # "done" /\ g[i] = Step(g[i - 1], r[i])
                         /\ g[i].at = "done" <=> r[i].last
  BY <1>1, <1>2 DEF Trace, Path
<1> HIDE DEF m, n
<1>5. /\ \A i \in 0..m : h[i] = f[i]
      /\ \A i \in 1..n : h[m + i] = g[i]
  BY <1>3
<1>6. h[m] = g[0] /\ h[0] = s
  BY <1>3, <1>4, <1>5
<1>7. h \in [0..m + n -> PState]
  <2>1. ASSUME NEW i \in 0..m + n
        PROVE  (IF i <= m THEN f[i] ELSE g[i - m]) \in PState
    <3>1. CASE i <= m
      <4>1. i \in 0..m
        BY <1>3, <3>1
      <4> QED  BY <1>4, <3>1, <4>1
    <3>2. CASE i > m
      <4>1. i - m \in 0..n /\ ~(i <= m)
        BY <1>3, <3>2
      <4> QED  BY <1>4, <4>1
    <3> QED  BY <1>3, <3>1, <3>2
  <2> QED  BY <2>1
<1> HIDE DEF h
<1>8. ASSUME NEW i \in 1..m + n
      PROVE  /\ h[i - 1].at # "done" /\ h[i] = Step(h[i - 1], (q \o r)[i])
             /\ h[i].at = "done" <=> (q \o r)[i].last
  <2>1. CASE i \in 1..m
    <3>1. h[i - 1] = f[i - 1] /\ h[i] = f[i] /\ (q \o r)[i] = q[i]
      BY <1>3, <1>5, <2>1
    <3> QED  BY <1>4, <2>1, <3>1
  <2>2. CASE i \notin 1..m
    <3>1. PICK j \in 1..n : i = m + j
      <4>1. i - m \in 1..n /\ i = m + (i - m)
        BY <1>3, <2>2
      <4> QED  BY <4>1
    <3>2. h[i] = g[j] /\ (q \o r)[i] = r[j]
      BY <1>3, <1>5, <3>1
    <3>3. h[i - 1] = g[j - 1]
      <4>1. CASE j = 1
        <5>1. i - 1 = m
          BY <1>3, <3>1, <4>1
        <5> QED  BY <1>6, <4>1, <5>1
      <4>2. CASE j # 1
        <5>1. j - 1 \in 1..n /\ i - 1 = m + (j - 1)
          BY <1>3, <3>1, <4>2
        <5> QED  BY <1>5, <5>1
      <4> QED  BY <4>1, <4>2
    <3> QED  BY <1>4, <3>2, <3>3
  <2> QED  BY <2>1, <2>2
<1>9. Trace(h, s, q \o r)
  BY <1>3, <1>6, <1>7, <1>8 DEF Trace, Path
<1>10. h[m + n] = g[n]
  BY <1>3, <1>4, <1>5, <1>6
<1>11. h[Len(q \o r)] = u
  BY <1>2, <1>3, <1>10 DEF n
<1> QED  BY <1>9, <1>11 DEF Reaches
-----------------------------------------------------------------------------
(* The parser reads every result to its end and no further.                *)

\* Which packet is the server's last is not for the parser to see.
LEMMA StepSees ==
  ASSUME NEW s, NEW p \in Packet, NEW t \in Packet,
         p.k = t.k, p.n = t.n, p.more = t.more
  PROVE  Step(s, p) = Step(s, t)
BY DEF Step, First, EndResult

LEMMA MarkedTrace ==
  ASSUME NEW q \in Seq(Packet), NEW f, Path(f, Start, q),
         f[Len(q)].at = "done"
  PROVE  Trace(f, Start, MarkLast(q))
<1>1. /\ Len(q) \in Nat /\ \A i \in 1..Len(q) : q[i] \in Packet
      /\ Len(MarkLast(q)) = Len(q)
      /\ \A i \in 1..Len(q) : MarkLast(q)[i] \in Packet
  <2>1. MarkLast(q) \in Seq(Packet) /\ Len(MarkLast(q)) = Len(q)
    BY MarkLastFacts
  <2>2. \A i \in 1..Len(MarkLast(q)) : MarkLast(q)[i] \in Packet
    BY <2>1, SeqFacts
  <2> QED  BY <2>1, <2>2, SeqFacts
<1>2. ASSUME NEW i \in 1..Len(q)
      PROVE  /\ f[i - 1].at # "done" /\ f[i] = Step(f[i - 1], MarkLast(q)[i])
             /\ f[i].at = "done" <=> MarkLast(q)[i].last
  <2>1. f[i - 1].at # "done" /\ f[i] = Step(f[i - 1], q[i])
    BY DEF Path
  <2>2. Step(f[i - 1], q[i]) = Step(f[i - 1], MarkLast(q)[i])
    BY <1>1, MarkLastFacts, StepSees
  <2>3. MarkLast(q)[i].last <=> i = Len(q)
    BY MarkLastFacts
  <2>4. i # Len(q) => f[i].at # "done"
    <3> SUFFICES ASSUME i # Len(q) PROVE f[i].at # "done"
      OBVIOUS
    <3>1. i + 1 \in 1..Len(q) /\ (i + 1) - 1 = i
      BY <1>1
    <3> QED  BY <3>1 DEF Path
  <2> QED  BY <2>1, <2>2, <2>3, <2>4
<1> QED  BY <1>1, <1>2 DEF Trace, Path

LEMMA OnePath ==
  ASSUME NEW p \in Packet
  PROVE  /\ <<p>> \in Seq(Packet) /\ Len(<<p>>) = 1 /\ <<p>>[1] = p
         /\ \E f : Path(f, Start, <<p>>) /\ f[1] = First(p)
<1>1. <<p>> \in Seq(Packet) /\ Len(<<p>>) = 1 /\ <<p>>[1] = p
  OBVIOUS
<1> DEFINE f == [i \in 0..1 |-> IF i = 0 THEN Start ELSE First(p)]
<1>2. Step(Start, p) = First(p) /\ First(p) \in PState
  <2>1. Step(Start, p) = First(p)
    BY DEF Step, Start, At
  <2> QED  BY <2>1, StateType, StepType
<1>3. /\ f \in [0..1 -> PState] /\ f[0] = Start /\ f[1] = First(p)
  BY <1>2, StateType
<1> HIDE DEF f
<1>4. Path(f, Start, <<p>>)
  <2>1. \A i \in 1..1 : i = 1 /\ i - 1 = 0
    OBVIOUS
  <2> QED  BY <1>1, <1>2, <1>3, <2>1, StateType DEF Path
<1> QED  BY <1>1, <1>3, <1>4

LEMMA ResultSetPath ==
  ASSUME NEW c \in Nat, c # 0, NEW r \in Nat, NEW end \in Packet, end.k = "eof"
  PROVE  \E f : /\ Path(f, Start, ResultSet(c, r, end))
                /\ f[c + r + 3] = EndResult(end)
<1> DEFINE q == ResultSet(c, r, end)
<1>1. /\ q \in Seq(Packet) /\ Len(q) = c + r + 3
      /\ q[1] = Count(c)
      /\ \A i \in 2..c + 1 : q[i] = Col
      /\ q[c + 2] = Eof(FALSE)
      /\ \A i \in c + 3..c + r + 2 : q[i] = Row
      /\ q[c + r + 3] = end
  <2>1. Layout(q, c, r, end)
    BY ResultSetFacts
  <2> HIDE DEF q
  <2> QED  BY <2>1 DEF Layout
<1> HIDE DEF q
<1> DEFINE f == [i \in 0..c + r + 3 |->
                   IF i = 0 THEN Start
                   ELSE IF i <= c THEN At("cols", c - i + 1)
                   ELSE IF i = c + 1 THEN At("colEnd", 0)
                   ELSE IF i <= c + r + 2 THEN At("rows", 0)
                   ELSE EndResult(end)]
<1>2. /\ f[0] = Start
      /\ \A i \in 1..c : f[i] = At("cols", c - i + 1)
      /\ f[c + 1] = At("colEnd", 0)
      /\ \A i \in c + 2..c + r + 2 : f[i] = At("rows", 0)
      /\ f[c + r + 3] = EndResult(end)
  <2>1. f[0] = Start
    OBVIOUS
  <2>2. ASSUME NEW i \in 1..c PROVE f[i] = At("cols", c - i + 1)
    <3>1. i \in 0..c + r + 3 /\ i # 0 /\ i <= c
      OBVIOUS
    <3> QED  BY <3>1
  <2>3. f[c + 1] = At("colEnd", 0)
    <3>1. c + 1 \in 0..c + r + 3 /\ c + 1 # 0 /\ ~(c + 1 <= c)
      OBVIOUS
    <3> QED  BY <3>1
  <2>4. ASSUME NEW i \in c + 2..c + r + 2 PROVE f[i] = At("rows", 0)
    <3>1. i \in 0..c + r + 3 /\ i # 0 /\ ~(i <= c) /\ i # c + 1 /\ i <= c + r + 2
      OBVIOUS
    <3> QED  BY <3>1
  <2>5. f[c + r + 3] = EndResult(end)
    <3>1. /\ c + r + 3 \in 0..c + r + 3 /\ c + r + 3 # 0 /\ ~(c + r + 3 <= c)
          /\ c + r + 3 # c + 1 /\ ~(c + r + 3 <= c + r + 2)
      OBVIOUS
    <3> QED  BY <3>1
  <2> HIDE DEF f
  <2> QED  BY <2>1, <2>2, <2>3, <2>4, <2>5
<1>3. DOMAIN f = 0..c + r + 3 /\ f = [i \in 0..c + r + 3 |-> f[i]]
  OBVIOUS
<1> HIDE DEF f
<1>4. /\ Start \in PState /\ EndResult(end) \in PState
      /\ At("colEnd", 0) \in PState /\ At("rows", 0) \in PState
      /\ \A k \in Nat \ {0} : At("cols", k) \in PState
  BY StateType DEF EndResult, Done, At, PState
<1>5. /\ \A k \in Nat : At("cols", k).at = "cols" /\ At("cols", k).cols = k
      /\ At("colEnd", 0).at = "colEnd" /\ At("rows", 0).at = "rows"
      /\ Start.at = "first"
  BY DEF At, Start
<1>6. ASSUME NEW i \in 0..c + r + 3
      PROVE  f[i] \in PState
  <2>1. CASE i = 0
    BY <1>2, <1>4, <2>1
  <2>2. CASE i \in 1..c
    <3>1. c - i + 1 \in Nat \ {0}
      BY <2>2
    <3> QED  BY <1>2, <1>4, <2>2, <3>1
  <2>3. CASE i = c + 1
    BY <1>2, <1>4, <2>3
  <2>4. CASE i \in c + 2..c + r + 2
    BY <1>2, <1>4, <2>4
  <2>5. CASE i = c + r + 3
    BY <1>2, <1>4, <2>5
  <2> QED  BY <2>1, <2>2, <2>3, <2>4, <2>5
<1>7. ASSUME NEW i \in 1..c + r + 3
      PROVE  f[i - 1].at # "done" /\ f[i] = Step(f[i - 1], q[i])
  <2>1. CASE i = 1
    <3>1. f[i - 1] = Start /\ f[i] = At("cols", c) /\ q[i] = Count(c)
      BY <1>1, <1>2, <2>1
    <3>2. Step(Start, Count(c)) = At("cols", c)
      BY <1>5 DEF Step, First, Count, Pkt, Columns
    <3> QED  BY <1>5, <3>1, <3>2
  <2>2. CASE i \in 2..c + 1
    <3>1. i - 1 \in 1..c /\ c - (i - 1) + 1 \in Nat
      BY <2>2
    <3>2. f[i - 1] = At("cols", c - (i - 1) + 1)
      BY <1>2, <3>1
    <3>3. Step(f[i - 1], q[i]) = Columns(c - (i - 1) + 1 - 1)
      BY <1>5, <3>1, <3>2 DEF Step
    <3>4. f[i] = Columns(c - (i - 1) + 1 - 1)
      <4>1. CASE i = c + 1
        BY <1>2, <4>1 DEF Columns
      <4>2. CASE i # c + 1
        <5>1. i \in 1..c /\ c - (i - 1) + 1 - 1 = c - i + 1 /\ c - i + 1 # 0
          BY <2>2, <4>2
        <5> QED  BY <1>2, <5>1 DEF Columns
      <4> QED  BY <4>1, <4>2
    <3> QED  BY <1>5, <3>1, <3>2, <3>3, <3>4
  <2>3. CASE i = c + 2
    <3>1. i - 1 = c + 1 /\ i \in c + 2..c + r + 2
      BY <2>3
    <3>2. f[i - 1] = At("colEnd", 0) /\ f[i] = At("rows", 0) /\ q[i] = Eof(FALSE)
      BY <1>1, <1>2, <2>3, <3>1
    <3>3. Step(At("colEnd", 0), Eof(FALSE)) = At("rows", 0)
      BY <1>5 DEF Step, Eof, Pkt
    <3> QED  BY <1>5, <3>2, <3>3
  <2>4. CASE i \in c + 3..c + r + 2
    <3>1. i - 1 \in c + 2..c + r + 2 /\ i \in c + 2..c + r + 2
      BY <2>4
    <3>2. f[i - 1] = At("rows", 0) /\ f[i] = At("rows", 0) /\ q[i] = Row
      BY <1>1, <1>2, <2>4, <3>1
    <3>3. Step(At("rows", 0), Row) = At("rows", 0)
      BY <1>5 DEF Step, Row, Pkt
    <3> QED  BY <1>5, <3>2, <3>3
  <2>5. CASE i = c + r + 3
    <3>1. i - 1 \in c + 2..c + r + 2
      BY <2>5
    <3>2. f[i - 1] = At("rows", 0) /\ f[i] = EndResult(end) /\ q[i] = end
      BY <1>1, <1>2, <2>5, <3>1
    <3>3. Step(At("rows", 0), end) = EndResult(end)
      BY <1>5 DEF Step
    <3> QED  BY <1>5, <3>2, <3>3
  <2> QED  BY <2>1, <2>2, <2>3, <2>4, <2>5
<1>8. Path(f, Start, q)
  BY <1>1, <1>2, <1>3, <1>6, <1>7 DEF Path
<1> QED  BY <1>2, <1>8 DEF q

LEMMA ResultPath ==
  ASSUME NEW more \in BOOLEAN, NEW q \in Result(more)
  PROVE  /\ q \in Seq(Packet) /\ Len(q) > 0
         /\ \A i \in 1..Len(q) : q[i].last = FALSE
         /\ \E f : Path(f, Start, q) /\ f[Len(q)] = IF more THEN Start ELSE Done
<1>1. Ok(more) \in Packet /\ Eof(more) \in Packet
  BY PacketType
<1>2. /\ First(Ok(more)) = IF more THEN Start ELSE Done
      /\ EndResult(Eof(more)) = IF more THEN Start ELSE Done
  BY DEF First, EndResult, Ok, Eof, Pkt, Done
<1>3. CASE q = <<Ok(more)>>
  <2>1. Ok(more).last = FALSE
    BY DEF Ok, Pkt
  <2> QED  BY <1>1, <1>2, <1>3, <2>1, OnePath
<1>4. CASE q \in ResultSets(Eof(more))
  <2>1. PICK c \in 1..MaxCols, r \in 0..MaxRows : q = ResultSet(c, r, Eof(more))
    BY <1>4 DEF ResultSets
  <2>2. c \in Nat /\ c # 0 /\ r \in Nat
    BY ResponseAssumption
  <2>3. Layout(q, c, r, Eof(more))
    BY <1>1, <2>1, <2>2, ResultSetFacts
  <2>4. /\ Count(c).last = FALSE /\ Col.last = FALSE /\ Row.last = FALSE
        /\ Eof(FALSE).last = FALSE /\ Eof(more).last = FALSE /\ Eof(more).k = "eof"
    BY DEF Count, Col, Row, Eof, Pkt
  <2>5. PICK f : Path(f, Start, q) /\ f[c + r + 3] = EndResult(Eof(more))
    BY <1>1, <2>1, <2>2, <2>4, ResultSetPath
  <2>6. q \in Seq(Packet) /\ Len(q) = c + r + 3 /\ Len(q) > 0
    BY <2>2, <2>3 DEF Layout
  <2>7. ASSUME NEW i \in 1..Len(q) PROVE q[i].last = FALSE
    <3>1. \/ i = 1 \/ i \in 2..c + 1 \/ i = c + 2 \/ i \in c + 3..c + r + 2
          \/ i = c + r + 3
      BY <2>2, <2>6
    <3> QED  BY <2>3, <2>4, <3>1 DEF Layout
  <2> QED  BY <1>2, <2>5, <2>6, <2>7
<1> QED  BY <1>3, <1>4 DEF Result

\* After a result that says more follow, the parser is at the start of the
\* next one.
LEMMA MoreTrace ==
  ASSUME NEW cmd, NEW q \in MoreResult(cmd)
  PROVE  /\ q \in Seq(Packet) /\ cmd \in {"query", "execute"}
         /\ \E f : Trace(f, Start, q) /\ f[Len(q)] = Start
<1>1. q \in Result(TRUE) /\ cmd \in {"query", "execute"}
  BY DEF MoreResult
<1>2. /\ q \in Seq(Packet) /\ Len(q) > 0
      /\ \A i \in 1..Len(q) : q[i].last = FALSE
  BY <1>1, ResultPath
<1>3. PICK f : Path(f, Start, q) /\ f[Len(q)] = Start
  BY <1>1, ResultPath
<1>4. ASSUME NEW i \in 1..Len(q)
      PROVE  f[i].at # "done"
  <2>1. CASE i = Len(q)
    BY <1>3, <2>1, StateType
  <2>2. CASE i # Len(q)
    <3>1. i + 1 \in 1..Len(q) /\ (i + 1) - 1 = i
      BY <1>2, <2>2
    <3> QED  BY <1>3, <3>1 DEF Path
  <2> QED  BY <2>1, <2>2
<1> QED  BY <1>1, <1>2, <1>3, <1>4 DEF Trace

\* What an ordinary command other than a simple one is answered ends, for the
\* parser, where it ends for the server.
LEMMA LastTrace ==
  ASSUME NEW cmd \in {"query", "execute", "empty"}, NEW q \in LastResult(cmd)
  PROVE  /\ q \in Seq(Packet)
         /\ \E f : Trace(f, Start, q) /\ f[Len(q)].at = "done"
<1>1. PICK r : /\ q = MarkLast(r)
               /\ r \in Result(FALSE) \cup {<<Err>>, <<Infile>>, <<Ok(FALSE)>>}
  BY DEF LastResult
<1>2. /\ Done.at = "done"
      /\ First(Err) = Done /\ First(Infile) = Done /\ First(Ok(FALSE)) = Done
      /\ Err \in Packet /\ Infile \in Packet /\ Ok(FALSE) \in Packet
  BY PacketType DEF First, EndResult, Err, Infile, Ok, Pkt, Done, At
<1>3. r \in Seq(Packet) /\ \E f : Path(f, Start, r) /\ f[Len(r)] = Done
  <2>1. CASE r \in Result(FALSE)
    BY <2>1, ResultPath
  <2>2. CASE r \in {<<Err>>, <<Infile>>, <<Ok(FALSE)>>}
    <3>1. PICK e \in Packet : r = <<e>> /\ First(e) = Done
      BY <1>2, <2>2
    <3> QED  BY <3>1, OnePath
  <2> QED  BY <1>1, <2>1, <2>2
<1>4. PICK f : Path(f, Start, r) /\ f[Len(r)] = Done
  BY <1>3
<1>5. Trace(f, Start, q) /\ q \in Seq(Packet) /\ Len(q) = Len(r)
  BY <1>1, <1>2, <1>3, <1>4, MarkedTrace, MarkLastFacts
<1> QED  BY <1>2, <1>4, <1>5

LEMMA SimpleLast ==
  ASSUME NEW q \in LastResult("simple")
  PROVE  q \in Seq(Packet) /\ Len(q) = 1 /\ q[1].last
<1>1. PICK r : q = MarkLast(r) /\ r \in {<<Ok(TRUE)>>, <<Ok(FALSE)>>, <<Err>>}
  BY DEF LastResult
<1>2. r \in Seq(Packet) /\ Len(r) = 1
  BY <1>1, PacketType, OnePath
<1> QED  BY <1>1, <1>2, MarkLastFacts
-----------------------------------------------------------------------------
(* Every command read is logged once.                                      *)

Handler ==
  /\ up \in Seq(Command)
  /\ pc \in {"read", "write", "simple", "respond", "copy", "ended"}
  /\ cur = <<>> \/ \E c \in Command : cur = <<c>>
  /\ pc \in {"write", "simple", "respond"} => cur # <<>>
  /\ next \in Nat
  /\ read \in Seq(Nat) /\ primaryLog \in Seq(Nat)

\* A command in hand is the only one read and not logged.
Logs ==
  /\ pc \in {"write", "simple", "respond"} => read = Append(primaryLog, cur[1].id)
  /\ pc \in {"read", "ended", "copy"} => read = primaryLog

LEMMA CurType ==
  ASSUME cur # <<>>, cur = <<>> \/ \E c \in Command : cur = <<c>>
  PROVE  cur[1] \in Command /\ cur = <<cur[1]>>
OBVIOUS

LEMMA InitLogs == Init => Handler /\ Logs
BY DEF Init, Handler, Logs

\* Logging the command in hand, on any path.
LEMMA LogStep ==
  ASSUME Handler, Logs, pc \in {"write", "simple", "respond"},
         pc' \in {"read", "ended"}, logPrimaryExecution,
         UNCHANGED <<up, cur, next, read>>
  PROVE  Handler' /\ Logs'
<1>1. cur[1] \in Command /\ cur[1].id \in Nat
  BY CurType DEF Handler, Command
<1>2. primaryLog' \in Seq(Nat) /\ primaryLog' = Append(primaryLog, cur[1].id)
  BY <1>1, SeqFacts DEF Handler, logPrimaryExecution
<1> QED  BY <1>2 DEF Handler, Logs

\* Steps that have nothing to do with the log.
LEMMA LogKept ==
  ASSUME Handler, Logs, up' \in Seq(Command), next' \in Nat,
         UNCHANGED <<pc, cur, read, primaryLog>>
  PROVE  Handler' /\ Logs'
BY DEF Handler, Logs

LEMMA NextLogs ==
  ASSUME Handler, Logs, [Next]_vars
  PROVE  Handler' /\ Logs'
<1>1. ASSUME NEW cmd \in Commands \cup {"empty"}, ClientSends(cmd)
      PROVE  Handler' /\ Logs'
  <2>1. [id |-> next, cmd |-> cmd] \in Command
    BY DEF Handler, Command
  <2>2. up' \in Seq(Command) /\ next' \in Nat /\ UNCHANGED <<pc, cur, read, primaryLog>>
    BY <1>1, <2>1 DEF ClientSends, Handler
  <2> QED  BY <2>2, LogKept
<1>2. CASE ClientStep
  <2>1. CASE ClientGone
    BY <2>1, LogKept DEF ClientGone, Handler
  <2> QED  BY <1>1, <1>2, <2>1 DEF ClientStep, ClientCommand, ClientRefusesFile
<1>3. CASE ReadCommand
  <2>1. /\ pc = "read" /\ pc' = "write" /\ up # <<>> /\ up' = Tail(up)
        /\ cur' = <<Head(up)>> /\ read' = Append(read, Head(up).id)
        /\ UNCHANGED <<next, primaryLog>>
    BY <1>3 DEF ReadCommand
  <2>2. Head(up) \in Command /\ Tail(up) \in Seq(Command)
    BY <2>1, SeqFacts DEF Handler
  <2>3. Head(up).id \in Nat
    BY <2>2 DEF Command
  <2>4. read' \in Seq(Nat) /\ cur'[1] = Head(up) /\ cur' # <<>>
    BY <2>1, <2>3 DEF Handler
  <2> QED  BY <2>1, <2>2, <2>4 DEF Handler, Logs
<1>4. CASE ReadEnds
  BY <1>4 DEF ReadEnds, Handler, Logs
<1>5. CASE WritePrimary
  <2>1. pc = "write" /\ UNCHANGED <<up, cur, next, read>>
    BY <1>5 DEF WritePrimary
  <2>2. CASE isNoResponseCommand(cur[1].cmd)
    BY <1>5, <2>1, <2>2, LogStep DEF WritePrimary
  <2>3. CASE ~isNoResponseCommand(cur[1].cmd)
    <3>1. pc' \in {"simple", "respond"} /\ UNCHANGED primaryLog
      BY <1>5, <2>3 DEF WritePrimary
    <3> QED  BY <2>1, <3>1 DEF Handler, Logs
  <2> QED  BY <2>2, <2>3
<1>6. CASE WriteError
  BY <1>6, LogStep DEF WriteError
<1>7. CASE ForwardSimple
  BY <1>7, LogStep DEF ForwardSimple
<1>8. CASE ForwardPacket
  <2>1. pc = "respond" /\ UNCHANGED <<up, cur, next, read>>
    BY <1>8 DEF ForwardPacket
  <2>2. CASE parser'.at = "done"
    BY <1>8, <2>1, <2>2, LogStep DEF ForwardPacket
  <2>3. CASE parser'.at # "done"
    BY <1>8, <2>1, <2>3, LogKept DEF ForwardPacket, Handler
  <2> QED  BY <2>2, <2>3
<1>9. CASE ForwardError
  BY <1>9, LogStep DEF ForwardError
<1>10. CASE CopyUp \/ CopyDown
  <2>1. up \in Seq(Command) /\ (up # <<>> => Tail(up) \in Seq(Command)) /\ next \in Nat
    BY SeqFacts DEF Handler
  <2>2. up' \in Seq(Command) /\ UNCHANGED <<pc, cur, next, read, primaryLog>>
    BY <1>10, <2>1 DEF CopyUp, CopyDown, CopyCommand, CopyPacket, CopyEnds
  <2> QED  BY <2>1, <2>2, LogKept
<1>11. CASE CopyJoined
  BY <1>11 DEF CopyJoined, Handler, Logs
<1>12. CASE PrimaryStep
  BY <1>12, LogKept DEF PrimaryStep, AnswerMore, AnswerLast, PrimaryDown, Handler
<1>13. CASE UNCHANGED vars
  BY <1>13, LogKept DEF vars, Handler
<1> QED
  BY <1>2, <1>3, <1>4, <1>5, <1>6, <1>7, <1>8, <1>9, <1>10, <1>11, <1>12, <1>13
  DEF Next, HandlerStep, Ended

\* proxyWithMirrorWorker: whatever commands the client sends, whatever the
\* primary answers and wherever either goes away, each command read is logged
\* for the primary exactly once and in order.
THEOREM PrimaryLogComplete == Spec => []LoggedOnce
<1>1. Init => Handler /\ Logs
  BY InitLogs
<1>2. Handler /\ Logs /\ [Next]_vars => (Handler /\ Logs)'
  BY NextLogs
<1>3. Handler /\ Logs => LoggedOnce
  <2> SUFFICES ASSUME Handler, Logs PROVE LoggedOnce
    OBVIOUS
  <2>1. CASE pc \in {"write", "simple", "respond"}
    <3>1. cur[1].id \in Nat
      BY <2>1, CurType DEF Handler, Command
    <3>2. read = Append(primaryLog, cur[1].id) /\ primaryLog \in Seq(Nat)
      BY <2>1 DEF Handler, Logs
    <3>3. /\ Len(read) = Len(primaryLog) + 1 /\ Len(primaryLog) \in Nat
          /\ \A i \in 1..Len(primaryLog) : read[i] = primaryLog[i]
      BY <3>1, <3>2
    <3> QED  BY <2>1, <3>3 DEF LoggedOnce
  <2>2. CASE pc \in {"read", "ended", "copy"}
    BY <2>2 DEF Handler, Logs, LoggedOnce
  <2> QED  BY <2>1, <2>2 DEF Handler
<1> QED  BY <1>1, <1>2, <1>3, PTL DEF Spec
-----------------------------------------------------------------------------
(* The handler and the client agree on where a response ends.              *)

\* No query that fails midway, and no COM_STMT_PREPARE.
Ordinary == Commands \cap {"failing", "prepare"} = {}

Streams ==
  /\ client \in {"idle", "wait", "infile", "gone"}
  /\ work \in Seq(Command) /\ down \in Seq(Packet)
  /\ primary \in {"up", "down"} /\ (primary = "down" => work = <<>>)
  /\ pc # "copy" => copying = {}

Waits == client \in {"wait", "gone"}

\* Only the client's last command can have a response to come.
OneRequest ==
  \A i \in 1..Len(up) : HasResponse(up[i].cmd) => i = Len(up) /\ Waits
Silent(q) == \A i \in 1..Len(q) : ~HasResponse(q[i].cmd)
Owed(q, c) ==
  \A i \in 1..Len(q) : IF i = Len(q) THEN q[i] = c ELSE ~HasResponse(q[i].cmd)

\* The packets on their way, and the ones the primary has still to send, are
\* the rest of the response.
SimpleLeft ==
  /\ Len(down) <= 1 /\ \A i \in 1..Len(down) : down[i].last
  /\ primary = "up" => (work = <<>> <=> down # <<>>)
ResponseLeft ==
  /\ parser \in PState /\ parser.at # "done"
  /\ \E f : /\ Trace(f, parser, down)
            /\ primary = "up" => IF work = <<>> THEN f[Len(down)].at = "done"
                                               ELSE f[Len(down)] = Start

InTurn ==
  /\ pc \in {"read", "write"} => down = <<>> /\ Silent(work) /\ OneRequest
  /\ pc = "write" /\ HasResponse(cur[1].cmd) => up = <<>> /\ Waits
  /\ pc \in {"simple", "respond"} =>
       /\ up = <<>> /\ Waits /\ HasResponse(cur[1].cmd) /\ Owed(work, cur[1])
       /\ pc = "simple" <=> cur[1].cmd = "simple"
  /\ pc = "simple" => SimpleLeft
  /\ pc = "respond" => ResponseLeft

LEMMA InitTurn == Init => Streams /\ InTurn
BY DEF Init, Streams, InTurn, Silent, OneRequest

\* A handler that has ended, or only copies, is in nobody's turn.
LEMMA NoTurn ==
  ASSUME pc' \in {"copy", "ended"}
  PROVE  InTurn'
BY DEF InTurn

LEMMA ClientTurn ==
  ASSUME Handler, Streams, InTurn, ClientStep
  PROVE  Streams' /\ InTurn'
<1>1. ASSUME NEW cmd \in Commands \cup {"empty"}, ClientSends(cmd),
             client \in {"idle", "infile"}
      PROVE  Streams' /\ InTurn'
  <2>1. /\ UNCHANGED <<pc, cur, parser, primary, work, down, copying>>
        /\ up' = Append(up, [id |-> next, cmd |-> cmd])
        /\ client' = IF HasResponse(cmd) THEN "wait" ELSE client
    BY <1>1 DEF ClientSends
  <2>2. ~Waits /\ (HasResponse(cmd) => Waits')
    BY <1>1, <2>1 DEF Waits
  <2>3. pc \notin {"simple", "respond"} /\ ~(pc = "write" /\ HasResponse(cur[1].cmd))
    BY <2>2 DEF InTurn
  <2>4. OneRequest => OneRequest'
    <3> SUFFICES ASSUME OneRequest, NEW i \in 1..Len(up'), HasResponse(up'[i].cmd)
                 PROVE  i = Len(up') /\ Waits'
      BY DEF OneRequest
    <3>1. [id |-> next, cmd |-> cmd] \in Command /\ [id |-> next, cmd |-> cmd].cmd = cmd
      BY DEF Handler, Command
    <3>2. /\ Len(up) \in Nat /\ Len(up') = Len(up) + 1
          /\ up'[Len(up) + 1] = [id |-> next, cmd |-> cmd]
          /\ \A j \in 1..Len(up) : up'[j] = up[j]
      BY <2>1, <3>1, SeqFacts DEF Handler
    <3>3. i \notin 1..Len(up)
      BY <2>2, <3>2 DEF OneRequest
    <3>4. i = Len(up) + 1
      BY <3>2, <3>3
    <3> QED  BY <2>2, <3>1, <3>2, <3>4
  <2>5. Silent(work)' = Silent(work)
    BY <2>1 DEF Silent
  <2>6. Streams'
    BY <2>1 DEF Streams
  <2>7. InTurn'
    BY <2>1, <2>3, <2>4, <2>5 DEF InTurn
  <2> QED  BY <2>6, <2>7
<1>2. CASE ClientGone
  <2>1. /\ UNCHANGED <<up, pc, cur, parser, primary, work, down, copying>>
        /\ client' = "gone"
    BY <1>2 DEF ClientGone
  <2>2. Waits' /\ (OneRequest => OneRequest')
    BY <2>1 DEF Waits, OneRequest
  <2>3. /\ Silent(work)' = Silent(work) /\ Owed(work, cur[1])' = Owed(work, cur[1])
        /\ SimpleLeft' = SimpleLeft /\ ResponseLeft' = ResponseLeft
    BY <2>1 DEF Silent, Owed, SimpleLeft, ResponseLeft
  <2>4. Streams'
    BY <2>1 DEF Streams
  <2>5. InTurn'
    BY <2>1, <2>2, <2>3 DEF InTurn
  <2> QED  BY <2>4, <2>5
<1> QED  BY <1>1, <1>2 DEF ClientStep, ClientCommand, ClientRefusesFile

LEMMA ReadTurn ==
  ASSUME Handler, Streams, InTurn, ReadCommand
  PROVE  Streams' /\ InTurn'
<1>1. /\ pc = "read" /\ up # <<>> /\ cur' = <<Head(up)>> /\ up' = Tail(up)
      /\ pc' = "write" /\ UNCHANGED <<client, primary, work, down, copying>>
  BY DEF ReadCommand
<1>2. down = <<>> /\ Silent(work) /\ OneRequest
  BY <1>1 DEF InTurn
<1>3. /\ Len(up) \in Nat /\ Len(up) > 0 /\ Head(up) = up[1]
      /\ up' \in Seq(Command) /\ Len(up') = Len(up) - 1
      /\ \A i \in 1..Len(up) - 1 : up'[i] = up[i + 1]
  BY <1>1, SeqFacts DEF Handler
<1>4. ASSUME NEW i \in 1..Len(up'), HasResponse(up'[i].cmd)
      PROVE  i = Len(up') /\ Waits
  <2>1. i + 1 \in 1..Len(up) /\ up'[i] = up[i + 1]
    BY <1>3
  <2>2. i + 1 = Len(up) /\ Waits
    BY <1>2, <1>4, <2>1 DEF OneRequest
  <2> QED  BY <1>3, <2>2
<1>5. OneRequest' /\ Silent(work)' /\ down' = <<>>
  BY <1>1, <1>2, <1>4 DEF OneRequest, Silent, Waits
<1>6. HasResponse(cur'[1].cmd) => up' = <<>> /\ Waits'
  <2> SUFFICES ASSUME HasResponse(cur'[1].cmd) PROVE up' = <<>> /\ Waits'
    OBVIOUS
  <2>1. cur'[1] = up[1] /\ 1 \in 1..Len(up)
    BY <1>1, <1>3
  <2>2. 1 = Len(up) /\ Waits
    BY <1>2, <2>1 DEF OneRequest
  <2>3. Len(up') = 0
    <3>1. Len(up') = Len(up) - 1
      BY <1>3
    <3> QED  BY <2>2, <3>1
  <2> QED  BY <1>1, <1>3, <2>2, <2>3, SeqFacts DEF Waits
<1>7. Streams'
  BY <1>1 DEF Streams
<1>8. InTurn'
  BY <1>1, <1>5, <1>6 DEF InTurn
<1> QED  BY <1>7, <1>8

LEMMA WriteTurn ==
  ASSUME Handler, Streams, InTurn, WritePrimary
  PROVE  Streams' /\ InTurn'
<1>1. /\ pc = "write" /\ parser' = Start
      /\ work' = IF primary = "up" THEN Append(work, cur[1]) ELSE work
      /\ UNCHANGED <<client, up, cur, primary, down, copying>>
  BY DEF WritePrimary
<1>2. down = <<>> /\ Silent(work) /\ OneRequest
  BY <1>1 DEF InTurn
<1>3. cur[1] \in Command
  BY <1>1, CurType DEF Handler
<1>4. primary = "up" => /\ work' \in Seq(Command) /\ Len(work') = Len(work) + 1
                        /\ Len(work) \in Nat /\ work'[Len(work) + 1] = cur[1]
                        /\ \A i \in 1..Len(work) : work'[i] = work[i]
  BY <1>1, <1>3, SeqFacts DEF Streams
<1>5. primary = "down" => work' = work /\ work = <<>>
  BY <1>1 DEF Streams
<1>6. Streams'
  <2>1. pc' \in {"read", "simple", "respond", "ended"}
    BY DEF WritePrimary
  <2> QED  BY <1>1, <1>4, <1>5, <2>1 DEF Streams
<1>7. CASE isNoResponseCommand(cur[1].cmd)
  <2>1. pc' \in {"read", "ended"} /\ ~HasResponse(cur[1].cmd)
    BY <1>7 DEF WritePrimary, isNoResponseCommand, HasResponse
  <2>2. Silent(work')
    <3>1. CASE primary = "up"
      <4> SUFFICES ASSUME NEW i \in 1..Len(work') PROVE ~HasResponse(work'[i].cmd)
        BY DEF Silent
      <4>1. i \in 1..Len(work) \/ i = Len(work) + 1
        BY <1>4, <3>1
      <4> QED  BY <1>2, <1>4, <2>1, <3>1, <4>1 DEF Silent
    <3>2. CASE primary = "down"
      BY <1>2, <1>5, <3>2
    <3> QED  BY <3>1, <3>2 DEF Streams
  <2>3. OneRequest' /\ down' = <<>>
    BY <1>1, <1>2 DEF OneRequest, Waits
  <2> QED  BY <1>6, <2>1, <2>2, <2>3 DEF InTurn
<1>8. CASE ~isNoResponseCommand(cur[1].cmd)
  <2>1. /\ HasResponse(cur[1].cmd) /\ up' = <<>> /\ Waits'
        /\ pc' = IF cur[1].cmd = "simple" THEN "simple" ELSE "respond"
    BY <1>1, <1>8
    DEF WritePrimary, isNoResponseCommand, isSimpleResponseCommand, HasResponse,
        InTurn, Waits
  <2>2. Owed(work', cur'[1])
    <3>1. CASE primary = "up"
      <4> SUFFICES ASSUME NEW i \in 1..Len(work')
                   PROVE  IF i = Len(work') THEN work'[i] = cur[1]
                                            ELSE ~HasResponse(work'[i].cmd)
        BY <1>1 DEF Owed
      <4>1. i # Len(work') => i \in 1..Len(work)
        BY <1>4, <3>1
      <4> QED  BY <1>2, <1>4, <3>1, <4>1 DEF Silent
    <3>2. CASE primary = "down"
      BY <1>5, <3>2 DEF Owed
    <3> QED  BY <3>1, <3>2 DEF Streams
  <2>3. primary' = "up" => work' # <<>>
    <3> SUFFICES ASSUME primary = "up" PROVE work' # <<>>
      BY <1>1
    <3>1. Len(work') # 0
      BY <1>4
    <3> QED  BY <3>1
  <2>4. SimpleLeft'
    BY <1>1, <1>2, <2>3 DEF SimpleLeft
  <2>5. ResponseLeft'
    <3> DEFINE f == [i \in 0..0 |-> Start]
    <3>1. Trace(f, parser', down') /\ f[Len(down')] = Start
      BY <1>1, <1>2, EmptyTrace, StateType
    <3> HIDE DEF f
    <3> QED  BY <1>1, <2>3, <3>1, StateType DEF ResponseLeft
  <2> QED  BY <1>1, <1>6, <2>1, <2>2, <2>4, <2>5 DEF InTurn
<1> QED  BY <1>7, <1>8

LEMMA DeliverType ==
  ASSUME NEW p, Deliver(p), client \in {"idle", "wait", "infile", "gone"}
  PROVE  client' \in {"idle", "wait", "infile", "gone"}
BY DEF Deliver

\* The command is served: nothing is left of it anywhere.
LEMMA ServedTurn ==
  ASSUME Streams, pc' = "read", down' = <<>>, work = <<>>, up = <<>>,
         client' \in {"idle", "wait", "infile", "gone"}, copying = {},
         UNCHANGED <<up, primary, work, copying>>
  PROVE  Streams' /\ InTurn'
<1>1. Streams'
  BY DEF Streams
<1>2. InTurn'
  BY DEF InTurn, Silent, OneRequest
<1> QED  BY <1>1, <1>2

LEMMA SimpleTurn ==
  ASSUME Handler, Streams, InTurn, ForwardSimple
  PROVE  Streams' /\ InTurn'
<1>1. /\ pc = "simple" /\ down # <<>> /\ down' = Tail(down) /\ Deliver(Head(down))
      /\ pc' = "read" /\ UNCHANGED <<up, primary, work, copying>>
  BY DEF ForwardSimple
<1>2. SimpleLeft /\ up = <<>> /\ copying = {}
  BY <1>1 DEF InTurn, Streams
<1>3. down' = <<>>
  <2>1. Len(down) \in Nat /\ Len(down) > 0 /\ Tail(down) \in Seq(Packet)
        /\ Len(Tail(down)) = Len(down) - 1
    BY <1>1, SeqFacts DEF Streams
  <2>2. Len(Tail(down)) = 0
    BY <1>2, <2>1 DEF SimpleLeft
  <2> QED  BY <1>1, <2>1, <2>2, SeqFacts
<1>4. work = <<>>
  BY <1>1, <1>2 DEF SimpleLeft, Streams
<1> QED  BY <1>1, <1>2, <1>3, <1>4, DeliverType, ServedTurn DEF Streams

LEMMA PacketTurn ==
  ASSUME Handler, Streams, InTurn, ForwardPacket
  PROVE  Streams' /\ InTurn'
<1>1. /\ pc = "respond" /\ down # <<>> /\ down' = Tail(down) /\ Deliver(Head(down))
      /\ parser' = Step(parser, Head(down))
      /\ pc' = IF parser'.at = "done" THEN "read" ELSE "respond"
      /\ UNCHANGED <<up, cur, primary, work, copying>>
  BY DEF ForwardPacket
<1>2. /\ ResponseLeft /\ up = <<>> /\ copying = {} /\ Waits /\ HasResponse(cur[1].cmd)
      /\ Owed(work, cur[1]) /\ cur[1].cmd # "simple"
  BY <1>1 DEF InTurn, Streams
<1>3. /\ down \in Seq(Packet) /\ Len(down) \in Nat /\ Len(down) > 0
      /\ Head(down) = down[1] /\ Head(down) \in Packet
      /\ Tail(down) \in Seq(Packet) /\ Len(Tail(down)) = Len(down) - 1
  BY <1>1, SeqFacts DEF Streams
<1>4. PICK f : /\ Trace(f, parser, down)
               /\ primary = "up" => IF work = <<>> THEN f[Len(down)].at = "done"
                                                  ELSE f[Len(down)] = Start
  BY <1>2 DEF ResponseLeft
<1>5. /\ parser' = f[1] /\ parser' \in PState
      /\ f[1].at = "done" <=> Head(down).last
  <2>1. 1 \in 1..Len(down) /\ 1 \in 0..Len(down) /\ 1 - 1 = 0
    BY <1>3
  <2> QED  BY <1>1, <1>3, <1>4, <2>1 DEF Trace, Path
<1>6. CASE parser'.at = "done"
  <2>1. Len(down) = 1
    <3> SUFFICES ASSUME Len(down) # 1 PROVE FALSE
      OBVIOUS
    <3>1. 2 \in 1..Len(down) /\ 2 - 1 = 1
      BY <1>3
    <3> QED  BY <1>4, <1>5, <1>6, <3>1 DEF Trace, Path
  <2>2. down' = <<>>
    <3>1. Len(Tail(down)) = 0
      BY <1>3, <2>1
    <3> QED  BY <1>1, <1>3, <3>1, SeqFacts
  <2>3. work = <<>>
    BY <1>4, <1>5, <1>6, <2>1, StateType DEF Streams
  <2> QED  BY <1>1, <1>2, <1>6, <2>2, <2>3, DeliverType, ServedTurn DEF Streams
<1>7. CASE parser'.at # "done"
  <2>1. client' = client /\ pc' = "respond"
    BY <1>1, <1>5, <1>7 DEF Deliver
  <2>2. Streams'
    BY <1>1, <1>2, <1>3, <2>1 DEF Streams
  <2>3. ResponseLeft'
    <3> DEFINE g == [i \in 0..Len(down) - 1 |-> f[i + 1]]
    <3>1. Trace(g, parser', down')
      BY <1>1, <1>3, <1>4, TailTrace
    <3>2. g[Len(down')] = f[Len(down)]
      <4>1. Len(down') = Len(down) - 1 /\ Len(down) - 1 \in 0..Len(down) - 1
            /\ (Len(down) - 1) + 1 = Len(down)
        BY <1>1, <1>3
      <4> QED  BY <4>1
    <3> HIDE DEF g
    <3> QED  BY <1>1, <1>4, <1>5, <1>7, <3>1, <3>2 DEF ResponseLeft
  <2>4. Owed(work', cur'[1]) /\ Waits'
    BY <1>1, <1>2, <2>1 DEF Owed, Waits
  <2> QED  BY <1>1, <1>2, <2>1, <2>2, <2>3, <2>4 DEF InTurn
<1> QED  BY <1>6, <1>7

LEMMA EndTurn ==
  ASSUME Handler, Streams, InTurn, ReadEnds \/ WriteError \/ ForwardError \/ CopyJoined
  PROVE  Streams' /\ InTurn'
<1>1. /\ pc' = "ended" /\ UNCHANGED <<client, primary, work, down, copying>>
      /\ pc = "copy" => copying = {}
  BY DEF ReadEnds, WriteError, ForwardError, CopyJoined, Joined
<1> QED  BY <1>1, NoTurn DEF Streams

LEMMA CopyTurn ==
  ASSUME Handler, Streams, InTurn, CopyUp \/ CopyDown
  PROVE  Streams' /\ InTurn'
<1>1. pc = "copy" /\ pc' = "copy"
  BY DEF CopyUp, CopyDown, CopyCommand, CopyPacket, CopyEnds, Streams
<1>2. CASE CopyCommand
  <2>1. Head(up) \in Command /\ Append(work, Head(up)) \in Seq(Command)
    BY <1>2, SeqFacts DEF CopyCommand, Handler, Streams
  <2> QED  BY <1>1, <1>2, <2>1, NoTurn DEF CopyCommand, Streams
<1>3. CASE CopyPacket
  <2>1. Tail(down) \in Seq(Packet) /\ client' \in {"idle", "wait", "infile", "gone"}
    BY <1>3, SeqFacts, DeliverType DEF CopyPacket, Streams
  <2> QED  BY <1>1, <1>3, <2>1, NoTurn DEF CopyPacket, Streams
<1>4. ASSUME NEW d, NEW e, CopyEnds(d, e) PROVE Streams' /\ InTurn'
  BY <1>1, <1>4, NoTurn DEF CopyEnds, Streams
<1> QED  BY <1>2, <1>3, <1>4 DEF CopyUp, CopyDown

\* The primary only sends what belongs to the command in hand.
LEMMA HeadOfWork ==
  ASSUME Handler, Streams, InTurn, Ordinary, work # <<>>
  PROVE  /\ Head(work) \in Command /\ Tail(work) \in Seq(Command)
         /\ Len(work) \in Nat /\ Len(work) > 0 /\ Len(Tail(work)) = Len(work) - 1
         /\ \A i \in 1..Len(work) - 1 : Tail(work)[i] = work[i + 1]
         /\ Head(work).cmd \in {"query", "execute", "simple", "silent", "quit", "empty"}
         /\ pc \in {"read", "write"} => ~HasResponse(Head(work).cmd)
         /\ pc \in {"simple", "respond"} =>
              /\ HasResponse(Head(work).cmd) => /\ Len(work) = 1 /\ Tail(work) = <<>>
                                                /\ Head(work) = cur[1]
              /\ ~HasResponse(Head(work).cmd) => Len(work) # 1
<1>1. /\ Head(work) \in Command /\ Head(work) = work[1] /\ Tail(work) \in Seq(Command)
      /\ Len(work) \in Nat /\ Len(work) > 0 /\ Len(Tail(work)) = Len(work) - 1
      /\ \A i \in 1..Len(work) - 1 : Tail(work)[i] = work[i + 1]
  BY SeqFacts DEF Streams
<1>2. Head(work).cmd \in {"query", "execute", "simple", "silent", "quit", "empty"}
  BY <1>1, SessionAssumption DEF Ordinary, Command
<1>3. 1 \in 1..Len(work)
  BY <1>1
<1>4. pc \in {"read", "write"} => ~HasResponse(Head(work).cmd)
  BY <1>1, <1>3 DEF InTurn, Silent
<1>5. ASSUME pc \in {"simple", "respond"}
      PROVE  /\ HasResponse(Head(work).cmd) => /\ Len(work) = 1 /\ Tail(work) = <<>>
                                               /\ Head(work) = cur[1]
             /\ ~HasResponse(Head(work).cmd) => Len(work) # 1
  <2>1. Owed(work, cur[1]) /\ HasResponse(cur[1].cmd)
    BY <1>5 DEF InTurn
  <2>2. IF 1 = Len(work) THEN work[1] = cur[1] ELSE ~HasResponse(work[1].cmd)
    BY <1>3, <2>1 DEF Owed
  <2>3. Len(work) = 1 => Tail(work) = <<>>
    <3> SUFFICES ASSUME Len(work) = 1 PROVE Tail(work) = <<>>
      OBVIOUS
    <3>1. Tail(work) \in Seq(Command) /\ Len(Tail(work)) = 0
      BY <1>1
    <3> QED  BY <3>1, SeqFacts
  <2> QED  BY <1>1, <2>1, <2>2, <2>3
<1> QED  BY <1>1, <1>2, <1>4, <1>5

LEMMA MoreTurn ==
  ASSUME Handler, Streams, InTurn, Ordinary, AnswerMore
  PROVE  Streams' /\ InTurn'
<1>1. /\ primary = "up" /\ work # <<>>
      /\ UNCHANGED <<client, up, pc, cur, parser, primary, work, copying>>
  BY DEF AnswerMore
<1>2. PICK r \in MoreResult(Head(work).cmd) : down' = down \o r
  BY DEF AnswerMore
<1>3. r \in Seq(Packet) /\ Head(work).cmd \in {"query", "execute"}
  BY MoreTrace
<1>4. HasResponse(Head(work).cmd)
  BY <1>3 DEF HasResponse
<1>5. down' \in Seq(Packet)
  BY <1>2, <1>3, CatFacts DEF Streams
<1>6. Streams'
  BY <1>1, <1>5 DEF Streams
<1>7. pc \in {"copy", "ended", "respond"}
  <2>1. pc \notin {"read", "write"}
    BY <1>1, <1>4, HeadOfWork
  <2>2. pc # "simple"
    BY <1>1, <1>3, <1>4, HeadOfWork DEF InTurn
  <2> QED  BY <2>1, <2>2 DEF Handler
<1>8. CASE pc = "respond"
  <2>1. /\ ResponseLeft /\ up = <<>> /\ Waits /\ HasResponse(cur[1].cmd)
        /\ Owed(work, cur[1]) /\ cur[1].cmd # "simple"
    BY <1>8 DEF InTurn
  <2>2. Reaches(parser, down, Start)
    BY <1>1, <2>1 DEF ResponseLeft, Reaches
  <2>3. Reaches(Start, r, Start)
    BY MoreTrace DEF Reaches
  <2>4. Reaches(parser, down \o r, Start)
    BY <1>3, <2>2, <2>3, CatTrace DEF Streams
  <2>5. ResponseLeft'
    BY <1>1, <1>2, <2>1, <2>4 DEF ResponseLeft, Reaches
  <2>6. Owed(work', cur'[1]) /\ Waits'
    BY <1>1, <2>1 DEF Owed, Waits
  <2> QED  BY <1>1, <1>6, <1>8, <2>1, <2>5, <2>6 DEF InTurn
<1>9. CASE pc \in {"copy", "ended"}
  BY <1>1, <1>6, <1>9, NoTurn
<1> QED  BY <1>7, <1>8, <1>9

LEMMA LastTurn ==
  ASSUME Handler, Streams, InTurn, Ordinary, AnswerLast
  PROVE  Streams' /\ InTurn'
<1>1. /\ primary = "up" /\ work # <<>> /\ work' = Tail(work)
      /\ UNCHANGED <<client, up, pc, cur, parser, primary, copying>>
  BY DEF AnswerLast
<1> DEFINE cmd == Head(work).cmd
<1>2. /\ Head(work) \in Command /\ work' \in Seq(Command)
      /\ Len(work) \in Nat /\ Len(work) > 0 /\ Len(work') = Len(work) - 1
      /\ \A i \in 1..Len(work) - 1 : work'[i] = work[i + 1]
      /\ cmd \in {"query", "execute", "simple", "silent", "quit", "empty"}
  BY <1>1, HeadOfWork
<1>3. CASE ~HasResponse(cmd)
  <2>1. down' = down
    BY <1>3 DEF AnswerLast
  <2>2. Streams'
    BY <1>1, <1>2, <2>1 DEF Streams
  <2>3. CASE pc \in {"read", "write"}
    <3>1. Silent(work) /\ OneRequest /\ down = <<>>
      BY <2>3 DEF InTurn
    <3>2. ASSUME NEW i \in 1..Len(work') PROVE ~HasResponse(work'[i].cmd)
      <4>1. i \in 1..Len(work) - 1 /\ i + 1 \in 1..Len(work)
        BY <1>2
      <4> QED  BY <1>2, <3>1, <4>1 DEF Silent
    <3>3. Silent(work')
      BY <3>2 DEF Silent
    <3>4. OneRequest'
      BY <1>1, <3>1 DEF OneRequest, Waits
    <3>5. pc = "write" /\ HasResponse(cur'[1].cmd) => up' = <<>> /\ Waits'
      BY <1>1 DEF InTurn, Waits
    <3> QED  BY <1>1, <2>1, <2>2, <2>3, <3>1, <3>3, <3>4, <3>5 DEF InTurn
  <2>4. CASE pc \in {"simple", "respond"}
    <3>1. /\ up = <<>> /\ Waits /\ HasResponse(cur[1].cmd) /\ Owed(work, cur[1])
          /\ pc = "simple" <=> cur[1].cmd = "simple"
          /\ pc = "simple" => SimpleLeft
          /\ pc = "respond" => ResponseLeft
      BY <2>4 DEF InTurn
    <3>2. Len(work) # 1
      BY <1>1, <1>3, <2>4, HeadOfWork
    <3>3. ASSUME NEW i \in 1..Len(work')
          PROVE  IF i = Len(work') THEN work'[i] = cur[1] ELSE ~HasResponse(work'[i].cmd)
      <4>1. /\ i \in 1..Len(work) - 1 /\ i + 1 \in 1..Len(work)
            /\ i = Len(work') <=> i + 1 = Len(work)
        BY <1>2
      <4> QED  BY <1>2, <3>1, <4>1 DEF Owed
    <3>4. Owed(work', cur'[1]) /\ Waits'
      BY <1>1, <3>1, <3>3 DEF Owed, Waits
    <3>5. work' # <<>>
      <4>1. Len(work') # 0
        BY <1>2, <3>2
      <4> QED  BY <4>1
    <3>6. pc = "simple" => SimpleLeft'
      BY <1>1, <2>1, <3>1, <3>5 DEF SimpleLeft
    <3>7. pc = "respond" => ResponseLeft'
      BY <1>1, <2>1, <3>1, <3>5 DEF ResponseLeft
    <3> QED  BY <1>1, <2>2, <2>4, <3>1, <3>4, <3>6, <3>7 DEF InTurn
  <2>5. CASE pc \in {"copy", "ended"}
    BY <1>1, <2>2, <2>5, NoTurn
  <2> QED  BY <2>3, <2>4, <2>5 DEF Handler
<1>4. CASE HasResponse(cmd)
  <2>1. PICK r \in LastResult(cmd) : down' = down \o r
    BY <1>4 DEF AnswerLast
  <2>2. cmd \in {"query", "execute", "empty"} \/ cmd = "simple"
    BY <1>2, <1>4 DEF HasResponse
  <2>3. r \in Seq(Packet)
    BY <2>2, LastTrace, SimpleLast
  <2>4. down' \in Seq(Packet)
    BY <2>1, <2>3, CatFacts DEF Streams
  <2>5. Streams'
    BY <1>1, <1>2, <2>4 DEF Streams
  <2>6. pc \notin {"read", "write"}
    BY <1>1, <1>4, HeadOfWork
  <2>7. CASE pc \in {"simple", "respond"}
    <3>1. /\ up = <<>> /\ Waits /\ HasResponse(cur[1].cmd)
          /\ pc = "simple" <=> cur[1].cmd = "simple"
          /\ pc = "simple" => SimpleLeft
          /\ pc = "respond" => ResponseLeft
      BY <2>7 DEF InTurn
    <3>2. work' = <<>> /\ cur[1].cmd = cmd
      BY <1>1, <1>4, <2>7, HeadOfWork
    <3>3. Owed(work', cur'[1]) /\ Waits'
      <4>1. 1..Len(<<>>) = {}
        OBVIOUS
      <4>2. Owed(<<>>, cur'[1])
        BY <4>1 DEF Owed
      <4> QED  BY <1>1, <3>1, <3>2, <4>2 DEF Waits
    <3>4. pc = "simple" => SimpleLeft'
      <4> SUFFICES ASSUME pc = "simple" PROVE SimpleLeft'
        OBVIOUS
      <4>1. down = <<>> /\ cmd = "simple"
        BY <1>1, <3>1, <3>2 DEF SimpleLeft
      <4>2. Len(r) = 1 /\ r[1].last
        BY <4>1, SimpleLast
      <4>3. Len(down') = 1 /\ down'[1] = r[1]
        <5>1. <<>> \in Seq(Packet) /\ Len(<<>>) = 0
          OBVIOUS
        <5>2. Len(<<>> \o r) = 0 + 1 /\ (<<>> \o r)[0 + 1] = r[1]
          BY <2>3, <4>2, <5>1, CatFacts
        <5> QED  BY <2>1, <4>1, <5>2
      <4>4. down' # <<>> /\ \A i \in 1..Len(down') : down'[i].last
        BY <4>2, <4>3
      <4> QED  BY <1>1, <3>2, <4>3, <4>4 DEF SimpleLeft
    <3>5. pc = "respond" => ResponseLeft'
      <4> SUFFICES ASSUME pc = "respond" PROVE ResponseLeft'
        OBVIOUS
      <4>1. cmd \in {"query", "execute", "empty"}
        BY <2>2, <3>1, <3>2
      <4>2. Reaches(parser, down, Start)
        BY <1>1, <3>1 DEF ResponseLeft, Reaches
      <4>3. PICK t : Reaches(Start, r, t) /\ t.at = "done"
        BY <4>1, LastTrace DEF Reaches
      <4>4. Reaches(parser', down', t)
        BY <1>1, <2>1, <2>3, <4>2, <4>3, CatTrace DEF Streams
      <4> QED  BY <1>1, <3>1, <3>2, <4>3, <4>4 DEF ResponseLeft, Reaches
    <3> QED  BY <1>1, <2>5, <2>7, <3>1, <3>3, <3>4, <3>5 DEF InTurn
  <2>8. CASE pc \in {"copy", "ended"}
    BY <1>1, <2>5, <2>8, NoTurn
  <2> QED  BY <2>6, <2>7, <2>8 DEF Handler
<1> QED  BY <1>3, <1>4

LEMMA DownTurn ==
  ASSUME Handler, Streams, InTurn, PrimaryDown
  PROVE  Streams' /\ InTurn'
<1>1. /\ primary' = "down" /\ work' = <<>>
      /\ UNCHANGED <<client, up, pc, cur, parser, copying>>
  BY DEF PrimaryDown
<1>2. PICK k \in 0..Len(down) : down' = SubSeq(down, 1, k)
  BY DEF PrimaryDown
<1>3. /\ down' \in Seq(Packet) /\ Len(down') = k
      /\ \A i \in 1..k : down'[i] = down[i]
  BY <1>2 DEF Streams
<1>4. Streams'
  BY <1>1, <1>3 DEF Streams
<1>5. Silent(work') /\ Owed(work', cur'[1])
  <2>1. 1..Len(<<>>) = {}
    OBVIOUS
  <2>2. Silent(<<>>) /\ Owed(<<>>, cur'[1])
    BY <2>1 DEF Silent, Owed
  <2> QED  BY <1>1, <2>2
<1>6. Waits' = Waits /\ OneRequest' = OneRequest
  BY <1>1 DEF Waits, OneRequest
<1>7. down = <<>> => down' = <<>>
  <2> SUFFICES ASSUME down = <<>> PROVE down' = <<>>
    OBVIOUS
  <2>1. Len(down') = 0
    BY <1>3
  <2> QED  BY <1>3, <2>1, SeqFacts
<1>8. SimpleLeft => SimpleLeft'
  <2> SUFFICES ASSUME SimpleLeft PROVE SimpleLeft'
    OBVIOUS
  <2>1. Len(down) \in Nat /\ Len(down) <= 1 /\ \A i \in 1..Len(down) : down[i].last
    BY SeqFacts DEF SimpleLeft, Streams
  <2>2. Len(down') <= 1 /\ \A i \in 1..Len(down') : i \in 1..Len(down) /\ down'[i] = down[i]
    BY <1>3, <2>1
  <2> QED  BY <1>1, <2>1, <2>2 DEF SimpleLeft
<1>9. ResponseLeft => ResponseLeft'
  <2> SUFFICES ASSUME ResponseLeft PROVE ResponseLeft'
    OBVIOUS
  <2>1. PICK f : Trace(f, parser, down)
    BY DEF ResponseLeft
  <2>2. Trace([i \in 0..k |-> f[i]], parser, SubSeq(down, 1, k))
    BY <2>1, PrefixTrace DEF Streams
  <2> QED  BY <1>1, <1>2, <2>2 DEF ResponseLeft
<1> QED  BY <1>1, <1>4, <1>5, <1>6, <1>7, <1>8, <1>9 DEF InTurn

LEMMA NextTurn ==
  ASSUME Ordinary, Handler, Streams, InTurn, [Next]_vars
  PROVE  Streams' /\ InTurn'
<1>1. CASE HandlerStep
  BY <1>1, ReadTurn, WriteTurn, SimpleTurn, PacketTurn, EndTurn DEF HandlerStep
<1>2. CASE PrimaryStep
  BY <1>2, MoreTurn, LastTurn, DownTurn DEF PrimaryStep
<1>3. CASE UNCHANGED vars
  <2>1. Streams'
    BY <1>3 DEF vars, Streams
  <2>2. InTurn'
    BY <1>3
    DEF vars, InTurn, Silent, OneRequest, Waits, Owed, SimpleLeft, ResponseLeft
  <2> QED  BY <2>1, <2>2
<1> QED  BY <1>1, <1>2, <1>3, ClientTurn, CopyTurn, EndTurn DEF Next, Ended

LEMMA TurnInvariance ==
  ASSUME Ordinary
  PROVE  Spec => [](Handler /\ Streams /\ InTurn)
<1>1. Init => Handler /\ Logs /\ Streams /\ InTurn
  BY InitLogs, InitTurn
<1>2. Handler /\ Logs /\ Streams /\ InTurn /\ [Next]_vars
        => (Handler /\ Logs /\ Streams /\ InTurn)'
  BY NextLogs, NextTurn
<1> QED  BY <1>1, <1>2, PTL DEF Spec

\* ReadAndForwardResponse: for any number of commands, results, columns and
\* rows, and wherever the client or the primary goes away, the handler has read
\* the whole response of a command when it turns to the next.
THEOREM ResponsesReadWhole ==
  ASSUME Ordinary
  PROVE  Spec => []InStep
<1>1. Handler /\ Streams /\ InTurn => InStep
  BY DEF InTurn, InStep
<1> QED  BY <1>1, TurnInvariance, PTL

\* ReadAndForwardResponse, ReadAndForwardSimpleResponse: as long as the handler
\* reads a response, the client has not seen its end and waits for it too, or is
\* gone.
THEOREM ResponsesReadNoFurther ==
  ASSUME Ordinary
  PROVE  Spec => []SameEnd
<1>1. Handler /\ Streams /\ InTurn => SameEnd
  BY DEF InTurn, SameEnd, Waits
<1> QED  BY <1>1, TurnInvariance, PTL

\* A handler that reads a response waits only for packets that are owed to it.
NeverStuck ==
  pc \in {"simple", "respond"} /\ down = <<>> /\ primary = "up" => work # <<>>

\* ReadAndForwardResponse, ReadAndForwardSimpleResponse: the ReadPacket call of
\* a handler never blocks on a primary that has sent the whole response.
THEOREM ResponseOwed ==
  ASSUME Ordinary
  PROVE  Spec => []NeverStuck
<1>1. Handler /\ Streams /\ InTurn => NeverStuck
  <2> SUFFICES ASSUME InTurn, pc \in {"simple", "respond"}, down = <<>>,
                      primary = "up", work = <<>>
               PROVE  FALSE
    BY DEF NeverStuck
  <2>1. CASE pc = "simple"
    BY <2>1 DEF InTurn, SimpleLeft
  <2>2. CASE pc = "respond"
    <3>1. ResponseLeft /\ Len(down) = 0
      BY <2>2 DEF InTurn
    <3> QED  BY <3>1 DEF ResponseLeft, Trace, Path
  <2> QED  BY <2>1, <2>2
<1> QED  BY <1>1, TurnInvariance, PTL
=============================================================================
