------------------------ MODULE MysqlHandshakeProofs ------------------------
(***************************************************************************)
(* Proofs about MysqlHandshake.  The inductive invariant goes through the  *)
(* situations of the exchange one by one.                                  *)
(***************************************************************************)
EXTENDS MysqlHandshake, TLAPS, SequenceTheorems

Kinds ==
  {"greeting", "sslRequest", "auth", "switch", "switchReply", "ok", "err",
   "more"}
Wire == [k : Kinds, seq : Nat, eof : BOOLEAN]
Stages == {"new", "greeted", "upgrade", "auth", "result", "switch", "in",
           "rejected", "more", "gone"}
Peer == [at : Stages, seq : Nat, eof : BOOLEAN]

Flags == tls \in BOOLEAN /\ shadowTLS \in BOOLEAN /\ ssl \in BOOLEAN
Peers == client \in Peer /\ primary \in Peer /\ shadow \in Peer

HandshakeTypeOK == Flags /\ Peers /\ net \in [Links -> Seq(Wire)]

\* The exchange with the primary and the one with the shadow share no link.
MainLinks == {"fromClient", "toClient", "fromPrimary", "toPrimary"}
ShadowLinks == {"fromShadow", "toShadow"}

\* Of the links K, only l carries a packet, p; none does; l carries a packet of
\* kind k and number s.
Only(K, l, p) == net[l] = <<p>> /\ \A m \in K \ {l} : net[m] = <<>>
Calm(K) == \A m \in K : net[m] = <<>>
On(K, l, k, s) == \E e \in BOOLEAN : Only(K, l, Pkt(k, s, e))

\* A peer may have left wherever it was, and the handler have given up.
ClientAt(A) == client.at \in A \cup {"gone"}
PrimaryAt(A) == primary.at \in A \cup {"gone"}
ShadowAt(A) == shadow.at \in A \cup {"gone"}
PhaseIn(A) == phase \in A \cup {"ended"}
Counts(c, p) == client.seq = c /\ primary.seq = p

(***************************************************************************)
(* The situations the exchange goes through: where the one packet of the   *)
(* client's and the primary's connections is, and what both have counted.  *)
(***************************************************************************)
Dialling ==
  /\ ssl = FALSE /\ PhaseIn({"dial"}) /\ Calm(MainLinks)
  /\ Counts(0, 0) /\ ClientAt({"new"}) /\ primary.at = "new"

PrimaryGreets ==
  /\ ssl = FALSE /\ PhaseIn({"greet"})
  /\ On(MainLinks, "fromPrimary", "greeting", 0)
  /\ Counts(0, 1) /\ ClientAt({"new"}) /\ PrimaryAt({"greeted"})

GreetsClient ==
  /\ ssl = FALSE /\ PhaseIn({"clientAuth"})
  /\ On(MainLinks, "toClient", "greeting", 0)
  /\ Counts(0, 1) /\ ClientAt({"new"}) /\ PrimaryAt({"greeted"})

AsksTLS ==
  /\ ssl = FALSE /\ tls = TRUE /\ PhaseIn({"clientAuth"})
  /\ On(MainLinks, "fromClient", "sslRequest", 1)
  /\ Counts(2, 1) /\ ClientAt({"upgrade"}) /\ PrimaryAt({"greeted"})

Authenticates ==
  /\ ssl = FALSE /\ PhaseIn({"clientAuth"})
  /\ On(MainLinks, "fromClient", "auth", 1)
  /\ Counts(2, 1) /\ ClientAt({"result"}) /\ PrimaryAt({"greeted"})

NotUpgraded ==
  /\ ssl = FALSE /\ PhaseIn({}) /\ Calm(MainLinks)
  /\ Counts(2, 1) /\ ClientAt({"upgrade"}) /\ PrimaryAt({"greeted"})

Upgraded ==
  /\ ssl = TRUE /\ PhaseIn({"tlsAuth"}) /\ Calm(MainLinks)
  /\ Counts(2, 1) /\ ClientAt({"auth"}) /\ PrimaryAt({"greeted"})

AuthenticatesTLS ==
  /\ ssl = TRUE /\ PhaseIn({"tlsAuth"})
  /\ On(MainLinks, "fromClient", "auth", 2)
  /\ Counts(3, 1) /\ ClientAt({"result"}) /\ PrimaryAt({"greeted"})

\* The client's count and the handler's phase while the primary judges.
Awaits ==
  \/ ssl = TRUE /\ PhaseIn({"tlsResult"}) /\ client.seq = 3
  \/ ssl = FALSE /\ PhaseIn({"result"}) /\ client.seq = 2

AuthAtPrimary ==
  /\ Awaits /\ primary.seq = 1 /\ ClientAt({"result"}) /\ PrimaryAt({"greeted"})
  /\ \E e \in BOOLEAN : /\ Only(MainLinks, "toPrimary", Pkt("auth", 1, e))
                        /\ ssl = TRUE \/ tls = FALSE => e = FALSE

\* The primary has answered with k; it may only leave if it has not let the
\* client in.
Answered(k) ==
  \/ k = "ok" /\ primary.at = "in"
  \/ k = "err" /\ PrimaryAt({"rejected"})
  \/ k = "switch" /\ PrimaryAt({"switch"})

Judged ==
  /\ Awaits /\ primary.seq = 3 /\ ClientAt({"result"})
  /\ \E k \in {"ok", "err", "switch"} :
       On(MainLinks, "fromPrimary", k, 2) /\ Answered(k)

SwitchToClient ==
  /\ ssl = FALSE /\ PhaseIn({"switchClient"})
  /\ On(MainLinks, "toClient", "switch", 2)
  /\ Counts(2, 3) /\ ClientAt({"result"}) /\ PrimaryAt({"switch"})

SwitchReplied ==
  /\ ssl = FALSE /\ PhaseIn({"switchClient"})
  /\ On(MainLinks, "fromClient", "switchReply", 3)
  /\ Counts(4, 3) /\ ClientAt({"result"}) /\ PrimaryAt({"switch"})

ReplyAtPrimary ==
  /\ ssl = FALSE /\ PhaseIn({"finalResult"})
  /\ On(MainLinks, "toPrimary", "switchReply", 3)
  /\ Counts(4, 3) /\ ClientAt({"result"}) /\ PrimaryAt({"switch"})

JudgedAgain ==
  /\ ssl = FALSE /\ PhaseIn({"finalResult"})
  /\ Counts(4, 5) /\ ClientAt({"result"})
  /\ \E k \in {"ok", "err"} :
       On(MainLinks, "fromPrimary", k, 4) /\ Answered(k)

\* The result has been passed on.  After an upgrade the session has begun even
\* if it is an error or an auth switch, which the client may still answer.
Over ==
  /\ phase \in LoggedIn \cup {"ended"}
  /\ phase \in LoggedIn /\ ssl = FALSE => primary.at = "in"
  /\ \/ Calm(MainLinks) /\ ClientAt({"in", "rejected"})
     \/ /\ ClientAt({"result"})
        /\ \E k \in {"ok", "err", "switch"} :
             /\ On(MainLinks, "toClient", k, client.seq)
             /\ k = "switch" => ssl = TRUE /\ Counts(3, 3)
     \/ /\ ssl = TRUE /\ ClientAt({"result"}) /\ Counts(5, 3)
        /\ On(MainLinks, "fromClient", "switchReply", 4)

\* The session has passed that answer on, and the primary may have hung up on it:
\* it expects the number 3.
LateReply ==
  /\ ssl = TRUE /\ phase \in {"mirror", "plain"}
  /\ ClientAt({"result"}) /\ Counts(5, 3)
  /\ Calm(MainLinks) \/ On(MainLinks, "toPrimary", "switchReply", 4)

Situation ==
  \/ Dialling \/ PrimaryGreets \/ GreetsClient \/ AsksTLS \/ Authenticates
  \/ NotUpgraded \/ Upgraded \/ AuthenticatesTLS \/ AuthAtPrimary \/ Judged
  \/ SwitchToClient \/ SwitchReplied \/ ReplyAtPrimary \/ JudgedAgain \/ Over
  \/ LateReply

\* The primary has not been asked for CLIENT_DEPRECATE_EOF, or not yet.
NoEof ==
  ssl = TRUE \/ tls = FALSE \/ primary.seq \in {0, 1} => primary.eof = FALSE

\* The proxy's own login to the shadow, likewise.
ShadowSituation ==
  \/ /\ phase \notin {"shadowTLS", "shadowResult"} /\ Calm(ShadowLinks)
     /\ shadow.seq = 0 /\ ShadowAt({"new"})
  \/ /\ phase \in {"shadowGreet", "plain"}
     /\ On(ShadowLinks, "fromShadow", "greeting", 0)
     /\ shadow.seq = 1 /\ ShadowAt({"greeted"})
  \/ /\ phase \in {"shadowTLS", "plain"} /\ shadowTLS = TRUE
     /\ On(ShadowLinks, "toShadow", "sslRequest", 1)
     /\ shadow.seq = 1 /\ ShadowAt({"greeted"})
  \/ /\ phase \in {"shadowTLS", "plain"} /\ shadowTLS = TRUE
     /\ Calm(ShadowLinks) /\ shadow.seq = 2 /\ ShadowAt({"upgrade"})
  \/ /\ phase \in {"shadowResult", "plain"}
     /\ On(ShadowLinks, "toShadow", "auth", seqNum)
     /\ shadow.seq = seqNum /\ ShadowAt({"greeted", "auth"})
  \/ /\ phase \in {"shadowResult", "plain"}
     /\ \E k \in {"ok", "err", "switch", "more"}, s \in Nat :
          On(ShadowLinks, "fromShadow", k, s)
     /\ ShadowAt({"in", "rejected", "switch", "more"})
  \/ phase \in {"mirror", "plain"} /\ Calm(ShadowLinks)

Exchange ==
  HandshakeTypeOK /\ Situation /\ NoEof /\ ShadowSituation
-----------------------------------------------------------------------------
\* The links of the two exchanges.
LEMMA LinkFacts ==
  /\ MainLinks \in SUBSET Links /\ ShadowLinks \in SUBSET Links
  /\ Links \ MainLinks = ShadowLinks /\ Links \ ShadowLinks = MainLinks
  /\ "fromClient" \in MainLinks /\ "toClient" \in MainLinks
  /\ "fromPrimary" \in MainLinks /\ "toPrimary" \in MainLinks
  /\ "fromShadow" \in ShadowLinks /\ "toShadow" \in ShadowLinks
BY DEF MainLinks, ShadowLinks, Links

\* The kinds of packets.
LEMMA KindFacts ==
  /\ "greeting" \in Kinds /\ "sslRequest" \in Kinds /\ "auth" \in Kinds
  /\ "switch" \in Kinds /\ "switchReply" \in Kinds
  /\ "ok" \in Kinds /\ "err" \in Kinds /\ "more" \in Kinds
BY DEF Kinds

\* The stages of a peer.
LEMMA StageFacts ==
  /\ "new" \in Stages /\ "greeted" \in Stages /\ "upgrade" \in Stages
  /\ "auth" \in Stages /\ "result" \in Stages /\ "switch" \in Stages
  /\ "in" \in Stages /\ "rejected" \in Stages /\ "more" \in Stages
  /\ "gone" \in Stages
BY DEF Stages

\* What a peer's step does to it.
LEMMA PeerAt ==
  ASSUME NEW peer \in Peer, NEW at \in Stages
  PROVE  /\ [peer EXCEPT !.at = at] \in Peer /\ [peer EXCEPT !.at = at].at = at
         /\ [peer EXCEPT !.at = at].seq = peer.seq
         /\ [peer EXCEPT !.at = at].eof = peer.eof
BY DEF Peer

\* A peer's count.
LEMMA PeerSeq ==
  ASSUME NEW peer \in Peer, NEW n \in Nat
  PROVE  /\ [peer EXCEPT !.seq = n] \in Peer
         /\ [peer EXCEPT !.seq = n].at = peer.at
         /\ [peer EXCEPT !.seq = n].seq = n
         /\ [peer EXCEPT !.seq = n].eof = peer.eof
BY DEF Peer

\* A peer that has received or sent n packets.
LEMMA PeerMoves ==
  ASSUME NEW peer \in Peer, NEW at \in Stages, NEW n \in Nat
  PROVE  /\ Moved(peer, at, n) \in Peer /\ Moved(peer, at, n).at = at
         /\ Moved(peer, at, n).seq = peer.seq + n
         /\ Moved(peer, at, n).eof = peer.eof
<1> DEFINE q == [peer EXCEPT !.at = at]
<1>1. /\ q \in Peer /\ q.at = at /\ q.seq = peer.seq /\ q.eof = peer.eof
      /\ peer.seq + n \in Nat
  BY PeerAt DEF Peer
<1>2. Moved(peer, at, n) = [q EXCEPT !.seq = peer.seq + n]
  BY <1>1 DEF Moved
<1> HIDE DEF q
<1>3. /\ [q EXCEPT !.seq = peer.seq + n] \in Peer
      /\ [q EXCEPT !.seq = peer.seq + n].at = q.at
      /\ [q EXCEPT !.seq = peer.seq + n].seq = peer.seq + n
      /\ [q EXCEPT !.seq = peer.seq + n].eof = q.eof
  BY <1>1, PeerSeq
<1> QED  BY <1>1, <1>2, <1>3

\* readMySQLPacket followed by a Write, on the links of one exchange: its one
\* packet is replaced by p on link `dest`, and the other exchange is not touched.
LEMMA RelayMoves ==
  ASSUME HandshakeTypeOK, NEW K \in SUBSET Links,
         NEW in \in K, NEW dest \in K, in # dest,
         NEW q \in Wire, Only(K, in, q), NEW p \in Wire, Relay(in, dest, p)
  PROVE  /\ net' \in [Links -> Seq(Wire)] /\ Only(K, dest, p)'
         /\ \A m \in Links \ K : net'[m] = net[m]
<1>1. Tail(<<q>>) = <<>> /\ Append(<<>>, p) = <<p>>
      /\ <<>> \in Seq(Wire) /\ <<p>> \in Seq(Wire)
  OBVIOUS
<1>2. net[in] = <<q>> /\ net[dest] = <<>>
  BY DEF Only
<1>3. net' = [net EXCEPT ![in] = <<>>, ![dest] = <<p>>]
  BY <1>1, <1>2 DEF Relay, HandshakeTypeOK
<1> QED  BY <1>1, <1>3, Zenon DEF HandshakeTypeOK, Only

\* readMySQLPacket alone.
LEMMA TakeEmpties ==
  ASSUME HandshakeTypeOK, NEW K \in SUBSET Links, NEW in \in K,
         NEW q \in Wire, Only(K, in, q), Take(in)
  PROVE  /\ net' \in [Links -> Seq(Wire)] /\ Calm(K)'
         /\ \A m \in Links \ K : net'[m] = net[m]
<1>1. Tail(<<q>>) = <<>> /\ <<>> \in Seq(Wire)
  OBVIOUS
<1>2. net' = [net EXCEPT ![in] = <<>>]
  BY <1>1 DEF Take, Only
<1> QED  BY <1>1, <1>2 DEF HandshakeTypeOK, Only, Calm

\* A Write alone.
LEMMA PutFills ==
  ASSUME HandshakeTypeOK, NEW K \in SUBSET Links, NEW dest \in K,
         Calm(K), NEW p \in Wire, Put(dest, p)
  PROVE  /\ net' \in [Links -> Seq(Wire)] /\ Only(K, dest, p)'
         /\ \A m \in Links \ K : net'[m] = net[m]
<1>1. Append(<<>>, p) = <<p>> /\ <<p>> \in Seq(Wire)
  OBVIOUS
<1>2. net' = [net EXCEPT ![dest] = <<p>>]
  BY <1>1, Zenon DEF Put, Calm
<1> QED  BY <1>1, <1>2 DEF HandshakeTypeOK, Only, Calm

\* What the links of an exchange with one packet, or none, show their readers.
LEMMA Reading ==
  ASSUME NEW K \in SUBSET Links
  PROVE  /\ \A l \in K, p \in Wire : Only(K, l, p) =>
              /\ Arrived(l) /\ Got(l) = p
              /\ \A m \in K : Len(net[m]) <= 1 /\ (Arrived(m) => m = l)
         /\ Calm(K) => \A m \in K : Len(net[m]) <= 1 /\ ~Arrived(m)
<1>1. \A p \in Wire : <<p>> # <<>> /\ Head(<<p>>) = p /\ Len(<<p>>) = 1
  OBVIOUS
<1>2. Len(<<>>) = 0
  OBVIOUS
<1>3. ASSUME NEW l \in K, NEW p \in Wire, Only(K, l, p)
      PROVE  /\ Arrived(l) /\ Got(l) = p
             /\ \A m \in K : Len(net[m]) <= 1 /\ (Arrived(m) => m = l)
  <2>1. net[l] = <<p>> /\ \A m \in K \ {l} : net[m] = <<>>
    BY <1>3 DEF Only
  <2>2. Arrived(l) /\ Got(l) = p /\ Len(net[l]) = 1
    BY <1>1, <2>1 DEF Arrived, Got
  <2>3. \A m \in K \ {l} : ~Arrived(m) /\ Len(net[m]) = 0
    BY <1>2, <2>1 DEF Arrived
  <2>4. ASSUME NEW m \in K
        PROVE  Len(net[m]) <= 1 /\ (Arrived(m) => m = l)
    <3>1. CASE m = l
      <4>1. Len(net[m]) = 1
        BY <2>2, <3>1
      <4> QED  BY <3>1, <4>1
    <3>2. CASE m # l
      BY <2>3, <3>2
    <3> QED  BY <3>1, <3>2
  <2> QED  BY <2>2, <2>4
<1>4. ASSUME Calm(K)
      PROVE  \A m \in K : Len(net[m]) <= 1 /\ ~Arrived(m)
  BY <1>2, <1>4 DEF Calm, Arrived
<1> QED  BY <1>3, <1>4

\* A packet made of a kind, a number and a flag.
LEMMA PktType ==
  ASSUME NEW k \in Kinds, NEW s \in Nat, NEW e \in BOOLEAN
  PROVE  /\ Pkt(k, s, e) \in Wire
         /\ Pkt(k, s, e).k = k /\ Pkt(k, s, e).seq = s /\ Pkt(k, s, e).eof = e
BY DEF Pkt, Wire

\* The same, for a packet known by its kind and its number.
LEMMA OnReads ==
  ASSUME NEW K \in SUBSET Links, NEW l \in K, NEW k \in Kinds, NEW s \in Nat,
         On(K, l, k, s)
  PROVE  /\ Arrived(l) /\ Got(l) \in Wire /\ Only(K, l, Got(l))
         /\ Got(l).k = k /\ Got(l).seq = s
         /\ Got(l).eof \in BOOLEAN /\ Got(l) = Pkt(k, s, Got(l).eof)
         /\ \A m \in K : Len(net[m]) <= 1 /\ (Arrived(m) => m = l)
<1>1. PICK e \in BOOLEAN : Only(K, l, Pkt(k, s, e))
  BY DEF On
<1>2. /\ Pkt(k, s, e) \in Wire /\ Pkt(k, s, e).k = k
      /\ Pkt(k, s, e).seq = s /\ Pkt(k, s, e).eof = e
  BY PktType
<1>3. Arrived(l) /\ Got(l) = Pkt(k, s, e)
  BY <1>1, <1>2, Reading, Zenon
<1>4. \A m \in K : Len(net[m]) <= 1 /\ (Arrived(m) => m = l)
  BY <1>1, <1>2, Reading, Zenon
<1> QED  BY <1>1, <1>2, <1>3, <1>4

\* The handler's step is not one of its login to the shadow.
Apart ==
  \/ phase' = phase
  \/ /\ phase \notin {"shadowGreet", "shadowTLS", "shadowResult",
                       "mirror", "plain"}
     /\ phase' \notin {"shadowTLS", "shadowResult"}

\* The handshake with the primary leaves the login to the shadow alone, and
\* the other way round.
LEMMA ShadowKept ==
  ASSUME ShadowSituation, shadow' = shadow, shadowTLS' = shadowTLS,
         \A l \in ShadowLinks : net'[l] = net[l],
         Apart
  PROVE  ShadowSituation'
<1>1. Calm(ShadowLinks)' <=> Calm(ShadowLinks)
  BY DEF Calm
<1>2. \A l \in ShadowLinks : \A k, s :
        On(ShadowLinks, l, k, s)' <=> On(ShadowLinks, l, k, s)
  BY DEF On, Only
<1>3. seqNum' = seqNum
  BY DEF seqNum
<1> QED  BY <1>1, <1>2, <1>3 DEF ShadowSituation, ShadowAt, ShadowLinks, Apart

\* The handler is in the login to the shadow.
LoggingIn == {"shadowDial", "shadowGreet", "shadowTLS", "shadowResult"}

\* A step of the login to the shadow keeps the situation of the client.
LEMMA MainKept ==
  ASSUME Situation, NoEof,
         UNCHANGED <<tls, ssl, client, primary>>,
         \A l \in MainLinks : net'[l] = net[l],
         phase' = phase \/ (phase \in LoggingIn /\ phase' \in LoggedIn)
  PROVE  Situation' /\ NoEof'
<1>1. Calm(MainLinks)' <=> Calm(MainLinks)
  BY DEF Calm
<1>2. \A l \in MainLinks : \A k, s :
        On(MainLinks, l, k, s)' <=> On(MainLinks, l, k, s)
  BY DEF On, Only
<1>3. \A p : Only(MainLinks, "toPrimary", p)'
               <=> Only(MainLinks, "toPrimary", p)
  BY DEF Only, MainLinks
<1>4. CASE Over
  BY <1>1, <1>2, <1>4
  DEF Over, Situation, ClientAt, Counts, NoEof, MainLinks, LoggingIn, LoggedIn
<1>5. CASE ~Over
  <2>1. phase' = phase
    BY <1>5 DEF Situation, LateReply, PhaseIn, LoggingIn, LoggedIn, Dialling,
       PrimaryGreets, GreetsClient, AsksTLS, Authenticates, NotUpgraded, Upgraded,
       AuthenticatesTLS, Awaits, AuthAtPrimary, Judged, SwitchToClient,
       SwitchReplied, ReplyAtPrimary, JudgedAgain
  <2> QED  BY <1>1, <1>2, <1>3, <1>5, <2>1
           DEF Situation, PhaseIn, Dialling, PrimaryGreets, GreetsClient,
               AsksTLS, Authenticates, NotUpgraded, Upgraded, AuthenticatesTLS,
               Awaits, AuthAtPrimary, Judged, SwitchToClient, SwitchReplied,
               ReplyAtPrimary, JudgedAgain, LateReply, ClientAt, PrimaryAt,
               Counts, Answered, NoEof, MainLinks
<1> QED  BY <1>4, <1>5

\* Where the handler is tells in which situation the exchange is.
LEMMA Whereabouts ==
  ASSUME Situation
  PROVE  /\ phase = "dial" => Dialling
         /\ phase = "greet" => PrimaryGreets
         /\ phase = "clientAuth" => GreetsClient \/ AsksTLS \/ Authenticates
         /\ phase = "tlsAuth" => Upgraded \/ AuthenticatesTLS
         /\ phase = "tlsResult" => ssl = TRUE /\ (AuthAtPrimary \/ Judged)
         /\ phase = "result" => ssl = FALSE /\ (AuthAtPrimary \/ Judged)
         /\ phase = "switchClient" => SwitchToClient \/ SwitchReplied
         /\ phase = "finalResult" => ReplyAtPrimary \/ JudgedAgain
         /\ phase \in LoggedIn => Over \/ LateReply
BY DEF Situation, Over, LateReply, PhaseIn, LoggedIn, Dialling, PrimaryGreets,
     GreetsClient, AsksTLS, Authenticates, NotUpgraded, Upgraded,
     AuthenticatesTLS, Awaits, AuthAtPrimary, Judged,
     SwitchToClient, SwitchReplied, ReplyAtPrimary, JudgedAgain

\* A packet of the client's or the primary's connection is passed on, taken or
\* sent, and the login to the shadow is left alone.
LEMMA MainRelays ==
  ASSUME Exchange, NEW in \in MainLinks, NEW dest \in MainLinks, in # dest,
         NEW k \in Kinds, NEW s \in Nat, On(MainLinks, in, k, s),
         NEW p \in Wire, Relay(in, dest, p),
         shadow' = shadow, shadowTLS' = shadowTLS, Apart
  PROVE  /\ net' \in [Links -> Seq(Wire)] /\ Only(MainLinks, dest, p)'
         /\ ShadowSituation'
<1>1. Only(MainLinks, in, Got(in)) /\ Got(in) \in Wire
  BY OnReads DEF MainLinks, Links
<1>2. HandshakeTypeOK /\ ShadowSituation /\ MainLinks \in SUBSET Links
  BY DEF Exchange, MainLinks, Links
<1>3. /\ net' \in [Links -> Seq(Wire)] /\ Only(MainLinks, dest, p)'
      /\ \A m \in Links \ MainLinks : net'[m] = net[m]
  BY <1>1, <1>2, RelayMoves
<1>4. \A m \in ShadowLinks : net'[m] = net[m]
  BY <1>3 DEF Links, MainLinks, ShadowLinks
<1> QED  BY <1>2, <1>3, <1>4, ShadowKept

\* A packet of those connections is taken.
LEMMA MainTakes ==
  ASSUME Exchange, NEW in \in MainLinks,
         NEW k \in Kinds, NEW s \in Nat, On(MainLinks, in, k, s), Take(in),
         shadow' = shadow, shadowTLS' = shadowTLS, Apart
  PROVE  /\ net' \in [Links -> Seq(Wire)] /\ Calm(MainLinks)'
         /\ ShadowSituation'
<1>1. Only(MainLinks, in, Got(in)) /\ Got(in) \in Wire
  BY OnReads DEF MainLinks, Links
<1>2. HandshakeTypeOK /\ ShadowSituation /\ MainLinks \in SUBSET Links
  BY DEF Exchange, MainLinks, Links
<1>3. /\ net' \in [Links -> Seq(Wire)] /\ Calm(MainLinks)'
      /\ \A m \in Links \ MainLinks : net'[m] = net[m]
  BY <1>1, <1>2, TakeEmpties, Zenon
<1>4. \A m \in ShadowLinks : net'[m] = net[m]
  BY <1>3 DEF Links, MainLinks, ShadowLinks
<1> QED  BY <1>2, <1>3, <1>4, ShadowKept

\* A packet is sent on one of them.
LEMMA MainPuts ==
  ASSUME Exchange, NEW dest \in MainLinks, Calm(MainLinks),
         NEW p \in Wire, Put(dest, p),
         shadow' = shadow, shadowTLS' = shadowTLS, Apart
  PROVE  /\ net' \in [Links -> Seq(Wire)] /\ Only(MainLinks, dest, p)'
         /\ ShadowSituation'
<1>1. HandshakeTypeOK /\ ShadowSituation /\ MainLinks \in SUBSET Links
  BY DEF Exchange, MainLinks, Links
<1>2. /\ net' \in [Links -> Seq(Wire)] /\ Only(MainLinks, dest, p)'
      /\ \A m \in Links \ MainLinks : net'[m] = net[m]
  BY <1>1, PutFills
<1>3. \A m \in ShadowLinks : net'[m] = net[m]
  BY <1>2 DEF Links, MainLinks, ShadowLinks
<1> QED  BY <1>1, <1>2, <1>3, ShadowKept

\* Only the TLS upgrade and the primary change what NoEof is about.
LEMMA FlagsKept ==
  ASSUME Exchange, UNCHANGED <<tls, shadowTLS, ssl, primary>>
  PROVE  Flags' /\ NoEof'
<1>1. tls' = tls /\ shadowTLS' = shadowTLS /\ ssl' = ssl /\ primary' = primary
  OBVIOUS
<1>2. Flags'
  BY <1>1 DEF Exchange, HandshakeTypeOK, Flags
<1>3. NoEof'
  BY <1>1 DEF Exchange, NoEof
<1> QED  BY <1>2, <1>3

\* A packet is its kind, its number and its flag.
LEMMA PacketFields ==
  ASSUME NEW p \in Wire
  PROVE  /\ p = Pkt(p.k, p.seq, p.eof) /\ p.k \in Kinds
         /\ p.seq \in Nat /\ p.eof \in BOOLEAN
BY DEF Wire, Pkt

\* Where a packet has arrived tells in which situation the exchange is, too.
LEMMA Arrivals ==
  ASSUME Exchange
  PROVE  /\ Arrived("toClient") => GreetsClient \/ SwitchToClient \/ Over
         /\ Arrived("toPrimary") =>
              AuthAtPrimary \/ ReplyAtPrimary \/ LateReply
         /\ LateReply => ~Arrived("fromClient")
         /\ GreetsClient => ~Arrived("fromClient")
         /\ Upgraded => ~Arrived("fromClient")
         /\ SwitchToClient => ~Arrived("fromClient")
         /\ AuthAtPrimary => ~Arrived("fromPrimary")
         /\ ReplyAtPrimary => ~Arrived("fromPrimary")
<1>1. ASSUME NEW l \in MainLinks, NEW m \in MainLinks, m # l,
             NEW k \in Kinds, NEW s \in Nat, On(MainLinks, l, k, s)
      PROVE  ~Arrived(m)
  BY <1>1, OnReads, LinkFacts
<1>2. ASSUME NEW m \in MainLinks, Calm(MainLinks)
      PROVE  ~Arrived(m)
  BY <1>2, Reading, LinkFacts
<1>3. AuthAtPrimary => On(MainLinks, "toPrimary", "auth", 1)
  BY DEF AuthAtPrimary, On
<1>4. AuthAtPrimary => ~Arrived("fromPrimary") /\ ~Arrived("toClient")
  BY <1>1, <1>3, LinkFacts, KindFacts
<1>5. ReplyAtPrimary => ~Arrived("fromPrimary") /\ ~Arrived("toClient")
  BY <1>1, LinkFacts, KindFacts DEF ReplyAtPrimary
<1>6. GreetsClient => ~Arrived("fromClient") /\ ~Arrived("toPrimary")
  BY <1>1, LinkFacts, KindFacts DEF GreetsClient
<1>7. SwitchToClient => ~Arrived("fromClient") /\ ~Arrived("toPrimary")
  BY <1>1, LinkFacts, KindFacts DEF SwitchToClient
<1>8. PrimaryGreets \/ Judged \/ JudgedAgain =>
        ~Arrived("toClient") /\ ~Arrived("toPrimary")
  BY <1>1, LinkFacts, KindFacts DEF PrimaryGreets, Judged, JudgedAgain
<1>9. AsksTLS \/ Authenticates \/ AuthenticatesTLS \/ SwitchReplied =>
        ~Arrived("toClient") /\ ~Arrived("toPrimary")
  BY <1>1, LinkFacts, KindFacts
  DEF AsksTLS, Authenticates, AuthenticatesTLS, SwitchReplied
<1>10. Dialling \/ NotUpgraded \/ Upgraded =>
        \A m \in MainLinks : ~Arrived(m)
  BY <1>2 DEF Dialling, NotUpgraded, Upgraded
<1>11. Over => ~Arrived("toPrimary")
  <2>1. client.seq \in Nat
    BY DEF Exchange, HandshakeTypeOK, Peers, Peer
  <2> QED  BY <1>1, <1>2, <2>1, LinkFacts, KindFacts DEF Over
<1>12. LateReply => ~Arrived("fromClient") /\ ~Arrived("toClient")
  BY <1>1, <1>2, LinkFacts, KindFacts DEF LateReply
<1> QED  BY <1>4, <1>5, <1>6, <1>7, <1>8, <1>9, <1>10, <1>11, <1>12, LinkFacts
         DEF Exchange, Situation

\* A packet that is known by its fields.
LEMMA OnlyOn ==
  ASSUME NEW K, NEW l, NEW k, NEW s, NEW p \in Wire, Only(K, l, p)',
         p.k = k, p.seq = s
  PROVE  On(K, l, k, s)'
<1>1. p = Pkt(k, s, p.eof) /\ p.eof \in BOOLEAN
  BY DEF Wire, Pkt
<1> QED  BY <1>1 DEF On
-----------------------------------------------------------------------------
\* The primary is dialled, and greets or cannot be reached.
LEMMA DialPrimaryKeeps == Exchange /\ DialPrimary => Exchange'
<1> SUFFICES ASSUME Exchange, DialPrimary
             PROVE  Exchange'
  OBVIOUS
<1>1. Dialling /\ HandshakeTypeOK /\ ShadowSituation /\ NoEof /\ phase = "dial"
  BY Whereabouts DEF Exchange, DialPrimary
<1>2. Apart
  BY DEF Apart, DialPrimary
<1>3. CASE phase' = "greet"
  <2> DEFINE p == Pkt("greeting", 0, FALSE)
  <2>1. p \in Wire /\ p.k = "greeting" /\ p.seq = 0
    BY DEF Pkt, Wire, Kinds
  <2>2. Append(<<>>, p) = <<p>>
    BY <2>1
  <2>3. Put("fromPrimary", p)
    BY <1>1, <1>3, <2>2, Zenon DEF DialPrimary, Put, Dialling, Calm, MainLinks
  <2>4. /\ net' \in [Links -> Seq(Wire)] /\ Only(MainLinks, "fromPrimary", p)'
        /\ ShadowSituation'
    BY <1>1, <1>2, <2>1, <2>3, MainPuts, Zenon DEF DialPrimary, Dialling, MainLinks
  <2>5. On(MainLinks, "fromPrimary", "greeting", 0)'
    BY <2>1, <2>4, OnlyOn, Zenon
  <2>6. /\ primary'.at = "greeted" /\ primary'.seq = 1 /\ Peers'
        /\ primary'.eof = primary.eof
    <3>1. primary \in Peer /\ UNCHANGED <<client, shadow>>
      BY <1>1 DEF DialPrimary, HandshakeTypeOK, Peers
    <3> DEFINE q == [primary EXCEPT !.at = "greeted"]
    <3>2. q \in Peer /\ q.at = "greeted" /\ q.eof = primary.eof
      BY <3>1, PeerAt, StageFacts
    <3>3. primary' = [q EXCEPT !.seq = 1]
      BY <1>3 DEF DialPrimary
    <3> HIDE DEF q
    <3>4. /\ primary' \in Peer /\ primary'.at = q.at /\ primary'.seq = 1
          /\ primary'.eof = q.eof
      BY <3>2, <3>3, PeerSeq
    <3> QED  BY <1>1, <3>1, <3>2, <3>4 DEF HandshakeTypeOK, Peers
  <2>7. PrimaryGreets'
    BY <1>1, <1>3, <2>5, <2>6
    DEF DialPrimary, Dialling, PrimaryGreets, PhaseIn, Counts, ClientAt,
        PrimaryAt
  <2>8. Flags'
    BY <1>1 DEF DialPrimary, HandshakeTypeOK, Flags
  <2>9. NoEof'
    BY <1>1, <2>6 DEF Dialling, Counts, NoEof
  <2> QED
    BY <2>4, <2>6, <2>7, <2>8, <2>9 DEF Exchange, Situation, HandshakeTypeOK
<1>4. CASE phase' = "ended"
  <2>1. UNCHANGED <<tls, shadowTLS, ssl, client, primary, shadow, net>>
    BY <1>4 DEF DialPrimary
  <2>2. ShadowSituation'
    BY <1>1, <1>2, <2>1, ShadowKept
  <2>3. Dialling'
    BY <1>1, <1>4, <2>1
    DEF Dialling, PhaseIn, Counts, ClientAt, PrimaryAt, Calm
  <2>4. Flags' /\ NoEof'
    BY <2>1, FlagsKept
  <2> QED
    BY <1>1, <2>1, <2>2, <2>3, <2>4
    DEF Exchange, Situation, HandshakeTypeOK, Peers
<1> QED  BY <1>3, <1>4 DEF DialPrimary

\* The primary's greeting is passed on.
LEMMA ForwardGreetingKeeps == Exchange /\ ForwardGreeting => Exchange'
<1> SUFFICES ASSUME Exchange, ForwardGreeting
             PROVE  Exchange'
  OBVIOUS
<1>1. /\ PrimaryGreets /\ HandshakeTypeOK
      /\ UNCHANGED <<tls, shadowTLS, ssl, client, primary, shadow>>
      /\ Relay("fromPrimary", "toClient", Got("fromPrimary"))
      /\ phase' = "clientAuth"
  BY Whereabouts DEF Exchange, ForwardGreeting, Config, Servers
<1>2. On(MainLinks, "fromPrimary", "greeting", 0)
  BY <1>1 DEF PrimaryGreets
<1>3. PICK p \in Wire :
        p = Got("fromPrimary") /\ p.k = "greeting" /\ p.seq = 0
  BY <1>2, OnReads, LinkFacts, KindFacts
<1>4. Relay("fromPrimary", "toClient", p) /\ Apart
  BY <1>1, <1>3 DEF Apart, ForwardGreeting
<1>5. /\ net' \in [Links -> Seq(Wire)] /\ Only(MainLinks, "toClient", p)'
      /\ ShadowSituation'
  BY <1>1, <1>2, <1>4, MainRelays, LinkFacts, KindFacts
<1>6. On(MainLinks, "toClient", "greeting", 0)'
  BY <1>3, <1>5, OnlyOn
<1>7. GreetsClient'
  BY <1>1, <1>6 DEF PrimaryGreets, GreetsClient, PhaseIn, Counts, ClientAt,
                    PrimaryAt
<1> QED  BY <1>1, <1>5, <1>7, FlagsKept
         DEF Exchange, Situation, HandshakeTypeOK, Peers

\* The auth packet: the capabilities are stripped unless TLS is configured.
LEMMA ForwardAuthKeeps == Exchange /\ ForwardAuth => Exchange'
<1> SUFFICES ASSUME Exchange, ForwardAuth
             PROVE  Exchange'
  OBVIOUS
<1>1. /\ HandshakeTypeOK /\ Situation
      /\ UNCHANGED <<tls, shadowTLS, ssl, client, primary, shadow>>
      /\ Arrived("fromClient") /\ Got("fromClient").k = "auth"
      /\ phase = "clientAuth" /\ phase' = "result"
  BY DEF Exchange, ForwardAuth, Config, Servers
<1>2. Authenticates
  <2>1. ~AsksTLS
    BY <1>1, OnReads, LinkFacts, KindFacts, SMTT(15) DEF AsksTLS
  <2> QED  BY <1>1, <2>1, Whereabouts, Arrivals
<1>3. On(MainLinks, "fromClient", "auth", 1)
  BY <1>2 DEF Authenticates
<1>4. PICK p \in Wire : p = Got("fromClient") /\ p.k = "auth" /\ p.seq = 1
  BY <1>3, OnReads, LinkFacts, KindFacts
<1>5. /\ [p EXCEPT !.eof = FALSE] \in Wire
      /\ [p EXCEPT !.eof = FALSE].k = "auth" /\ [p EXCEPT !.eof = FALSE].seq = 1
      /\ [p EXCEPT !.eof = FALSE].eof = FALSE
  BY <1>4, Zenon DEF Wire
<1>6. PICK q \in Wire : /\ Relay("fromClient", "toPrimary", q)
                        /\ q.k = "auth" /\ q.seq = 1
                        /\ tls = FALSE => q.eof = FALSE
  <2>1. CASE tls = TRUE
    <3>1. Relay("fromClient", "toPrimary", p)
      BY <1>4, <2>1 DEF ForwardAuth
    <3> QED  BY <1>4, <2>1, <3>1
  <2>2. CASE tls = FALSE
    <3>1. Relay("fromClient", "toPrimary", [p EXCEPT !.eof = FALSE])
      BY <1>4, <2>2 DEF ForwardAuth, removeUnsupportedCapabilities
    <3> QED  BY <1>5, <3>1, Zenon
  <2> QED  BY <1>1, <2>1, <2>2, Zenon DEF HandshakeTypeOK, Flags
<1>7. /\ net' \in [Links -> Seq(Wire)] /\ Only(MainLinks, "toPrimary", q)'
      /\ ShadowSituation'
  <2>1. Apart
    BY <1>1 DEF Apart
  <2> QED  BY <1>1, <1>3, <1>6, <2>1, MainRelays, LinkFacts, KindFacts
<1>8. AuthAtPrimary'
  <2>1. q = Pkt("auth", 1, q.eof) /\ q.eof \in BOOLEAN
    BY <1>6, PacketFields
  <2>2. /\ Awaits' /\ primary'.seq = 1 /\ ClientAt({"result"})'
        /\ PrimaryAt({"greeted"})' /\ ssl' = FALSE /\ tls' = tls
    BY <1>1, <1>2
    DEF Authenticates, Awaits, PhaseIn, Counts, ClientAt, PrimaryAt
  <2>3. Only(MainLinks, "toPrimary", Pkt("auth", 1, q.eof))'
    BY <1>7, <2>1
  <2> QED  BY <1>6, <2>1, <2>2, <2>3 DEF AuthAtPrimary
<1> QED  BY <1>1, <1>7, <1>8, FlagsKept
         DEF Exchange, Situation, HandshakeTypeOK, Peers

\* The auth packet that came over TLS: stripped, and numbered as the primary
\* counts.
LEMMA ForwardTLSAuthKeeps == Exchange /\ ForwardTLSAuth => Exchange'
<1> SUFFICES ASSUME Exchange, ForwardTLSAuth
             PROVE  Exchange'
  OBVIOUS
<1>1. /\ HandshakeTypeOK /\ Situation
      /\ UNCHANGED <<tls, shadowTLS, ssl, client, primary, shadow>>
      /\ Arrived("fromClient") /\ phase = "tlsAuth" /\ phase' = "tlsResult"
  BY DEF Exchange, ForwardTLSAuth, Config, Servers
<1>2. AuthenticatesTLS
  BY <1>1, Whereabouts, Arrivals
<1>3. On(MainLinks, "fromClient", "auth", 2)
  BY <1>2 DEF AuthenticatesTLS
<1>4. PICK p \in Wire : p = Got("fromClient") /\ p.k = "auth" /\ p.seq = 2
  BY <1>3, OnReads, LinkFacts, KindFacts
<1> DEFINE q == FixAuthSeq(removeUnsupportedCapabilities(p))
<1>5. q \in Wire /\ q = Pkt("auth", 1, FALSE)
  <2> DEFINE r == removeUnsupportedCapabilities(p)
  <2>1. r \in Wire /\ r.k = "auth" /\ r.eof = FALSE
    BY <1>4, Zenon DEF Wire, removeUnsupportedCapabilities
  <2> HIDE DEF r
  <2>2. /\ FixAuthSeq(r) \in Wire /\ FixAuthSeq(r).k = r.k
        /\ FixAuthSeq(r).seq = 1 /\ FixAuthSeq(r).eof = r.eof
    BY <2>1 DEF Wire, FixAuthSeq
  <2>3. FixAuthSeq(r) = Pkt("auth", 1, FALSE)
    BY <2>1, <2>2, PacketFields, Zenon
  <2> QED  BY <2>2, <2>3, Zenon DEF r
<1>6. Relay("fromClient", "toPrimary", q) /\ Apart
  BY <1>1, <1>4 DEF ForwardTLSAuth, Apart
<1> HIDE DEF q
<1>7. /\ net' \in [Links -> Seq(Wire)] /\ Only(MainLinks, "toPrimary", q)'
      /\ ShadowSituation'
  BY <1>1, <1>3, <1>5, <1>6, MainRelays, LinkFacts, KindFacts, Zenon
<1>8. AuthAtPrimary'
  <2>1. /\ Awaits' /\ primary'.seq = 1 /\ ClientAt({"result"})'
        /\ PrimaryAt({"greeted"})'
    BY <1>1, <1>2
    DEF AuthenticatesTLS, Awaits, PhaseIn, Counts, ClientAt, PrimaryAt
  <2>2. Only(MainLinks, "toPrimary", Pkt("auth", 1, FALSE))'
    BY <1>5, <1>7, Zenon
  <2> QED  BY <2>1, <2>2, Zenon DEF AuthAtPrimary
<1> QED  BY <1>1, <1>7, <1>8, FlagsKept
         DEF Exchange, Situation, HandshakeTypeOK, Peers

\* The primary's verdict after TLS: numbered as the client counts.
LEMMA ForwardTLSResultKeeps == Exchange /\ ForwardTLSResult => Exchange'
<1> SUFFICES ASSUME Exchange, ForwardTLSResult
             PROVE  Exchange'
  OBVIOUS
<1>1. /\ HandshakeTypeOK /\ Situation
      /\ UNCHANGED <<tls, shadowTLS, ssl, client, primary, shadow>>
      /\ Arrived("fromPrimary") /\ phase = "tlsResult" /\ phase' = "shadowDial"
  BY DEF Exchange, ForwardTLSResult, Config, Servers
<1>2. Judged /\ ssl = TRUE
  BY <1>1, Whereabouts, Arrivals
<1>3. PICK k \in {"ok", "err", "switch"} : On(MainLinks, "fromPrimary", k, 2)
  BY <1>2 DEF Judged
<1>4. k \in Kinds
  BY DEF Kinds
<1>5. PICK p \in Wire : p = Got("fromPrimary") /\ p.k = k /\ p.seq = 2
  BY <1>3, <1>4, OnReads, LinkFacts
<1> DEFINE q == FixResultSeq(p)
<1>6. q \in Wire /\ q.k = k /\ q.seq = 3
  BY <1>5 DEF Wire, FixResultSeq
<1>7. Relay("fromPrimary", "toClient", q) /\ Apart
  BY <1>1, <1>5 DEF ForwardTLSResult, Apart
<1> HIDE DEF q
<1>8. /\ net' \in [Links -> Seq(Wire)] /\ Only(MainLinks, "toClient", q)'
      /\ ShadowSituation'
  BY <1>1, <1>3, <1>4, <1>6, <1>7, MainRelays, LinkFacts
<1>9. On(MainLinks, "toClient", k, 3)'
  BY <1>6, <1>8, OnlyOn
<1>10. Over'
  <2>1. ssl' = TRUE /\ phase' \in LoggedIn
    BY <1>1, <1>2 DEF LoggedIn
  <2>2. client'.seq = 3 /\ ClientAt({"result"})' /\ Counts(3, 3)'
    BY <1>1, <1>2 DEF Judged, Awaits, ClientAt, Counts
  <2> QED  BY <1>9, <2>1, <2>2 DEF Over
<1> QED  BY <1>1, <1>8, <1>10, FlagsKept
         DEF Exchange, Situation, HandshakeTypeOK, Peers

\* An auth switch is passed on.
LEMMA ForwardSwitchKeeps == Exchange /\ ForwardSwitch => Exchange'
<1> SUFFICES ASSUME Exchange, ForwardSwitch
             PROVE  Exchange'
  OBVIOUS
<1>1. /\ HandshakeTypeOK /\ Situation
      /\ UNCHANGED <<tls, shadowTLS, ssl, client, primary, shadow>>
      /\ Arrived("fromPrimary") /\ Got("fromPrimary").k = "switch"
      /\ phase = "result" /\ phase' = "switchClient"
  BY DEF Exchange, ForwardSwitch, Config, Servers
<1>2. Judged /\ ssl = FALSE
  BY <1>1, Whereabouts, Arrivals
<1>3. PICK k \in {"ok", "err", "switch"} :
        On(MainLinks, "fromPrimary", k, 2) /\ Answered(k)
  BY <1>2 DEF Judged
<1>4. k \in Kinds
  BY DEF Kinds
<1>5. PICK p \in Wire : p = Got("fromPrimary") /\ p.k = k /\ p.seq = 2
  BY <1>3, <1>4, OnReads, LinkFacts
<1>6. k = "switch" /\ Relay("fromPrimary", "toClient", p) /\ Apart
  BY <1>1, <1>5 DEF ForwardSwitch, Apart
<1>7. /\ net' \in [Links -> Seq(Wire)] /\ Only(MainLinks, "toClient", p)'
      /\ ShadowSituation'
  BY <1>1, <1>3, <1>4, <1>6, MainRelays, LinkFacts
<1>8. On(MainLinks, "toClient", "switch", 2)'
  BY <1>5, <1>6, <1>7, OnlyOn
<1>9. SwitchToClient'
  <2>1. PrimaryAt({"switch"}) /\ Counts(2, 3)
    BY <1>2, <1>3, <1>6 DEF Answered, Judged, Awaits, Counts
  <2> QED  BY <1>1, <1>2, <1>8, <2>1
           DEF Judged, SwitchToClient, PhaseIn, Counts, ClientAt, PrimaryAt
<1> QED  BY <1>1, <1>7, <1>9, FlagsKept
         DEF Exchange, Situation, HandshakeTypeOK, Peers

\* The client's reply to it, too.
LEMMA ForwardSwitchReplyKeeps == Exchange /\ ForwardSwitchReply => Exchange'
<1> SUFFICES ASSUME Exchange, ForwardSwitchReply
             PROVE  Exchange'
  OBVIOUS
<1>1. /\ HandshakeTypeOK /\ Situation
      /\ UNCHANGED <<tls, shadowTLS, ssl, client, primary, shadow>>
      /\ Arrived("fromClient")
      /\ phase = "switchClient" /\ phase' = "finalResult"
  BY DEF Exchange, ForwardSwitchReply, Config, Servers
<1>2. SwitchReplied
  BY <1>1, Whereabouts, Arrivals
<1>3. On(MainLinks, "fromClient", "switchReply", 3)
  BY <1>2 DEF SwitchReplied
<1>4. PICK p \in Wire :
        p = Got("fromClient") /\ p.k = "switchReply" /\ p.seq = 3
  BY <1>3, OnReads, LinkFacts, KindFacts
<1>5. Relay("fromClient", "toPrimary", p) /\ Apart
  BY <1>1, <1>4 DEF ForwardSwitchReply, Apart
<1>6. /\ net' \in [Links -> Seq(Wire)] /\ Only(MainLinks, "toPrimary", p)'
      /\ ShadowSituation'
  BY <1>1, <1>3, <1>5, MainRelays, LinkFacts, KindFacts
<1>7. On(MainLinks, "toPrimary", "switchReply", 3)'
  BY <1>4, <1>6, OnlyOn
<1>8. ReplyAtPrimary'
  BY <1>1, <1>2, <1>7
  DEF SwitchReplied, ReplyAtPrimary, PhaseIn, Counts, ClientAt, PrimaryAt
<1> QED  BY <1>1, <1>6, <1>8, FlagsKept
         DEF Exchange, Situation, HandshakeTypeOK, Peers

\* The primary's verdict without TLS: only one that lets the client in leads on.
LEMMA ForwardResultKeeps == Exchange /\ ForwardResult => Exchange'
<1> SUFFICES ASSUME Exchange, ForwardResult
             PROVE  Exchange'
  OBVIOUS
<1>1. /\ HandshakeTypeOK /\ Situation
      /\ UNCHANGED <<tls, shadowTLS, ssl, client, primary, shadow>>
      /\ Arrived("fromPrimary")
      /\ \/ phase = "result" /\ Got("fromPrimary").k # "switch"
         \/ phase = "finalResult"
      /\ Relay("fromPrimary", "toClient", Got("fromPrimary"))
      /\ phase' = IF Got("fromPrimary").k # "err" THEN "shadowDial" ELSE "ended"
  BY DEF Exchange, ForwardResult, AuthAccepted, Config, Servers
<1>2. PICK k \in {"ok", "err"}, s \in {2, 4} :
        /\ On(MainLinks, "fromPrimary", k, s) /\ Answered(k)
        /\ client.seq = s /\ ClientAt({"result"}) /\ ssl = FALSE
  <2>1. CASE phase = "result"
    <3>1. Judged /\ ssl = FALSE
      BY <1>1, <2>1, Whereabouts, Arrivals
    <3>2. PICK k \in {"ok", "err", "switch"} :
            On(MainLinks, "fromPrimary", k, 2) /\ Answered(k)
      BY <3>1 DEF Judged
    <3>3. Got("fromPrimary").k = k
      BY <3>2, OnReads, LinkFacts, KindFacts
    <3>4. k \in {"ok", "err"} /\ client.seq = 2 /\ ClientAt({"result"})
      BY <1>1, <2>1, <3>1, <3>3 DEF Judged, Awaits
    <3> QED  BY <3>1, <3>2, <3>4
  <2>2. CASE phase = "finalResult"
    <3>1. JudgedAgain
      BY <1>1, <2>2, Whereabouts, Arrivals
    <3> QED  BY <3>1 DEF JudgedAgain, Counts
  <2> QED  BY <1>1, <2>1, <2>2, Zenon
<1>3. k \in Kinds /\ s \in Nat
  BY DEF Kinds
<1>4. PICK p \in Wire : p = Got("fromPrimary") /\ p.k = k /\ p.seq = s
  BY <1>2, <1>3, OnReads, LinkFacts
<1>5. Relay("fromPrimary", "toClient", p) /\ Apart
  BY <1>1, <1>4 DEF Apart
<1>6. /\ net' \in [Links -> Seq(Wire)] /\ Only(MainLinks, "toClient", p)'
      /\ ShadowSituation'
  BY <1>1, <1>2, <1>3, <1>5, MainRelays, LinkFacts
<1>7. On(MainLinks, "toClient", k, s)'
  BY <1>4, <1>6, OnlyOn
<1>8. Over'
  <2>1. phase' \in LoggedIn \cup {"ended"}
    BY <1>1 DEF LoggedIn
  <2>2. phase' \in LoggedIn => primary'.at = "in"
    BY <1>1, <1>2, <1>4 DEF LoggedIn, Answered
  <2>3. client'.seq = s /\ ClientAt({"result"})'
    BY <1>1, <1>2 DEF ClientAt
  <2> QED  BY <1>2, <1>7, <2>1, <2>2, <2>3 DEF Over
<1> QED  BY <1>1, <1>6, <1>8, FlagsKept
         DEF Exchange, Situation, HandshakeTypeOK, Peers

\* The client's request to speak TLS is taken, and the upgrade may fail.
LEMMA UpgradeClientKeeps == Exchange /\ UpgradeClient => Exchange'
<1> SUFFICES ASSUME Exchange, UpgradeClient
             PROVE  Exchange'
  OBVIOUS
<1>1. /\ HandshakeTypeOK /\ Situation /\ NoEof
      /\ UNCHANGED <<tls, shadowTLS, primary, shadow>>
      /\ Arrived("fromClient") /\ Got("fromClient").k = "sslRequest"
      /\ phase = "clientAuth" /\ Take("fromClient")
  BY DEF Exchange, UpgradeClient, Config, Servers
<1>2. AsksTLS
  <2>1. ~Authenticates
    BY <1>1, OnReads, LinkFacts, KindFacts, SMTT(15) DEF Authenticates
  <2> QED  BY <1>1, <2>1, Whereabouts, Arrivals
<1>3. On(MainLinks, "fromClient", "sslRequest", 1)
  BY <1>2 DEF AsksTLS
<1>4. Apart
  BY <1>1 DEF UpgradeClient, Apart
<1>5. /\ net' \in [Links -> Seq(Wire)] /\ Calm(MainLinks)'
      /\ ShadowSituation'
  BY <1>1, <1>3, <1>4, MainTakes, LinkFacts, KindFacts
<1>6. CASE phase' = "tlsAuth" /\ ssl' = TRUE
           /\ client' = [client EXCEPT !.at = "auth"]
  <2>1. client \in Peer /\ primary \in Peer /\ shadow \in Peer
    BY <1>1 DEF HandshakeTypeOK, Peers
  <2>2. client' \in Peer /\ client'.at = "auth" /\ client'.seq = client.seq
    BY <1>6, <2>1, PeerAt, StageFacts
  <2>3. Upgraded'
    BY <1>1, <1>2, <1>5, <1>6, <2>2
    DEF AsksTLS, Upgraded, PhaseIn, Counts, ClientAt, PrimaryAt
  <2>4. Flags'
    BY <1>1, <1>6 DEF HandshakeTypeOK, Flags
  <2>5. NoEof'
    BY <1>1, <1>2 DEF AsksTLS, Counts, NoEof
  <2> QED  BY <1>1, <1>5, <2>1, <2>2, <2>3, <2>4, <2>5
           DEF Exchange, Situation, HandshakeTypeOK, Peers
<1>7. CASE phase' = "ended" /\ UNCHANGED <<ssl, client>>
  <2>1. NotUpgraded'
    BY <1>1, <1>2, <1>5, <1>7
    DEF AsksTLS, NotUpgraded, PhaseIn, Counts, ClientAt, PrimaryAt
  <2> QED  BY <1>1, <1>5, <1>7, <2>1, FlagsKept
           DEF Exchange, Situation, HandshakeTypeOK, Peers
<1> QED  BY <1>6, <1>7, Zenon DEF UpgradeClient

\* A peer that leaves, and a handler that gives up, leave the packets alone.
LEMMA SituationOutlives ==
  ASSUME Situation, UNCHANGED <<tls, ssl, net>>,
         client'.seq = client.seq, primary'.seq = primary.seq,
         client'.at = client.at \/ client'.at = "gone",
         \/ primary'.at = primary.at
         \/ primary.at \notin {"new", "in"} /\ primary'.at = "gone",
         phase' = phase \/ (phase \notin LoggedIn /\ phase' = "ended")
  PROVE  Situation'
<1>1. /\ Calm(MainLinks)' <=> Calm(MainLinks)
      /\ \A l, k, s : On(MainLinks, l, k, s)' <=> On(MainLinks, l, k, s)
      /\ \A l, p : Only(MainLinks, l, p)' <=> Only(MainLinks, l, p)
  BY DEF Calm, On, Only
<1>2. \A A : /\ ClientAt(A) => ClientAt(A)'
             /\ PrimaryAt(A) => PrimaryAt(A)'
             /\ PhaseIn(A) => PhaseIn(A)'
  BY DEF ClientAt, PrimaryAt, PhaseIn
<1>3. /\ Awaits => Awaits'
      /\ \A c, p : Counts(c, p) => Counts(c, p)'
      /\ \A k : Answered(k) => Answered(k)'
      /\ ssl' = ssl /\ tls' = tls
  BY <1>2 DEF Awaits, Counts, Answered
<1>4. CASE Over
  BY <1>1, <1>2, <1>3, <1>4, Zenon DEF Over, Situation, LoggedIn
<1>5. Dialling \/ PrimaryGreets \/ GreetsClient \/ AsksTLS \/ Authenticates
        => Situation'
  BY <1>1, <1>2, <1>3, Zenon
  DEF Situation, Dialling, PrimaryGreets, GreetsClient, AsksTLS, Authenticates
<1>6. NotUpgraded \/ Upgraded \/ AuthenticatesTLS \/ AuthAtPrimary \/ Judged
        => Situation'
  BY <1>1, <1>2, <1>3, Zenon
  DEF Situation, NotUpgraded, Upgraded, AuthenticatesTLS, AuthAtPrimary, Judged
<1>7. SwitchToClient \/ SwitchReplied \/ ReplyAtPrimary \/ JudgedAgain
        => Situation'
  BY <1>1, <1>2, <1>3, Zenon
  DEF Situation, SwitchToClient, SwitchReplied, ReplyAtPrimary, JudgedAgain
<1>8. CASE LateReply
  <2>1. phase' = phase
    BY <1>8 DEF LateReply, LoggedIn
  <2> QED  BY <1>1, <1>2, <1>3, <1>8, <2>1, Zenon DEF Situation, LateReply
<1> QED  BY <1>4, <1>5, <1>6, <1>7, <1>8 DEF Situation

\* A read or a write of the handshake fails.
LEMMA HandshakeFailsKeeps == Exchange /\ HandshakeFails => Exchange'
<1> SUFFICES ASSUME Exchange, HandshakeFails
             PROVE  Exchange'
  OBVIOUS
<1>1. /\ UNCHANGED <<tls, shadowTLS, ssl, client, primary, shadow, net>>
      /\ phase \notin LoggedIn /\ phase' = "ended"
  BY DEF HandshakeFails, LoggedIn
<1>2. Apart
  BY <1>1 DEF Apart, LoggedIn
<1>3. Situation'
  BY <1>1, SituationOutlives DEF Exchange
<1>4. ShadowSituation'
  BY <1>1, <1>2, ShadowKept DEF Exchange
<1> QED  BY <1>1, <1>3, <1>4, FlagsKept DEF Exchange, HandshakeTypeOK, Peers

\* The client hangs up.
LEMMA ClientLeavesKeeps == Exchange /\ ClientLeaves => Exchange'
<1> SUFFICES ASSUME Exchange, ClientLeaves
             PROVE  Exchange'
  OBVIOUS
<1>1. /\ UNCHANGED <<tls, shadowTLS, ssl, primary, shadow, net, phase>>
      /\ client' = [client EXCEPT !.at = "gone"] /\ Peers
  BY DEF ClientLeaves, Config, Servers, Exchange, HandshakeTypeOK
<1>2. client' \in Peer /\ client'.at = "gone" /\ client'.seq = client.seq
  BY <1>1, PeerAt, StageFacts DEF Peers
<1>3. Situation'
  BY <1>1, <1>2, SituationOutlives DEF Exchange
<1>4. ShadowSituation'
  BY <1>1, ShadowKept DEF Exchange, Apart
<1> QED  BY <1>1, <1>2, <1>3, <1>4, FlagsKept
         DEF Exchange, HandshakeTypeOK, Peers

\* The primary hangs up; it has not let the client in.
LEMMA PrimaryLeavesKeeps == Exchange /\ PrimaryLeaves => Exchange'
<1> SUFFICES ASSUME Exchange, PrimaryLeaves
             PROVE  Exchange'
  OBVIOUS
<1>1. /\ UNCHANGED <<tls, shadowTLS, ssl, client, shadow, net, phase>>
      /\ primary' = [primary EXCEPT !.at = "gone"] /\ Peers
      /\ primary.at \notin {"new", "in"}
  BY DEF PrimaryLeaves, Exchange, HandshakeTypeOK
<1>2. /\ primary' \in Peer /\ primary'.at = "gone"
      /\ primary'.seq = primary.seq /\ primary'.eof = primary.eof
  BY <1>1, PeerAt, StageFacts DEF Peers
<1>3. Situation'
  BY <1>1, <1>2, SituationOutlives DEF Exchange
<1>4. ShadowSituation'
  BY <1>1, ShadowKept DEF Exchange, Apart
<1>5. Flags' /\ tls' = tls /\ ssl' = ssl
  BY <1>1 DEF Exchange, HandshakeTypeOK, Flags
<1>6. NoEof'
  BY <1>2, <1>5 DEF Exchange, NoEof
<1> QED  BY <1>1, <1>2, <1>3, <1>4, <1>5, <1>6
         DEF Exchange, HandshakeTypeOK, Peers

\* A client's answer to an auth switch is passed on in the session.
LEMMA SessionRelayKeeps == Exchange /\ SessionRelay => Exchange'
<1> SUFFICES ASSUME Exchange, SessionRelay
             PROVE  Exchange'
  OBVIOUS
<1>1. /\ HandshakeTypeOK /\ Situation
      /\ UNCHANGED <<tls, shadowTLS, ssl, client, primary, shadow, phase>>
      /\ Arrived("fromClient") /\ phase \in {"mirror", "plain"}
      /\ Relay("fromClient", "toPrimary", Got("fromClient"))
  BY DEF Exchange, SessionRelay, Config, Servers
<1>2. Over
  BY <1>1, Whereabouts, Arrivals DEF LoggedIn
<1>3. /\ ssl = TRUE /\ ClientAt({"result"}) /\ Counts(5, 3)
      /\ On(MainLinks, "fromClient", "switchReply", 4)
  <2>1. ~Calm(MainLinks)
    BY <1>1, Reading, LinkFacts
  <2>2. client.seq \in Nat
    BY <1>1 DEF HandshakeTypeOK, Peers, Peer
  <2>3. \A k \in Kinds : ~On(MainLinks, "toClient", k, client.seq)
    BY <1>1, <2>2, OnReads, LinkFacts
  <2> QED  BY <1>2, <2>1, <2>3, KindFacts DEF Over
<1>4. PICK p \in Wire :
        p = Got("fromClient") /\ p.k = "switchReply" /\ p.seq = 4
  BY <1>3, OnReads, LinkFacts, KindFacts
<1>5. Relay("fromClient", "toPrimary", p) /\ Apart
  BY <1>1, <1>4 DEF Apart
<1>6. /\ net' \in [Links -> Seq(Wire)] /\ Only(MainLinks, "toPrimary", p)'
      /\ ShadowSituation'
  BY <1>1, <1>3, <1>5, MainRelays, LinkFacts, KindFacts
<1>7. On(MainLinks, "toPrimary", "switchReply", 4)'
  BY <1>4, <1>6, OnlyOn
<1>8. LateReply'
  BY <1>1, <1>3, <1>7 DEF LateReply, Counts, ClientAt
<1> QED  BY <1>1, <1>6, <1>8, FlagsKept
         DEF Exchange, Situation, HandshakeTypeOK, Peers
-----------------------------------------------------------------------------
(* The client.                                                             *)

\* The client answers the greeting, with or without a request for TLS.
LEMMA ClientGreetedKeeps == Exchange /\ ClientGreeted => Exchange'
<1> SUFFICES ASSUME Exchange, ClientGreeted
             PROVE  Exchange'
  OBVIOUS
<1>1. /\ UNCHANGED <<tls, shadowTLS, ssl, primary, shadow, phase>>
      /\ client.at = "new" /\ Arrived("toClient") /\ HandshakeTypeOK /\ Peers
  BY DEF ClientGreeted, Config, Servers, Exchange, HandshakeTypeOK
<1>2. GreetsClient
  BY <1>1, Arrivals DEF SwitchToClient, Over, ClientAt
<1>3. On(MainLinks, "toClient", "greeting", 0) /\ Apart
  BY <1>1, <1>2 DEF GreetsClient, Apart
<1>4. client \in Peer /\ client.seq = 0
  BY <1>1, <1>2 DEF Peers, GreetsClient, Counts
<1>5. ASSUME NEW k \in {"sslRequest", "auth"}, NEW at \in Stages,
             Relay("toClient", "fromClient", Answer(client, k)),
             client' = Moved(client, at, 2)
      PROVE  /\ On(MainLinks, "fromClient", k, 1)' /\ ShadowSituation'
             /\ net' \in [Links -> Seq(Wire)]
             /\ client' \in Peer /\ client'.at = at /\ client'.seq = 2
  <2>1. PICK p \in Wire : p = Answer(client, k) /\ p.k = k /\ p.seq = 1
    <3>1. client.eof \in BOOLEAN /\ k \in Kinds /\ client.seq + 1 = 1
      BY <1>4 DEF Peer, Kinds
    <3>2. Answer(client, k) = Pkt(k, 1, client.eof)
      BY <3>1 DEF Answer
    <3> QED  BY <3>1, <3>2, PktType
  <2>2. /\ net' \in [Links -> Seq(Wire)] /\ Only(MainLinks, "fromClient", p)'
        /\ ShadowSituation'
    BY <1>1, <1>3, <1>5, <2>1, MainRelays, LinkFacts, KindFacts
  <2>3. On(MainLinks, "fromClient", k, 1)'
    BY <2>1, <2>2, OnlyOn
  <2>4. client' \in Peer /\ client'.at = at /\ client'.seq = 0 + 2
    BY <1>4, <1>5, PeerMoves
  <2> QED  BY <2>2, <2>3, <2>4
<1>6. CASE /\ tls
           /\ Relay("toClient", "fromClient", Answer(client, "sslRequest"))
           /\ client' = Moved(client, "upgrade", 2)
  <2>1. /\ On(MainLinks, "fromClient", "sslRequest", 1)' /\ ShadowSituation'
        /\ net' \in [Links -> Seq(Wire)]
        /\ client' \in Peer /\ client'.at = "upgrade" /\ client'.seq = 2
    BY <1>5, <1>6, StageFacts
  <2>2. tls' = TRUE
    BY <1>1, <1>6 DEF HandshakeTypeOK, Flags
  <2>3. AsksTLS'
    BY <1>1, <1>2, <2>1, <2>2
    DEF GreetsClient, AsksTLS, PhaseIn, Counts, ClientAt, PrimaryAt
  <2> QED  BY <1>1, <2>1, <2>3, FlagsKept
           DEF Exchange, Situation, HandshakeTypeOK, Peers
<1>7. CASE /\ Relay("toClient", "fromClient", Answer(client, "auth"))
           /\ client' = Moved(client, "result", 2)
  <2>1. /\ On(MainLinks, "fromClient", "auth", 1)' /\ ShadowSituation'
        /\ net' \in [Links -> Seq(Wire)]
        /\ client' \in Peer /\ client'.at = "result" /\ client'.seq = 2
    BY <1>5, <1>7, StageFacts
  <2>2. Authenticates'
    BY <1>1, <1>2, <2>1
    DEF GreetsClient, Authenticates, PhaseIn, Counts, ClientAt, PrimaryAt
  <2> QED  BY <1>1, <2>1, <2>2, FlagsKept
           DEF Exchange, Situation, HandshakeTypeOK, Peers
<1> QED  BY <1>6, <1>7 DEF ClientGreeted

\* The client authenticates over TLS; it has counted its request.
LEMMA ClientAuthOverTLSKeeps == Exchange /\ ClientAuthOverTLS => Exchange'
<1> SUFFICES ASSUME Exchange, ClientAuthOverTLS
             PROVE  Exchange'
  OBVIOUS
<1>1. /\ UNCHANGED <<tls, shadowTLS, ssl, primary, shadow, phase>>
      /\ client.at = "auth" /\ Peers /\ Situation
      /\ Put("fromClient", Pkt("auth", client.seq, client.eof))
      /\ client' = Moved(client, "result", 1)
  BY DEF ClientAuthOverTLS, Config, Servers, Exchange, HandshakeTypeOK
<1>2. Upgraded
  BY <1>1 DEF Situation, Over, LateReply, ClientAt, Dialling, PrimaryGreets,
    GreetsClient, AsksTLS, Authenticates, NotUpgraded, Upgraded,
     AuthenticatesTLS, Awaits, AuthAtPrimary, Judged,
    SwitchToClient, SwitchReplied, ReplyAtPrimary, JudgedAgain
<1>3. client \in Peer /\ client.seq = 2 /\ Calm(MainLinks) /\ Apart
  BY <1>1, <1>2 DEF Peers, Upgraded, Counts, Apart
<1>4. PICK p \in Wire :
        p = Pkt("auth", client.seq, client.eof) /\ p.k = "auth" /\ p.seq = 2
  <2>1. client.eof \in BOOLEAN
    BY <1>3 DEF Peer
  <2> QED  BY <1>3, <2>1, PktType, KindFacts
<1>5. /\ net' \in [Links -> Seq(Wire)] /\ Only(MainLinks, "fromClient", p)'
      /\ ShadowSituation'
  BY <1>1, <1>3, <1>4, MainPuts, LinkFacts
<1>6. On(MainLinks, "fromClient", "auth", 2)'
  BY <1>4, <1>5, OnlyOn
<1>7. client' \in Peer /\ client'.at = "result" /\ client'.seq = 3
  <2>1. /\ Moved(client, "result", 1) \in Peer
        /\ Moved(client, "result", 1).at = "result"
        /\ Moved(client, "result", 1).seq = client.seq + 1
    <3>1. "result" \in Stages /\ 1 \in Nat
      BY StageFacts
    <3> QED  BY <1>3, <3>1, PeerMoves, Zenon
  <2> QED  BY <1>1, <1>3, <2>1
<1>8. AuthenticatesTLS'
  BY <1>1, <1>2, <1>6, <1>7
  DEF Upgraded, AuthenticatesTLS, PhaseIn, Counts, ClientAt, PrimaryAt
<1> QED  BY <1>1, <1>5, <1>7, <1>8, FlagsKept
         DEF Exchange, Situation, HandshakeTypeOK, Peers

\* The result of the primary, or its auth switch, which may come after the
\* upgrade to TLS in a session that has begun.
LEMMA ClientResultKeeps == Exchange /\ ClientResult => Exchange'
<1> SUFFICES ASSUME Exchange, ClientResult
             PROVE  Exchange'
  OBVIOUS
<1>1. /\ UNCHANGED <<tls, shadowTLS, ssl, primary, shadow, phase>>
      /\ client.at = "result" /\ Arrived("toClient") /\ Peers /\ client \in Peer
  BY DEF ClientResult, Config, Servers, Exchange, HandshakeTypeOK, Peers
<1>2. Apart /\ client.seq \in Nat /\ client.seq + 1 \in Nat
  BY <1>1 DEF Apart, Peer
<1>3. SwitchToClient \/ Over
  BY <1>1, Arrivals DEF GreetsClient, ClientAt
<1>4. PICK k \in {"ok", "err", "switch"} :
        /\ On(MainLinks, "toClient", k, client.seq)
        /\ Over \/ (k = "switch" /\ SwitchToClient)
        /\ Over /\ k = "switch" => ssl = TRUE /\ Counts(3, 3)
  <2>1. CASE Over
    <3>1. ~Calm(MainLinks)
      BY <1>1, Reading, LinkFacts
    <3>2. ~On(MainLinks, "fromClient", "switchReply", 4)
      BY <1>1, OnReads, LinkFacts, KindFacts
    <3> QED  BY <2>1, <3>1, <3>2 DEF Over
  <2>2. CASE SwitchToClient /\ ~Over
    <3>1. On(MainLinks, "toClient", "switch", client.seq)
      BY <2>2 DEF SwitchToClient, Counts
    <3> QED  BY <2>2, <3>1
  <2> QED  BY <1>3, <2>1, <2>2, Zenon
<1>5. k \in Kinds /\ Got("toClient").k = k
  <2>1. k \in Kinds
    BY DEF Kinds
  <2> QED  BY <1>2, <1>4, <2>1, OnReads, LinkFacts
<1>6. CASE k = "switch"
  <2>1. /\ Relay("toClient", "fromClient", Answer(client, "switchReply"))
        /\ client' = Moved(client, "result", 2)
    BY <1>5, <1>6 DEF ClientResult
  <2>2. PICK s \in Nat : s = client.seq + 1
    BY <1>2
  <2>3. PICK p \in Wire : /\ p = Answer(client, "switchReply")
                          /\ p.k = "switchReply" /\ p.seq = s
    <3>1. client.eof \in BOOLEAN
      BY <1>1 DEF Peer
    <3>2. Answer(client, "switchReply") = Pkt("switchReply", s, client.eof)
      BY <2>2 DEF Answer
    <3> QED  BY <3>1, <3>2, PktType, KindFacts
  <2>4. /\ net' \in [Links -> Seq(Wire)] /\ Only(MainLinks, "fromClient", p)'
        /\ ShadowSituation'
    BY <1>1, <1>2, <1>4, <1>5, <2>1, <2>3, MainRelays, LinkFacts
  <2>5. On(MainLinks, "fromClient", "switchReply", s)'
    BY <2>3, <2>4, OnlyOn
  <2>6. /\ client' \in Peer /\ client'.at = "result"
        /\ client'.seq = client.seq + 2
    <3>1. "result" \in Stages /\ 2 \in Nat
      BY StageFacts
    <3> QED  BY <1>1, <2>1, <3>1, PeerMoves, Zenon
  <2>7. CASE Over
    <3>1. s = 4 /\ Counts(5, 3)' /\ ssl' = TRUE
      BY <1>1, <1>4, <1>6, <2>2, <2>6, <2>7 DEF Counts
    <3>2. ClientAt({"result"})' /\ phase' \in LoggedIn \cup {"ended"}
      BY <1>1, <2>6, <2>7 DEF Over, ClientAt
    <3>3. Over'
      BY <2>5, <3>1, <3>2 DEF Over
    <3> QED  BY <1>1, <2>4, <2>6, <3>3, FlagsKept
             DEF Exchange, Situation, HandshakeTypeOK, Peers
  <2>8. CASE SwitchToClient
    <3>1. client.seq = 2 /\ s = 3 /\ client'.seq = 4
      BY <2>2, <2>6, <2>8 DEF SwitchToClient, Counts
    <3>2. SwitchReplied'
      BY <1>1, <2>5, <2>6, <2>8, <3>1
      DEF SwitchToClient, SwitchReplied, PhaseIn, Counts, ClientAt, PrimaryAt
    <3> QED  BY <1>1, <2>4, <2>6, <3>2, FlagsKept
             DEF Exchange, Situation, HandshakeTypeOK, Peers
  <2> QED  BY <1>3, <2>7, <2>8
<1>7. CASE k # "switch"
  <2>1. PICK at \in {"in", "rejected"} :
          Take("toClient") /\ client' = Moved(client, at, 1)
    BY <1>5, <1>7 DEF ClientResult
  <2>2. /\ net' \in [Links -> Seq(Wire)] /\ Calm(MainLinks)'
        /\ ShadowSituation'
    BY <1>1, <1>2, <1>4, <1>5, <2>1, MainTakes, LinkFacts
  <2>3. client' \in Peer /\ client'.at = at
    <3>1. at \in Stages /\ 1 \in Nat
      BY StageFacts
    <3> QED  BY <1>1, <2>1, <3>1, PeerMoves, Zenon
  <2>4. Over'
    BY <1>1, <1>4, <1>7, <2>2, <2>3 DEF Over, ClientAt
  <2> QED  BY <1>1, <2>2, <2>3, <2>4, FlagsKept
           DEF Exchange, Situation, HandshakeTypeOK, Peers
<1> QED  BY <1>6, <1>7
-----------------------------------------------------------------------------
(* The primary.                                                            *)

\* The primary judges an auth packet or the reply to its auth switch.
LEMMA PrimaryAuthKeeps == Exchange /\ PrimaryAuth => Exchange'
<1> SUFFICES ASSUME Exchange, PrimaryAuth
             PROVE  Exchange'
  OBVIOUS
<1>1. /\ UNCHANGED <<tls, shadowTLS, phase, ssl, client, shadow>>
      /\ Arrived("toPrimary") /\ HandshakeTypeOK /\ Peers /\ primary \in Peer
  BY DEF PrimaryAuth, ServerAuth, Exchange, HandshakeTypeOK, Peers
<1>2. PICK k \in {"ok", "err", "switch"} :
        /\ k = "switch" => primary.at # "switch"
        /\ primary.at \in {"greeted", "auth", "switch"}
        /\ Relay("toPrimary", "fromPrimary", Answer(primary, k))
        /\ primary' = [Moved(primary, After(k), 2) EXCEPT !.eof =
                          IF Got("toPrimary").k = "auth"
                            THEN Got("toPrimary").eof ELSE @]
  BY DEF PrimaryAuth, ServerAuth
<1>3. k \in Kinds /\ After(k) \in Stages /\ Apart
  BY <1>1 DEF Kinds, Stages, After, Apart
<1>4. PICK j \in {"auth", "switchReply"}, n \in {1, 3}, e \in BOOLEAN :
        /\ Only(MainLinks, "toPrimary", Pkt(j, n, e)) /\ primary.seq = n
        /\ \/ /\ AuthAtPrimary /\ j = "auth" /\ n = 1
              /\ ssl = TRUE \/ tls = FALSE => e = FALSE
           \/ ReplyAtPrimary /\ j = "switchReply" /\ n = 3
  <2>1. CASE AuthAtPrimary
    <3>1. PICK e \in BOOLEAN :
            /\ Only(MainLinks, "toPrimary", Pkt("auth", 1, e))
            /\ ssl = TRUE \/ tls = FALSE => e = FALSE
      BY <2>1 DEF AuthAtPrimary
    <3>2. primary.seq = 1
      BY <2>1 DEF AuthAtPrimary
    <3> WITNESS "auth" \in {"auth", "switchReply"}, 1 \in {1, 3}, e \in BOOLEAN
    <3> QED  BY <2>1, <3>1, <3>2
  <2>2. CASE ReplyAtPrimary
    BY <2>2 DEF ReplyAtPrimary, On, Counts
  <2>3. ~LateReply
    <3> SUFFICES ASSUME LateReply
                 PROVE  FALSE
      OBVIOUS
    <3>1. ~Calm(MainLinks)
      BY <1>1, Reading, LinkFacts
    <3>2. On(MainLinks, "toPrimary", "switchReply", 4) /\ primary.seq = 3
      BY <3>1 DEF LateReply, Counts
    <3>3. Got("toPrimary").seq = 4
      BY <3>2, OnReads, LinkFacts, KindFacts
    <3> QED  BY <3>2, <3>3 DEF PrimaryAuth, ServerAuth
  <2> QED  BY <1>1, <2>1, <2>2, <2>3, Arrivals, Zenon
<1>5. Got("toPrimary").k = j /\ Got("toPrimary").eof = e
      /\ On(MainLinks, "toPrimary", j, n)
  <2>1. Pkt(j, n, e) \in Wire /\ Pkt(j, n, e).k = j /\ Pkt(j, n, e).eof = e
    BY PktType, KindFacts
  <2>2. Got("toPrimary") = Pkt(j, n, e)
    <3>1. Only(MainLinks, "toPrimary", Pkt(j, n, e))
      BY <1>4
    <3>2. \A p \in Wire :
            Only(MainLinks, "toPrimary", p) => Got("toPrimary") = p
      BY Reading, LinkFacts, Zenon
    <3> QED  BY <2>1, <3>1, <3>2
  <2>3. On(MainLinks, "toPrimary", j, n)
    BY <1>4 DEF On
  <2> QED  BY <2>1, <2>2, <2>3
<1>6. PICK p \in Wire : p = Answer(primary, k) /\ p.k = k /\ p.seq = n + 1
  <2>1. primary.eof \in BOOLEAN
    BY <1>1 DEF Peer
  <2>2. Answer(primary, k) = Pkt(k, n + 1, primary.eof)
    BY <1>4 DEF Answer
  <2> QED  BY <1>3, <2>1, <2>2, PktType
<1>7. /\ net' \in [Links -> Seq(Wire)] /\ Only(MainLinks, "fromPrimary", p)'
      /\ ShadowSituation'
  BY <1>1, <1>2, <1>3, <1>5, <1>6, MainRelays, LinkFacts, KindFacts
<1>8. On(MainLinks, "fromPrimary", k, n + 1)'
  BY <1>6, <1>7, OnlyOn
<1>9. /\ primary' \in Peer /\ primary'.at = After(k) /\ primary'.seq = n + 2
      /\ j = "auth" => primary'.eof = e
      /\ j # "auth" => primary'.eof = primary.eof
  <2> DEFINE q == Moved(primary, After(k), 2)
  <2>1. /\ q \in Peer /\ q.at = After(k) /\ q.seq = n + 2
        /\ q.eof = primary.eof
    <3>1. q \in Peer /\ q.at = After(k) /\ q.eof = primary.eof
      BY <1>1, <1>3, PeerMoves
    <3>2. q.seq = primary.seq + 2
      BY <1>1, <1>3, PeerMoves
    <3> QED  BY <1>4, <3>1, <3>2
  <2>2. primary' = [q EXCEPT !.eof = IF j = "auth" THEN e ELSE q.eof]
    BY <1>2, <1>5
  <2> HIDE DEF q
  <2>3. CASE j = "auth"
    <3>1. primary' = [q EXCEPT !.eof = e]
      BY <2>2, <2>3
    <3> QED  BY <2>1, <2>3, <3>1 DEF Peer
  <2>4. CASE j # "auth"
    <3>1. primary' = [q EXCEPT !.eof = q.eof]
      BY <2>2, <2>4
    <3>2. primary' = q
      BY <2>1, <3>1 DEF Peer
    <3> QED  BY <2>1, <2>4, <3>2
  <2> QED  BY <2>3, <2>4
<1>10. Flags' /\ tls' = tls /\ ssl' = ssl
  BY <1>1 DEF HandshakeTypeOK, Flags
<1>11. Answered(k)'
  BY <1>9 DEF Answered, After, PrimaryAt
<1>12. CASE AuthAtPrimary /\ j = "auth" /\ n = 1
            /\ (ssl = TRUE \/ tls = FALSE => e = FALSE)
  <2>1. Judged'
    BY <1>1, <1>8, <1>9, <1>11, <1>12, SMTT(15)
    DEF AuthAtPrimary, Judged, Awaits, PhaseIn, ClientAt
  <2>2. NoEof'
    BY <1>9, <1>10, <1>12 DEF NoEof
  <2> QED  BY <1>1, <1>7, <1>9, <1>10, <2>1, <2>2
           DEF Exchange, Situation, HandshakeTypeOK, Peers
<1>13. CASE ReplyAtPrimary /\ j = "switchReply" /\ n = 3
  <2>1. k \in {"ok", "err"}
    BY <1>2, <1>13 DEF ReplyAtPrimary, PrimaryAt
  <2>2. JudgedAgain'
    BY <1>1, <1>8, <1>9, <1>11, <1>13, <2>1, SMTT(15)
    DEF ReplyAtPrimary, JudgedAgain, PhaseIn, Counts, ClientAt
  <2>3. NoEof'
    BY <1>9, <1>10, <1>13 DEF Exchange, NoEof
  <2> QED  BY <1>1, <1>7, <1>9, <1>10, <2>2, <2>3
           DEF Exchange, Situation, HandshakeTypeOK, Peers
<1> QED  BY <1>4, <1>12, <1>13, Zenon

\* The primary hangs up on a packet out of order, which only the session sends.
LEMMA PrimaryHangsUpKeeps == Exchange /\ PrimaryHangsUp => Exchange'
<1> SUFFICES ASSUME Exchange, PrimaryHangsUp
             PROVE  Exchange'
  OBVIOUS
<1>1. /\ UNCHANGED <<tls, shadowTLS, phase, ssl, client, shadow>>
      /\ Arrived("toPrimary") /\ Got("toPrimary").seq # primary.seq
      /\ Take("toPrimary") /\ primary' = [primary EXCEPT !.at = "gone"]
      /\ HandshakeTypeOK /\ Peers /\ primary \in Peer
  BY DEF PrimaryHangsUp, Exchange, HandshakeTypeOK, Peers
<1>2. /\ primary' \in Peer /\ primary'.at = "gone"
      /\ primary'.seq = primary.seq /\ primary'.eof = primary.eof
  BY <1>1, PeerAt, StageFacts
<1>3. LateReply
  <2>1. ~AuthAtPrimary
    <3> SUFFICES ASSUME AuthAtPrimary
                 PROVE  FALSE
      OBVIOUS
    <3>1. On(MainLinks, "toPrimary", "auth", 1) /\ primary.seq = 1
      BY DEF AuthAtPrimary, On
    <3>2. Got("toPrimary").seq = 1
      BY <3>1, OnReads, LinkFacts, KindFacts
    <3> QED  BY <1>1, <3>1, <3>2
  <2>2. ~ReplyAtPrimary
    <3> SUFFICES ASSUME ReplyAtPrimary
                 PROVE  FALSE
      OBVIOUS
    <3>1. On(MainLinks, "toPrimary", "switchReply", 3) /\ primary.seq = 3
      BY DEF ReplyAtPrimary, Counts
    <3>2. Got("toPrimary").seq = 3
      BY <3>1, OnReads, LinkFacts, KindFacts
    <3> QED  BY <1>1, <3>1, <3>2
  <2> QED  BY <1>1, <2>1, <2>2, Arrivals
<1>4. On(MainLinks, "toPrimary", "switchReply", 4) /\ Apart
  <2>1. ~Calm(MainLinks)
    BY <1>1, Reading, LinkFacts
  <2> QED  BY <1>1, <1>3, <2>1 DEF LateReply, Apart
<1>5. /\ net' \in [Links -> Seq(Wire)] /\ Calm(MainLinks)'
      /\ ShadowSituation'
  BY <1>1, <1>4, MainTakes, LinkFacts, KindFacts
<1>6. LateReply'
  BY <1>1, <1>2, <1>3, <1>5 DEF LateReply, Counts, ClientAt
<1>7. Flags' /\ tls' = tls /\ ssl' = ssl
  BY <1>1 DEF HandshakeTypeOK, Flags
<1>8. NoEof'
  BY <1>2, <1>7 DEF Exchange, NoEof
<1> QED  BY <1>1, <1>2, <1>5, <1>6, <1>7, <1>8
         DEF Exchange, Situation, HandshakeTypeOK, Peers
-----------------------------------------------------------------------------
(* The proxy's own login to the shadow.                                    *)

\* A packet of the shadow's connection is passed on, taken or sent, and the
\* session of the client is left alone.
LEMMA ShadowRelays ==
  ASSUME Exchange, NEW in \in ShadowLinks, NEW dest \in ShadowLinks, in # dest,
         NEW k \in Kinds, NEW s \in Nat, On(ShadowLinks, in, k, s),
         NEW p \in Wire, Relay(in, dest, p),
         UNCHANGED <<tls, shadowTLS, ssl, client, primary>>,
         phase' = phase \/ (phase \in LoggingIn /\ phase' \in LoggedIn)
  PROVE  /\ net' \in [Links -> Seq(Wire)] /\ Only(ShadowLinks, dest, p)'
         /\ Situation' /\ NoEof' /\ Flags'
<1>1. Only(ShadowLinks, in, Got(in)) /\ Got(in) \in Wire
  BY OnReads, LinkFacts
<1>2. HandshakeTypeOK /\ Situation /\ NoEof
  BY DEF Exchange
<1>3. /\ net' \in [Links -> Seq(Wire)] /\ Only(ShadowLinks, dest, p)'
      /\ \A m \in MainLinks : net'[m] = net[m]
  BY <1>1, <1>2, RelayMoves, LinkFacts, Zenon
<1>4. Situation' /\ NoEof'
  BY <1>2, <1>3, MainKept
<1> QED  BY <1>3, <1>4, FlagsKept

\* A packet of that connection is taken.
LEMMA ShadowTakes ==
  ASSUME Exchange, NEW in \in ShadowLinks,
         NEW k \in Kinds, NEW s \in Nat, On(ShadowLinks, in, k, s), Take(in),
         UNCHANGED <<tls, shadowTLS, ssl, client, primary>>,
         phase' = phase \/ (phase \in LoggingIn /\ phase' \in LoggedIn)
  PROVE  /\ net' \in [Links -> Seq(Wire)] /\ Calm(ShadowLinks)'
         /\ Situation' /\ NoEof' /\ Flags'
<1>1. Only(ShadowLinks, in, Got(in)) /\ Got(in) \in Wire
  BY OnReads, LinkFacts
<1>2. HandshakeTypeOK /\ Situation /\ NoEof
  BY DEF Exchange
<1>3. /\ net' \in [Links -> Seq(Wire)] /\ Calm(ShadowLinks)'
      /\ \A m \in MainLinks : net'[m] = net[m]
  BY <1>1, <1>2, TakeEmpties, LinkFacts, Zenon
<1>4. Situation' /\ NoEof'
  BY <1>2, <1>3, MainKept
<1> QED  BY <1>3, <1>4, FlagsKept

\* A packet is sent on it.
LEMMA ShadowPuts ==
  ASSUME Exchange, NEW dest \in ShadowLinks, Calm(ShadowLinks),
         NEW p \in Wire, Put(dest, p),
         UNCHANGED <<tls, shadowTLS, ssl, client, primary>>,
         phase' = phase \/ (phase \in LoggingIn /\ phase' \in LoggedIn)
  PROVE  /\ net' \in [Links -> Seq(Wire)] /\ Only(ShadowLinks, dest, p)'
         /\ Situation' /\ NoEof' /\ Flags'
<1>1. HandshakeTypeOK /\ Situation /\ NoEof
  BY DEF Exchange
<1>2. /\ net' \in [Links -> Seq(Wire)] /\ Only(ShadowLinks, dest, p)'
      /\ \A m \in MainLinks : net'[m] = net[m]
  BY <1>1, PutFills, LinkFacts
<1>3. Situation' /\ NoEof'
  BY <1>1, <1>2, MainKept
<1> QED  BY <1>2, <1>3, FlagsKept

\* A step that sends and takes no packet.
LEMMA NetStill ==
  ASSUME Exchange, UNCHANGED <<tls, shadowTLS, ssl, client, primary, net>>,
         phase' = phase \/ (phase \in LoggingIn /\ phase' \in LoggedIn)
  PROVE  /\ Situation' /\ NoEof' /\ Flags' /\ net' \in [Links -> Seq(Wire)]
         /\ Calm(ShadowLinks)' <=> Calm(ShadowLinks)
         /\ \A l, k, s : On(ShadowLinks, l, k, s)' <=> On(ShadowLinks, l, k, s)
         /\ seqNum' = seqNum
<1>1. Situation' /\ NoEof'
  BY MainKept DEF Exchange
<1>2. Flags'
  BY FlagsKept
<1>3. /\ Calm(ShadowLinks)' <=> Calm(ShadowLinks)
      /\ \A l, k, s : On(ShadowLinks, l, k, s)' <=> On(ShadowLinks, l, k, s)
      /\ seqNum' = seqNum
  BY DEF Calm, On, Only, seqNum
<1> QED  BY <1>1, <1>2, <1>3 DEF Exchange, HandshakeTypeOK

\* The shadow is dialled.
LEMMA DialShadowKeeps == Exchange /\ DialShadow => Exchange'
<1> SUFFICES ASSUME Exchange, DialShadow
             PROVE  Exchange'
  OBVIOUS
<1>1. /\ UNCHANGED <<tls, shadowTLS, ssl, client, primary, net>>
      /\ phase \in LoggingIn /\ phase' \in LoggedIn /\ phase = "shadowDial"
      /\ shadow \in Peer /\ Peers
  BY DEF DialShadow, LoggingIn, LoggedIn, Exchange, HandshakeTypeOK, Peers
<1>2. /\ Situation' /\ NoEof' /\ Flags' /\ net' \in [Links -> Seq(Wire)]
      /\ Calm(ShadowLinks)' <=> Calm(ShadowLinks)
  BY <1>1, NetStill
<1>3. Calm(ShadowLinks) /\ shadow.seq = 0
  BY <1>1 DEF Exchange, ShadowSituation
<1>4. PICK at \in {"new", "gone"} : shadow' = [shadow EXCEPT !.at = at]
  BY DEF DialShadow
<1>5. shadow' \in Peer /\ shadow'.at = at /\ shadow'.seq = 0
  <2>1. at \in Stages
    BY StageFacts
  <2> QED  BY <1>1, <1>3, <1>4, <2>1, PeerAt
<1>6. ShadowSituation'
  BY <1>2, <1>3, <1>5 DEF DialShadow, ShadowSituation, ShadowAt
<1> QED  BY <1>1, <1>2, <1>5, <1>6 DEF Exchange, HandshakeTypeOK, Peers

\* Where the handler is tells how far the login to the shadow is.
LEMMA ShadowWhereabouts ==
  ASSUME ShadowSituation
  PROVE  /\ phase = "shadowGreet" =>
              \/ /\ On(ShadowLinks, "fromShadow", "greeting", 0)
                 /\ shadow.seq = 1 /\ ShadowAt({"greeted"})
              \/ Calm(ShadowLinks) /\ shadow.seq = 0 /\ ShadowAt({"new"})
         /\ phase = "shadowTLS" =>
              \/ /\ On(ShadowLinks, "toShadow", "sslRequest", 1)
                 /\ shadow.seq = 1 /\ ShadowAt({"greeted"}) /\ shadowTLS = TRUE
              \/ /\ Calm(ShadowLinks) /\ shadow.seq = 2 /\ shadowTLS = TRUE
                 /\ ShadowAt({"upgrade"})
         /\ phase = "shadowResult" =>
              \/ /\ On(ShadowLinks, "toShadow", "auth", seqNum)
                 /\ shadow.seq = seqNum /\ ShadowAt({"greeted", "auth"})
              \/ /\ \E k \in {"ok", "err", "switch", "more"}, s \in Nat :
                      On(ShadowLinks, "fromShadow", k, s)
                 /\ ShadowAt({"in", "rejected", "switch", "more"})
BY DEF ShadowSituation

\* The number of the auth packet the proxy makes.
LEMMA SeqNumType == seqNum \in Nat /\ seqNum \in {1, 2}
BY DEF seqNum

\* The shadow is sent a request for TLS or the auth packet.
LEMMA ShadowArrivals ==
  ASSUME ShadowSituation, Arrived("toShadow")
  PROVE  \/ /\ phase \in {"shadowTLS", "plain"} /\ shadowTLS = TRUE
            /\ On(ShadowLinks, "toShadow", "sslRequest", 1) /\ shadow.seq = 1
            /\ Got("toShadow").k = "sslRequest" /\ Got("toShadow").seq = 1
         \/ /\ phase \in {"shadowResult", "plain"}
            /\ On(ShadowLinks, "toShadow", "auth", seqNum) /\ shadow.seq = seqNum
            /\ Got("toShadow").k = "auth" /\ Got("toShadow").seq = seqNum
<1>1. ~Calm(ShadowLinks)
  BY Reading, LinkFacts
<1>2. \A k \in Kinds, s \in Nat : ~On(ShadowLinks, "fromShadow", k, s)
  BY OnReads, LinkFacts
<1>3. ASSUME NEW k \in Kinds, NEW s \in Nat, On(ShadowLinks, "toShadow", k, s)
      PROVE  Got("toShadow").k = k /\ Got("toShadow").seq = s
  <2>1. ShadowLinks \in SUBSET Links /\ "toShadow" \in ShadowLinks
    BY LinkFacts
  <2> QED  BY <1>3, <2>1, OnReads
<1> QED  BY <1>1, <1>2, <1>3, KindFacts, SeqNumType DEF ShadowSituation

\* The shadow's greeting is answered.
LEMMA ReadShadowGreetingKeeps == Exchange /\ ReadShadowGreeting => Exchange'
<1> SUFFICES ASSUME Exchange, ReadShadowGreeting
             PROVE  Exchange'
  OBVIOUS
<1>1. /\ UNCHANGED <<tls, shadowTLS, ssl, client, primary, shadow>>
      /\ phase \in LoggingIn /\ phase' \in LoggedIn /\ phase = "shadowGreet"
      /\ Arrived("fromShadow") /\ Flags /\ Peers
  BY Zenon DEF ReadShadowGreeting, Config, Servers, LoggingIn, LoggedIn,
         Exchange, HandshakeTypeOK
<1>2. /\ On(ShadowLinks, "fromShadow", "greeting", 0)
      /\ shadow.seq = 1 /\ ShadowAt({"greeted"})
  <2>1. ~Calm(ShadowLinks)
    BY <1>1, Reading, LinkFacts
  <2> QED  BY <1>1, <2>1, ShadowWhereabouts DEF Exchange
<1>3. shadow'.seq = 1 /\ ShadowAt({"greeted"})' /\ seqNum' = seqNum
  BY <1>1, <1>2 DEF ShadowAt, seqNum
<1>4. ASSUME NEW k \in Kinds, NEW s \in Nat,
             Relay("fromShadow", "toShadow", Pkt(k, s, FALSE))
      PROVE  /\ On(ShadowLinks, "toShadow", k, s)' /\ Situation' /\ NoEof'
             /\ Flags' /\ net' \in [Links -> Seq(Wire)]
  <2>1. PICK p \in Wire : p = Pkt(k, s, FALSE) /\ p.k = k /\ p.seq = s
    <3>1. /\ Pkt(k, s, FALSE) \in Wire
          /\ Pkt(k, s, FALSE).k = k /\ Pkt(k, s, FALSE).seq = s
      BY DEF Pkt, Wire
    <3> QED  BY <3>1, Zenon
  <2>2. /\ net' \in [Links -> Seq(Wire)] /\ Only(ShadowLinks, "toShadow", p)'
        /\ Situation' /\ NoEof' /\ Flags'
    BY <1>1, <1>2, <1>4, <2>1, ShadowRelays, LinkFacts, KindFacts, Zenon
  <2>3. On(ShadowLinks, "toShadow", k, s)'
    BY <2>1, <2>2, OnlyOn, Zenon
  <2> QED  BY <2>2, <2>3
<1>5. CASE /\ shadowTLS /\ phase' = "shadowTLS"
           /\ Relay("fromShadow", "toShadow", Pkt("sslRequest", 1, FALSE))
  <2>1. /\ On(ShadowLinks, "toShadow", "sslRequest", 1)' /\ Situation' /\ NoEof'
        /\ Flags' /\ net' \in [Links -> Seq(Wire)]
    BY <1>4, <1>5, KindFacts, Zenon
  <2>2. shadowTLS' = TRUE
    BY <1>1, <1>5 DEF Flags
  <2>3. ShadowSituation'
    BY <1>3, <1>5, <2>1, <2>2 DEF ShadowSituation
  <2> QED  BY <1>1, <2>1, <2>3 DEF Exchange, HandshakeTypeOK, Peers
<1>6. CASE /\ ~shadowTLS /\ phase' = "shadowResult"
           /\ Relay("fromShadow", "toShadow", Pkt("auth", seqNum, FALSE))
  <2>1. seqNum = 1
    BY <1>6 DEF seqNum
  <2>2. /\ On(ShadowLinks, "toShadow", "auth", 1)' /\ Situation' /\ NoEof'
        /\ Flags' /\ net' \in [Links -> Seq(Wire)]
    BY <1>4, <1>6, <2>1, KindFacts, Zenon
  <2>3. ShadowSituation'
    BY <1>3, <1>6, <2>1, <2>2 DEF ShadowSituation, ShadowAt
  <2> QED  BY <1>1, <2>2, <2>3 DEF Exchange, HandshakeTypeOK, Peers
<1>7. CASE Take("fromShadow") /\ phase' = "plain"
  <2>1. /\ net' \in [Links -> Seq(Wire)] /\ Calm(ShadowLinks)'
        /\ Situation' /\ NoEof' /\ Flags'
    BY <1>1, <1>2, <1>7, ShadowTakes, LinkFacts, KindFacts
  <2>2. ShadowSituation'
    BY <1>7, <2>1 DEF ShadowSituation
  <2> QED  BY <1>1, <2>1, <2>2 DEF Exchange, HandshakeTypeOK, Peers
<1> QED  BY <1>5, <1>6, <1>7, Zenon DEF ReadShadowGreeting

\* The proxy authenticates to the shadow over TLS.
LEMMA UpgradeShadowKeeps == Exchange /\ UpgradeShadow => Exchange'
<1> SUFFICES ASSUME Exchange, UpgradeShadow
             PROVE  Exchange'
  OBVIOUS
<1>1. /\ UNCHANGED <<tls, shadowTLS, ssl, client, primary>>
      /\ phase \in LoggingIn /\ phase' \in LoggedIn /\ phase = "shadowTLS"
      /\ shadow.at = "upgrade" /\ Peers /\ shadow \in Peer
  BY Zenon DEF UpgradeShadow, LoggingIn, LoggedIn, Exchange, HandshakeTypeOK, Peers
<1>2. Calm(ShadowLinks) /\ shadow.seq = 2 /\ shadowTLS = TRUE
  BY <1>1, ShadowWhereabouts DEF Exchange, ShadowAt
<1>3. seqNum = 2 /\ seqNum' = 2
  BY <1>1, <1>2 DEF seqNum
<1>4. CASE /\ Put("toShadow", Pkt("auth", seqNum, FALSE))
           /\ shadow' = [shadow EXCEPT !.at = "auth"]
           /\ phase' = "shadowResult"
  <2>1. PICK p \in Wire : /\ p = Pkt("auth", seqNum, FALSE)
                          /\ p.k = "auth" /\ p.seq = 2
    <3>1. /\ Pkt("auth", 2, FALSE) \in Wire
          /\ Pkt("auth", 2, FALSE).k = "auth" /\ Pkt("auth", 2, FALSE).seq = 2
      BY DEF Pkt, Wire, Kinds
    <3> QED  BY <1>3, <3>1, Zenon
  <2>2. /\ net' \in [Links -> Seq(Wire)] /\ Only(ShadowLinks, "toShadow", p)'
        /\ Situation' /\ NoEof' /\ Flags'
    BY <1>1, <1>2, <1>4, <2>1, ShadowPuts, LinkFacts, Zenon
  <2>3. On(ShadowLinks, "toShadow", "auth", 2)'
    BY <2>1, <2>2, OnlyOn, Zenon
  <2>4. shadow' \in Peer /\ shadow'.at = "auth" /\ shadow'.seq = 2
    BY <1>1, <1>2, <1>4, PeerAt, StageFacts
  <2>5. ShadowSituation'
    BY <1>3, <1>4, <2>3, <2>4 DEF ShadowSituation, ShadowAt
  <2> QED  BY <1>1, <2>2, <2>4, <2>5 DEF Exchange, HandshakeTypeOK, Peers
<1>5. CASE phase' = "plain" /\ UNCHANGED <<net, shadow>>
  <2>1. /\ Situation' /\ NoEof' /\ Flags' /\ net' \in [Links -> Seq(Wire)]
        /\ Calm(ShadowLinks)'
    BY <1>1, <1>2, <1>5, NetStill
  <2>2. ShadowSituation'
    BY <1>5, <2>1 DEF ShadowSituation
  <2> QED  BY <1>1, <1>5, <2>1, <2>2 DEF Exchange, HandshakeTypeOK, Peers
<1> QED  BY <1>4, <1>5, Zenon DEF UpgradeShadow

\* The shadow's verdict is read.
LEMMA ReadShadowResultKeeps == Exchange /\ ReadShadowResult => Exchange'
<1> SUFFICES ASSUME Exchange, ReadShadowResult
             PROVE  Exchange'
  OBVIOUS
<1>1. /\ UNCHANGED <<tls, shadowTLS, ssl, client, primary, shadow>>
      /\ phase \in LoggingIn /\ phase' \in LoggedIn /\ phase = "shadowResult"
      /\ phase' \in {"mirror", "plain"}
      /\ Arrived("fromShadow") /\ Take("fromShadow") /\ Peers
  BY DEF ReadShadowResult, Config, Servers, LoggingIn, LoggedIn, Exchange,
         HandshakeTypeOK
<1>2. PICK k \in {"ok", "err", "switch", "more"}, s \in Nat :
        On(ShadowLinks, "fromShadow", k, s)
  <2>1. ~On(ShadowLinks, "toShadow", "auth", seqNum)
    BY <1>1, OnReads, LinkFacts, KindFacts, SeqNumType
  <2> QED  BY <1>1, <2>1, ShadowWhereabouts DEF Exchange
<1>3. k \in Kinds
  BY DEF Kinds
<1>4. /\ net' \in [Links -> Seq(Wire)] /\ Calm(ShadowLinks)'
      /\ Situation' /\ NoEof' /\ Flags'
  BY <1>1, <1>2, <1>3, ShadowTakes, LinkFacts
<1>5. ShadowSituation'
  BY <1>1, <1>4 DEF ShadowSituation
<1> QED  BY <1>1, <1>4, <1>5 DEF Exchange, HandshakeTypeOK, Peers

\* The shadow has hung up.
LEMMA ShadowFailsKeeps == Exchange /\ ShadowFails => Exchange'
<1> SUFFICES ASSUME Exchange, ShadowFails
             PROVE  Exchange'
  OBVIOUS
<1>1. /\ UNCHANGED <<tls, shadowTLS, ssl, client, primary, shadow, net>>
      /\ phase \in LoggingIn /\ phase' \in LoggedIn /\ phase' = "plain"
      /\ phase \in {"shadowGreet", "shadowTLS", "shadowResult"} /\ Peers
  BY DEF ShadowFails, LoggingIn, LoggedIn, Exchange, HandshakeTypeOK
<1>2. /\ Situation' /\ NoEof' /\ Flags' /\ net' \in [Links -> Seq(Wire)]
      /\ Calm(ShadowLinks)' <=> Calm(ShadowLinks)
      /\ \A l, k, s : On(ShadowLinks, l, k, s)' <=> On(ShadowLinks, l, k, s)
      /\ seqNum' = seqNum
  BY <1>1, NetStill
<1>3. ShadowSituation'
  BY <1>1, <1>2 DEF Exchange, ShadowSituation, ShadowAt
<1> QED  BY <1>1, <1>2, <1>3 DEF Exchange, HandshakeTypeOK, Peers

\* The shadow greets.
LEMMA ShadowGreetsKeeps == Exchange /\ ShadowGreets => Exchange'
<1> SUFFICES ASSUME Exchange, ShadowGreets
             PROVE  Exchange'
  OBVIOUS
<1>1. /\ UNCHANGED <<tls, shadowTLS, ssl, client, primary, phase>>
      /\ phase = "shadowGreet" /\ shadow.at = "new" /\ Peers /\ shadow \in Peer
      /\ Put("fromShadow", Pkt("greeting", 0, FALSE))
      /\ shadow' = Moved(shadow, "greeted", 1)
  BY Zenon DEF ShadowGreets, Exchange, HandshakeTypeOK, Peers
<1>2. Calm(ShadowLinks) /\ shadow.seq = 0
  BY <1>1, ShadowWhereabouts DEF Exchange, ShadowAt
<1>3. PICK p \in Wire : /\ p = Pkt("greeting", 0, FALSE)
                        /\ p.k = "greeting" /\ p.seq = 0
  <2>1. /\ Pkt("greeting", 0, FALSE) \in Wire
        /\ Pkt("greeting", 0, FALSE).k = "greeting"
        /\ Pkt("greeting", 0, FALSE).seq = 0
    BY DEF Pkt, Wire, Kinds
  <2> QED  BY <2>1, Zenon
<1>4. /\ net' \in [Links -> Seq(Wire)] /\ Only(ShadowLinks, "fromShadow", p)'
      /\ Situation' /\ NoEof' /\ Flags'
  BY <1>1, <1>2, <1>3, ShadowPuts, LinkFacts, Zenon
<1>5. On(ShadowLinks, "fromShadow", "greeting", 0)'
  BY <1>3, <1>4, OnlyOn, Zenon
<1>6. shadow' \in Peer /\ shadow'.at = "greeted" /\ shadow'.seq = 1
  <2>1. "greeted" \in Stages /\ 1 \in Nat
    BY StageFacts
  <2>2. /\ shadow' \in Peer /\ shadow'.at = "greeted"
        /\ shadow'.seq = shadow.seq + 1
    BY <1>1, <2>1, PeerMoves, Zenon
  <2> QED  BY <1>2, <2>2
<1>7. ShadowSituation'
  BY <1>1, <1>5, <1>6 DEF ShadowSituation, ShadowAt
<1> QED  BY <1>1, <1>4, <1>6, <1>7 DEF Exchange, HandshakeTypeOK, Peers

\* The shadow takes the proxy's request for TLS.
LEMMA ShadowUpgradesKeeps == Exchange /\ ShadowUpgrades => Exchange'
<1> SUFFICES ASSUME Exchange, ShadowUpgrades
             PROVE  Exchange'
  OBVIOUS
<1>1. /\ UNCHANGED <<tls, shadowTLS, ssl, client, primary, phase>>
      /\ Arrived("toShadow") /\ Got("toShadow").k = "sslRequest"
      /\ Take("toShadow") /\ shadow' = Moved(shadow, "upgrade", 1)
      /\ Peers /\ shadow \in Peer /\ ShadowSituation
  BY DEF ShadowUpgrades, Exchange, HandshakeTypeOK, Peers
<1>2. /\ On(ShadowLinks, "toShadow", "sslRequest", 1)
      /\ shadow.seq = 1 /\ shadowTLS = TRUE /\ phase \in {"shadowTLS", "plain"}
  BY <1>1, ShadowArrivals, Zenon
<1>3. /\ net' \in [Links -> Seq(Wire)] /\ Calm(ShadowLinks)'
      /\ Situation' /\ NoEof' /\ Flags'
  BY <1>1, <1>2, ShadowTakes, LinkFacts, KindFacts
<1>4. shadow' \in Peer /\ shadow'.at = "upgrade" /\ shadow'.seq = 2
  <2>1. "upgrade" \in Stages /\ 1 \in Nat
    BY StageFacts
  <2>2. /\ shadow' \in Peer /\ shadow'.at = "upgrade"
        /\ shadow'.seq = shadow.seq + 1
    BY <1>1, <2>1, PeerMoves, Zenon
  <2> QED  BY <1>2, <2>2
<1>5. ShadowSituation'
  BY <1>1, <1>2, <1>3, <1>4 DEF ShadowSituation, ShadowAt
<1> QED  BY <1>1, <1>3, <1>4, <1>5 DEF Exchange, HandshakeTypeOK, Peers

\* The shadow judges the proxy's auth packet.
LEMMA ShadowAuthKeeps == Exchange /\ ShadowAuth => Exchange'
<1> SUFFICES ASSUME Exchange, ShadowAuth
             PROVE  Exchange'
  OBVIOUS
<1>1. /\ UNCHANGED <<tls, shadowTLS, ssl, client, primary, phase>>
      /\ Arrived("toShadow") /\ Got("toShadow").k \in {"auth", "switchReply"}
      /\ Peers /\ shadow \in Peer /\ ShadowSituation
  BY DEF ShadowAuth, ServerAuth, Exchange, HandshakeTypeOK, Peers
<1>2. PICK k \in {"ok", "err", "switch", "more"} :
        /\ Relay("toShadow", "fromShadow", Answer(shadow, k))
        /\ shadow' = Moved(shadow, After(k), 2)
  BY DEF ShadowAuth, ServerAuth
<1>3. /\ k \in Kinds /\ After(k) \in Stages
      /\ After(k) \in {"in", "rejected", "switch", "more"}
  BY DEF Kinds, Stages, After
<1>4. /\ On(ShadowLinks, "toShadow", "auth", seqNum) /\ shadow.seq = seqNum
      /\ phase \in {"shadowResult", "plain"}
  BY <1>1, ShadowArrivals, Zenon
<1>5. PICK s \in Nat : s = shadow.seq + 1
  BY <1>4, SeqNumType
<1>6. PICK p \in Wire : p = Answer(shadow, k) /\ p.k = k /\ p.seq = s
  <2>1. shadow.eof \in BOOLEAN
    BY <1>1 DEF Peer
  <2>2. Answer(shadow, k) = Pkt(k, s, shadow.eof)
    BY <1>5 DEF Answer
  <2> QED  BY <1>3, <2>1, <2>2, PktType
<1>7. /\ net' \in [Links -> Seq(Wire)] /\ Only(ShadowLinks, "fromShadow", p)'
      /\ Situation' /\ NoEof' /\ Flags'
  BY <1>1, <1>2, <1>4, <1>6, ShadowRelays, LinkFacts, KindFacts, SeqNumType
<1>8. On(ShadowLinks, "fromShadow", k, s)'
  BY <1>6, <1>7, OnlyOn
<1>9. shadow' \in Peer /\ shadow'.at = After(k)
  BY <1>1, <1>2, <1>3, PeerMoves
<1>10. ShadowSituation'
  <2>1. ShadowAt({"in", "rejected", "switch", "more"})'
    BY <1>3, <1>9 DEF ShadowAt
  <2> QED  BY <1>1, <1>4, <1>8, <2>1 DEF ShadowSituation
<1> QED  BY <1>1, <1>7, <1>9, <1>10 DEF Exchange, HandshakeTypeOK, Peers

\* The shadow hangs up.
LEMMA ShadowLeavesKeeps == Exchange /\ ShadowLeaves => Exchange'
<1> SUFFICES ASSUME Exchange, ShadowLeaves
             PROVE  Exchange'
  OBVIOUS
<1>1. /\ UNCHANGED <<tls, shadowTLS, ssl, client, primary, net, phase>>
      /\ shadow' = [shadow EXCEPT !.at = "gone"] /\ Peers /\ shadow \in Peer
  BY DEF ShadowLeaves, Exchange, HandshakeTypeOK, Peers
<1>2. /\ Situation' /\ NoEof' /\ Flags' /\ net' \in [Links -> Seq(Wire)]
      /\ Calm(ShadowLinks)' <=> Calm(ShadowLinks)
      /\ \A l, k, s : On(ShadowLinks, l, k, s)' <=> On(ShadowLinks, l, k, s)
      /\ seqNum' = seqNum
  BY <1>1, NetStill
<1>3. shadow' \in Peer /\ shadow'.at = "gone" /\ shadow'.seq = shadow.seq
  BY <1>1, PeerAt, StageFacts
<1>4. ShadowSituation'
  BY <1>1, <1>2, <1>3 DEF Exchange, ShadowSituation, ShadowAt
<1> QED  BY <1>1, <1>2, <1>3, <1>4 DEF Exchange, HandshakeTypeOK, Peers
-----------------------------------------------------------------------------
\* The invariant holds initially.
LEMMA ExchangeInit == HandshakeInit => Exchange
<1> SUFFICES ASSUME HandshakeInit
             PROVE  Exchange
  OBVIOUS
<1>1. Flags /\ net \in [Links -> Seq(Wire)]
  <2>1. Flags
    BY Zenon DEF HandshakeInit, Flags
  <2>2. <<>> \in Seq(Wire)
    OBVIOUS
  <2> QED  BY <2>1, <2>2 DEF HandshakeInit
<1>2. client \in Peer /\ client.at = "new" /\ client.seq = 0
  BY DEF HandshakeInit, Peer, Stages
<1>3. /\ primary \in Peer /\ primary.at = "new" /\ primary.seq = 0
      /\ primary.eof = FALSE
  BY DEF HandshakeInit, Peer, Stages
<1>4. shadow \in Peer /\ shadow.at = "new" /\ shadow.seq = 0
  BY DEF HandshakeInit, Peer, Stages
<1>5. Calm(MainLinks) /\ Calm(ShadowLinks)
  BY DEF HandshakeInit, Calm, MainLinks, ShadowLinks, Links
<1>6. Dialling /\ NoEof
  BY <1>2, <1>3, <1>5
  DEF HandshakeInit, Dialling, PhaseIn, Counts, ClientAt, NoEof
<1>7. ShadowSituation
  BY <1>4, <1>5 DEF HandshakeInit, ShadowSituation, ShadowAt
<1> QED  BY <1>1, <1>2, <1>3, <1>4, <1>6, <1>7
         DEF Exchange, Situation, HandshakeTypeOK, Peers

\* It holds on.
LEMMA ExchangeStutters == Exchange /\ UNCHANGED handshakeVars => Exchange'
<1> SUFFICES ASSUME Exchange, UNCHANGED handshakeVars
             PROVE  Exchange'
  OBVIOUS
<1>1. UNCHANGED <<tls, shadowTLS, phase, ssl, client, primary, shadow, net>>
  BY DEF handshakeVars
<1>2. Situation' /\ NoEof' /\ Flags' /\ net' \in [Links -> Seq(Wire)]
  BY <1>1, NetStill
<1>3. ShadowSituation'
  BY <1>1, ShadowKept DEF Exchange, Apart
<1> QED  BY <1>1, <1>2, <1>3 DEF Exchange, HandshakeTypeOK, Peers

\* Every step of every party keeps the invariant.
LEMMA ExchangeInvariance == HandshakeSpec => []Exchange
<1>1. Exchange /\ [HandshakeNext]_handshakeVars => Exchange'
  <2> SUFFICES ASSUME Exchange, [HandshakeNext]_handshakeVars
               PROVE  Exchange'
    OBVIOUS
  <2>1. CASE HandlerStep
    BY <2>1, DialPrimaryKeeps, ForwardGreetingKeeps, UpgradeClientKeeps,
       ForwardAuthKeeps, ForwardTLSAuthKeeps, ForwardTLSResultKeeps,
       ForwardSwitchKeeps, ForwardSwitchReplyKeeps, ForwardResultKeeps,
       HandshakeFailsKeeps, DialShadowKeeps, ReadShadowGreetingKeeps,
       UpgradeShadowKeeps, ReadShadowResultKeeps, ShadowFailsKeeps,
       SessionRelayKeeps
    DEF HandlerStep
  <2>2. CASE ClientStep
    BY <2>2, ClientGreetedKeeps, ClientAuthOverTLSKeeps, ClientResultKeeps,
       ClientLeavesKeeps
    DEF ClientStep
  <2>3. CASE PrimaryStep
    BY <2>3, PrimaryAuthKeeps, PrimaryHangsUpKeeps, PrimaryLeavesKeeps
    DEF PrimaryStep
  <2>4. CASE ShadowStep
    BY <2>4, ShadowGreetsKeeps, ShadowUpgradesKeeps, ShadowAuthKeeps,
       ShadowLeavesKeeps
    DEF ShadowStep
  <2>5. CASE Finished \/ UNCHANGED handshakeVars
    BY <2>5, ExchangeStutters DEF Finished
  <2> QED  BY <2>1, <2>2, <2>3, <2>4, <2>5 DEF HandshakeNext
<1> QED  BY <1>1, ExchangeInit, PTL DEF HandshakeSpec

\* Every packet of the connection phase that reaches the client, the primary or
\* the shadow has the number its receiver expects, and no connection ever has
\* two packets under way, though handleMySQLSSLUpgrade renumbers packets and
\* authenticateWithShadow numbers its own.  The session loop renumbers nothing:
\* what it passes to the primary is not covered.
THEOREM PacketsInStep == HandshakeSpec => []SeqInStep
<1>1. Exchange => SeqInStep
  <2> SUFFICES ASSUME Exchange
               PROVE  SeqInStep
    OBVIOUS
  <2>1. Situation /\ ShadowSituation /\ client.seq \in Nat
    BY DEF Exchange, HandshakeTypeOK, Peers, Peer
  <2>2. ASSUME NEW K \in {MainLinks, ShadowLinks},
               \/ Calm(K)
               \/ \E l \in K, k \in Kinds, s \in Nat : On(K, l, k, s)
        PROVE  \A m \in K : Len(net[m]) <= 1
    BY <2>2, Reading, OnReads, LinkFacts
  <2>3. \A m \in MainLinks : Len(net[m]) <= 1
    <3>1. \/ Calm(MainLinks)
          \/ \E l \in MainLinks, k \in Kinds, s \in Nat : On(MainLinks, l, k, s)
      <4>1. AuthAtPrimary => On(MainLinks, "toPrimary", "auth", 1)
        BY DEF AuthAtPrimary, On
      <4>2. Dialling \/ NotUpgraded \/ Upgraded => Calm(MainLinks)
        BY DEF Dialling, NotUpgraded, Upgraded
      <4>3. Over => \/ Calm(MainLinks)
                    \/ \E l \in MainLinks, k \in Kinds, s \in Nat :
                         On(MainLinks, l, k, s)
        BY <2>1, LinkFacts, KindFacts DEF Over
      <4>7. LateReply => \/ Calm(MainLinks)
                         \/ \E l \in MainLinks, k \in Kinds, s \in Nat :
                              On(MainLinks, l, k, s)
        BY LinkFacts, KindFacts DEF LateReply
      <4>4. PrimaryGreets \/ GreetsClient \/ AsksTLS \/ Authenticates
              \/ AuthenticatesTLS \/ Judged =>
              \E l \in MainLinks, k \in Kinds, s \in Nat :
                   On(MainLinks, l, k, s)
        BY LinkFacts, KindFacts DEF PrimaryGreets, GreetsClient, AsksTLS,
           Authenticates, AuthenticatesTLS, Judged
      <4>5. SwitchToClient \/ SwitchReplied \/ ReplyAtPrimary \/ JudgedAgain =>
              \E l \in MainLinks, k \in Kinds, s \in Nat :
                   On(MainLinks, l, k, s)
        BY LinkFacts, KindFacts DEF SwitchToClient, SwitchReplied,
           ReplyAtPrimary, JudgedAgain
      <4>6. AuthAtPrimary =>
              \E l \in MainLinks, k \in Kinds, s \in Nat :
                   On(MainLinks, l, k, s)
        BY <4>1, LinkFacts, KindFacts
      <4> QED  BY <2>1, <4>2, <4>3, <4>4, <4>5, <4>6, <4>7 DEF Situation
    <3> QED  BY <2>2, <3>1
  <2>4. \A m \in ShadowLinks : Len(net[m]) <= 1
    <3>1. \/ Calm(ShadowLinks)
          \/ \E l \in ShadowLinks, k \in Kinds, s \in Nat :
               On(ShadowLinks, l, k, s)
      BY <2>1, LinkFacts, KindFacts, SeqNumType DEF ShadowSituation
    <3> QED  BY <2>2, <3>1
  <2>5. Expects(client, "toClient")
    <3> SUFFICES ASSUME Arrived("toClient")
                 PROVE  Got("toClient").seq = client.seq
      BY DEF Expects
    <3>1. GreetsClient \/ SwitchToClient \/ Over
      BY Arrivals
    <3>2. CASE GreetsClient
      BY <3>2, OnReads, LinkFacts, KindFacts, SMTT(15) DEF GreetsClient, Counts
    <3>3. CASE SwitchToClient
      BY <3>3, OnReads, LinkFacts, KindFacts, SMTT(15) DEF SwitchToClient, Counts
    <3>4. CASE Over
      <4>1. ~Calm(MainLinks)
        BY Reading, LinkFacts
      <4>2. ~On(MainLinks, "fromClient", "switchReply", 4)
        <5> SUFFICES ASSUME On(MainLinks, "fromClient", "switchReply", 4)
                     PROVE  FALSE
          OBVIOUS
        <5>1. \A m \in MainLinks : Arrived(m) => m = "fromClient"
          BY OnReads, LinkFacts, KindFacts
        <5> QED  BY <5>1, LinkFacts
      <4>3. PICK k \in Kinds : On(MainLinks, "toClient", k, client.seq)
        BY <3>4, <4>1, <4>2, KindFacts DEF Over
      <4> QED  BY <2>1, <4>3, OnReads, LinkFacts
    <3> QED  BY <3>1, <3>2, <3>3, <3>4
  <2>6. InSession \/ Expects(primary, "toPrimary")
    <3> SUFFICES ASSUME Arrived("toPrimary"), ~InSession
                 PROVE  Got("toPrimary").seq = primary.seq
      BY DEF Expects
    <3>1. CASE AuthAtPrimary
      <4>1. On(MainLinks, "toPrimary", "auth", 1)
        BY <3>1 DEF AuthAtPrimary, On
      <4> QED  BY <3>1, <4>1, OnReads, LinkFacts, KindFacts, SMTT(15) DEF AuthAtPrimary
    <3>2. CASE ReplyAtPrimary
      BY <3>2, OnReads, LinkFacts, KindFacts DEF ReplyAtPrimary, Counts
    <3>3. ~LateReply
      BY DEF LateReply, InSession
    <3> QED  BY <3>1, <3>2, <3>3, Arrivals
  <2>7. Expects(shadow, "toShadow")
    <3> SUFFICES ASSUME Arrived("toShadow")
                 PROVE  Got("toShadow").seq = shadow.seq
      BY DEF Expects
    <3> QED  BY <2>1, ShadowArrivals, Zenon
  <2>8. Links = MainLinks \cup ShadowLinks
    BY DEF Links, MainLinks, ShadowLinks
  <2> QED  BY <2>3, <2>4, <2>5, <2>6, <2>7, <2>8 DEF SeqInStep
<1> QED  BY <1>1, ExchangeInvariance, PTL

\* A client that does not speak TLS with the proxy gets past the handshake, to
\* the login to the shadow and to its session, only if the primary has let it
\* in: forwardMySQLHandshake and handleMySQLSSLUpgrade end it on an ERR packet.
THEOREM LoginComesFirst == HandshakeSpec => []LoginFirst
<1>1. Exchange => LoginFirst
  <2> SUFFICES ASSUME Exchange, phase \in LoggedIn, ~ssl
               PROVE  primary.at = "in"
    BY DEF LoginFirst
  <2>1. ssl = FALSE
    BY DEF Exchange, HandshakeTypeOK, Flags
  <2>2. Over
    BY <2>1, Whereabouts DEF Exchange, LateReply
  <2> QED  BY <2>1, <2>2 DEF Over
<1> QED  BY <1>1, ExchangeInvariance, PTL

\* The primary never takes CLIENT_DEPRECATE_EOF from a client whose auth packet
\* passed removeUnsupportedCapabilities, so that the session that is mirrored
\* has the EOF markers the response parser counts.
THEOREM MarkersKept == HandshakeSpec => []EofStripped
<1>1. Exchange => EofStripped
  <2> SUFFICES ASSUME Exchange, phase = "mirror", tls => ssl
               PROVE  ~primary.eof
    BY DEF EofStripped
  <2>1. ssl = TRUE \/ tls = FALSE
    BY DEF Exchange, HandshakeTypeOK, Flags
  <2>2. primary.eof = FALSE
    BY <2>1 DEF Exchange, NoEof
  <2> QED  BY <2>2
<1> QED  BY <1>1, ExchangeInvariance, PTL
=============================================================================
