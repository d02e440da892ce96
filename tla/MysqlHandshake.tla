--------------------------- MODULE MysqlHandshake ---------------------------
(***************************************************************************)
(* The connection phase of a MySQL client (proxy.go, handleConnection): the *)
(* handshake with the primary, with the proxy terminating the client's TLS *)
(* if it is configured to (handleMySQLSSLUpgrade) or not                   *)
(* (forwardMySQLHandshake), then the proxy's own login to the shadow       *)
(* (ShadowWorker.Initialize, authenticateWithShadow), up to the point      *)
(* where the session is mirrored ("mirror", see MysqlSession) or merely    *)
(* copied ("plain"), and what the session makes of a login that is still   *)
(* under way then.  Packets carry their sequence number, which both ends   *)
(* of a MySQL connection check, and the flag CLIENT_DEPRECATE_EOF.         *)
(***************************************************************************)
EXTENDS Naturals, Sequences

VARIABLES
  tls,            \* p.tlsConfig # nil
  shadowTLS,      \* p.shadowTLSConfig # nil
  phase,          \* where handleConnection is
  ssl,            \* the client's connection has been upgraded to TLS
  client,         \* the client: where it is, its next sequence number, eof
  primary,        \* the primary, likewise; eof: what it was asked for
  shadow,         \* the shadow, likewise
  net             \* the packets in flight on each connection and direction

handshakeVars ==
  <<tls, shadowTLS, phase, ssl, client, primary, shadow, net>>

Links == {"fromClient", "toClient", "fromPrimary", "toPrimary",
          "fromShadow", "toShadow"}

\* A peer's at: "new", "greeted", "upgrade", "auth", "result", "switch", then
\* "in", "rejected" or, with a login it has not finished, "more"; or "gone".  The client's eof: whether it asks for
\* CLIENT_DEPRECATE_EOF.
HandshakeInit ==
  /\ tls \in BOOLEAN /\ shadowTLS \in BOOLEAN
  /\ phase = "dial" /\ ssl = FALSE
  /\ client \in [at : {"new"}, seq : {0}, eof : BOOLEAN]
  /\ primary = [at |-> "new", seq |-> 0, eof |-> FALSE]
  /\ shadow = [at |-> "new", seq |-> 0, eof |-> FALSE]
  /\ net = [l \in Links |-> <<>>]

Pkt(k, seq, eof) == [k |-> k, seq |-> seq, eof |-> eof]
Arrived(l) == net[l] # <<>>
Got(l) == Head(net[l])

\* readMySQLPacket takes the packet of link `in`, Write puts p on link `out`.
Relay(in, out, p) ==
  net' = [net EXCEPT ![in] = Tail(@), ![out] = Append(@, p)]
Take(in) == net' = [net EXCEPT ![in] = Tail(@)]
Put(out, p) == net' = [net EXCEPT ![out] = Append(@, p)]
Config == UNCHANGED <<tls, shadowTLS>>
Servers == UNCHANGED <<primary, shadow>>
-----------------------------------------------------------------------------
(* handleConnection up to the end of the primary's handshake.              *)

DialPrimary ==
  /\ phase = "dial"
  /\ phase' \in {"greet", "ended"}
  /\ primary' = IF phase' = "greet"
                   THEN [primary EXCEPT !.at = "greeted", !.seq = 1]
                   ELSE primary
  /\ net' = IF phase' = "greet"
              THEN [net EXCEPT !["fromPrimary"] = <<Pkt("greeting", 0, FALSE)>>]
              ELSE net
  /\ UNCHANGED <<tls, shadowTLS, ssl, client, shadow>>

\* modifyHandshakeForSSL adds CLIENT_SSL if the proxy terminates TLS.
ForwardGreeting ==
  /\ phase = "greet"
  /\ Arrived("fromPrimary")
  /\ Relay("fromPrimary", "toClient", Got("fromPrimary"))
  /\ phase' = "clientAuth"
  /\ Config /\ Servers /\ UNCHANGED <<ssl, client>>

\* Mutant: the flags are forwarded as they are.
KeepCapabilities(p) == p

removeUnsupportedCapabilities(p) == [p EXCEPT !.eof = FALSE]

\* The client asks for TLS and the proxy offers it: tls.Server(..).Handshake().
UpgradeClient ==
  /\ phase = "clientAuth"
  /\ tls
  /\ Arrived("fromClient") /\ Got("fromClient").k = "sslRequest"
  /\ Take("fromClient")
  /\ \/ /\ client.at = "upgrade"
        /\ phase' = "tlsAuth"
        /\ ssl' = TRUE
        /\ client' = [client EXCEPT !.at = "auth"]
     \/ /\ phase' = "ended"
        /\ UNCHANGED <<ssl, client>>
  /\ Config /\ Servers

\* The auth packet came without TLS.  With TLS configured it is passed on
\* unchanged (handleMySQLSSLUpgrade), else its capabilities are stripped.
ForwardAuth ==
  /\ phase = "clientAuth"
  /\ Arrived("fromClient") /\ Got("fromClient").k = "auth"
  /\ LET p == Got("fromClient")
     IN  Relay("fromClient", "toPrimary",
               IF tls THEN p ELSE removeUnsupportedCapabilities(p))
  /\ phase' = "result"
  /\ Config /\ Servers /\ UNCHANGED <<ssl, client>>

\* Mutant: the sequence number the client chose is kept.
KeepAuthSeq(p) == p

\* The primary has not seen the SSL request, the client has counted it.
FixAuthSeq(p) == [p EXCEPT !.seq = 1]

FixResultSeq(p) == [p EXCEPT !.seq = 3]

ForwardTLSAuth ==
  /\ phase = "tlsAuth"
  /\ Arrived("fromClient")
  /\ Relay("fromClient", "toPrimary",
           FixAuthSeq(removeUnsupportedCapabilities(Got("fromClient"))))
  /\ phase' = "tlsResult"
  /\ Config /\ Servers /\ UNCHANGED <<ssl, client>>

\* Whatever the result is, an error or an auth switch included, the session
\* goes on.
ForwardTLSResult ==
  /\ phase = "tlsResult"
  /\ Arrived("fromPrimary")
  /\ Relay("fromPrimary", "toClient", FixResultSeq(Got("fromPrimary")))
  /\ phase' = "shadowDial"
  /\ Config /\ Servers /\ UNCHANGED <<ssl, client>>

ForwardSwitch ==
  /\ phase = "result"
  /\ Arrived("fromPrimary") /\ Got("fromPrimary").k = "switch"
  /\ Relay("fromPrimary", "toClient", Got("fromPrimary"))
  /\ phase' = "switchClient"
  /\ Config /\ Servers /\ UNCHANGED <<ssl, client>>

ForwardSwitchReply ==
  /\ phase = "switchClient"
  /\ Arrived("fromClient")
  /\ Relay("fromClient", "toPrimary", Got("fromClient"))
  /\ phase' = "finalResult"
  /\ Config /\ Servers /\ UNCHANGED <<ssl, client>>

\* Mutant: an ERR packet is passed on and the session goes on.
AlwaysAccepted(p) == TRUE

AuthAccepted(p) == p.k # "err"

ForwardResult ==
  /\ Arrived("fromPrimary")
  /\ \/ phase = "result" /\ Got("fromPrimary").k # "switch"
     \/ phase = "finalResult"
  /\ Relay("fromPrimary", "toClient", Got("fromPrimary"))
  /\ phase' = IF AuthAccepted(Got("fromPrimary")) THEN "shadowDial" ELSE "ended"
  /\ Config /\ Servers /\ UNCHANGED <<ssl, client>>

\* The peer that is read from is gone, or the one that its packet goes to.
HandshakeFails ==
  /\ \/ /\ phase \in {"clientAuth", "tlsAuth", "switchClient"}
        /\ \/ client.at = "gone"
           \/ primary.at = "gone" /\ Arrived("fromClient")
     \/ /\ phase \in {"greet", "tlsResult", "result", "finalResult"}
        /\ \/ primary.at = "gone"
           \/ client.at = "gone" /\ Arrived("fromPrimary")
  /\ phase' = "ended"
  /\ UNCHANGED <<tls, shadowTLS, ssl, client, primary, shadow, net>>
-----------------------------------------------------------------------------
(* ShadowWorker.Initialize and authenticateWithShadow.                     *)

DialShadow ==
  /\ phase = "shadowDial"
  /\ phase' \in {"shadowGreet", "plain"}
  /\ shadow' = IF phase' = "shadowGreet" THEN [shadow EXCEPT !.at = "new"]
                                      ELSE [shadow EXCEPT !.at = "gone"]
  /\ UNCHANGED <<tls, shadowTLS, ssl, client, primary, net>>

\* seqNum: 2 after the SSL request, else 1.
seqNum == IF shadowTLS THEN 2 ELSE 1

\* The handshake is read; no scramble in it is an error.
ReadShadowGreeting ==
  /\ phase = "shadowGreet"
  /\ Arrived("fromShadow")
  /\ \/ /\ shadowTLS
        /\ Relay("fromShadow", "toShadow", Pkt("sslRequest", 1, FALSE))
        /\ phase' = "shadowTLS"
     \/ /\ ~shadowTLS
        /\ Relay("fromShadow", "toShadow", Pkt("auth", seqNum, FALSE))
        /\ phase' = "shadowResult"
     \/ /\ Take("fromShadow")
        /\ phase' = "plain"
  /\ Config /\ Servers /\ UNCHANGED <<ssl, client>>

\* tls.Client(..).Handshake(), then the auth packet.
UpgradeShadow ==
  /\ phase = "shadowTLS"
  /\ shadow.at = "upgrade"
  /\ \/ /\ Put("toShadow", Pkt("auth", seqNum, FALSE))
        /\ shadow' = [shadow EXCEPT !.at = "auth"]
        /\ phase' = "shadowResult"
     \/ /\ phase' = "plain"
        /\ UNCHANGED <<net, shadow>>
  /\ UNCHANGED <<tls, shadowTLS, ssl, client, primary>>

\* An ERR packet and an auth switch, which is not supported, end the login;
\* whatever else the shadow answers is taken for an OK packet.
ReadShadowResult ==
  /\ phase = "shadowResult"
  /\ Arrived("fromShadow")
  /\ Take("fromShadow")
  /\ phase' = IF Got("fromShadow").k \in {"err", "switch"}
                 THEN "plain" ELSE "mirror"
  /\ Config /\ Servers /\ UNCHANGED <<ssl, client>>

\* Mutant: a client that cannot be mirrored is not served.
ShadowRequired ==
  /\ phase \in {"shadowGreet", "shadowTLS", "shadowResult"}
  /\ shadow.at = "gone"
  /\ phase' = "ended"
  /\ UNCHANGED <<tls, shadowTLS, ssl, client, primary, shadow, net>>

\* A read from the shadow fails: the client is served without it.
ShadowFails ==
  /\ phase \in {"shadowGreet", "shadowTLS", "shadowResult"}
  /\ shadow.at = "gone"
  /\ phase' = "plain"
  /\ UNCHANGED <<tls, shadowTLS, ssl, client, primary, shadow, net>>

\* The session has begun.  A client that still answers an auth switch is read by
\* proxyWithMirrorWorker or copied by proxyWithoutShadow: its packet reaches the
\* primary as it is.
SessionRelay ==
  /\ phase \in {"mirror", "plain"}
  /\ Arrived("fromClient")
  /\ Relay("fromClient", "toPrimary", Got("fromClient"))
  /\ Config /\ Servers /\ UNCHANGED <<phase, ssl, client>>
-----------------------------------------------------------------------------
(* The peers, as the MySQL protocol has them.  seq is the number the next  *)
(* packet of the exchange must have, whoever sends it.                     *)

\* A packet is received and answered with one of kind k.
Answer(peer, k) == Pkt(k, peer.seq + 1, peer.eof)
\* The peer has received or sent n packets and is now at `at`.
Moved(peer, at, n) == [peer EXCEPT !.at = at, !.seq = @ + n]

ClientGreeted ==
  /\ client.at = "new" /\ Arrived("toClient")
  /\ \/ /\ tls
        /\ Relay("toClient", "fromClient", Answer(client, "sslRequest"))
        /\ client' = Moved(client, "upgrade", 2)
     \/ /\ Relay("toClient", "fromClient", Answer(client, "auth"))
        /\ client' = Moved(client, "result", 2)
  /\ Config /\ Servers /\ UNCHANGED <<phase, ssl>>

ClientAuthOverTLS ==
  /\ client.at = "auth"
  /\ Put("fromClient", Pkt("auth", client.seq, client.eof))
  /\ client' = Moved(client, "result", 1)
  /\ Config /\ Servers /\ UNCHANGED <<phase, ssl>>

ClientResult ==
  /\ client.at = "result" /\ Arrived("toClient")
  /\ IF Got("toClient").k = "switch"
       THEN /\ Relay("toClient", "fromClient", Answer(client, "switchReply"))
            /\ client' = Moved(client, "result", 2)
       ELSE /\ Take("toClient")
            /\ client' = Moved(client, IF Got("toClient").k = "ok"
                                         THEN "in" ELSE "rejected", 1)
  /\ Config /\ Servers /\ UNCHANGED <<phase, ssl>>

ClientLeaves ==
  /\ client.at \notin {"gone", "in"}
  /\ client' = [client EXCEPT !.at = "gone"]
  /\ Config /\ Servers /\ UNCHANGED <<phase, ssl, net>>

\* A server answers an auth packet that came on link `to`.
ServerAuth(peer, to, from, k) ==
  /\ peer.at \in {"greeted", "auth", "switch"}
  /\ Arrived(to) /\ Got(to).k \in {"auth", "switchReply"}
  /\ Got(to).seq = peer.seq
  /\ k = "switch" => peer.at # "switch"
  /\ Relay(to, from, Answer(peer, k))

\* "more": AuthMoreData, or any other packet that is none of the three.
After(k) == CASE k = "ok" -> "in" [] k = "err" -> "rejected"
              [] k \in {"switch", "more"} -> k

PrimaryAuth ==
  /\ \E k \in {"ok", "err", "switch"} :
       /\ ServerAuth(primary, "toPrimary", "fromPrimary", k)
       /\ primary' = [Moved(primary, After(k), 2) EXCEPT !.eof =
                        IF Got("toPrimary").k = "auth" THEN Got("toPrimary").eof
                                                       ELSE @]
  /\ UNCHANGED <<tls, shadowTLS, phase, ssl, client, shadow>>

\* A packet out of order ends the connection.
PrimaryHangsUp ==
  /\ primary.at # "gone"
  /\ Arrived("toPrimary") /\ Got("toPrimary").seq # primary.seq
  /\ Take("toPrimary")
  /\ primary' = [primary EXCEPT !.at = "gone"]
  /\ UNCHANGED <<tls, shadowTLS, phase, ssl, client, shadow>>

PrimaryLeaves ==
  /\ primary.at \notin {"new", "in", "gone"}
  /\ primary' = [primary EXCEPT !.at = "gone"]
  /\ UNCHANGED <<tls, shadowTLS, phase, ssl, client, shadow, net>>

ShadowGreets ==
  /\ phase = "shadowGreet" /\ shadow.at = "new"
  /\ Put("fromShadow", Pkt("greeting", 0, FALSE))
  /\ shadow' = Moved(shadow, "greeted", 1)
  /\ UNCHANGED <<tls, shadowTLS, phase, ssl, client, primary>>

ShadowUpgrades ==
  /\ shadow.at = "greeted"
  /\ Arrived("toShadow") /\ Got("toShadow").k = "sslRequest"
  /\ Take("toShadow")
  /\ shadow' = Moved(shadow, "upgrade", 1)
  /\ UNCHANGED <<tls, shadowTLS, phase, ssl, client, primary>>

ShadowAuth ==
  /\ \E k \in {"ok", "err", "switch", "more"} :
       /\ ServerAuth(shadow, "toShadow", "fromShadow", k)
       /\ shadow' = Moved(shadow, After(k), 2)
  /\ UNCHANGED <<tls, shadowTLS, phase, ssl, client, primary>>

ShadowLeaves ==
  /\ phase \in {"shadowGreet", "shadowTLS", "shadowResult"}
  /\ shadow.at # "gone"
  /\ shadow' = [shadow EXCEPT !.at = "gone"]
  /\ UNCHANGED <<tls, shadowTLS, phase, ssl, client, primary, net>>
-----------------------------------------------------------------------------
HandlerStep ==
  \/ DialPrimary \/ ForwardGreeting \/ UpgradeClient \/ ForwardAuth
  \/ ForwardTLSAuth \/ ForwardTLSResult
  \/ ForwardSwitch \/ ForwardSwitchReply \/ ForwardResult \/ HandshakeFails
  \/ DialShadow \/ ReadShadowGreeting \/ UpgradeShadow \/ ReadShadowResult
  \/ ShadowFails \/ SessionRelay

ClientStep ==
  ClientGreeted \/ ClientAuthOverTLS \/ ClientResult \/ ClientLeaves

PrimaryStep == PrimaryAuth \/ PrimaryHangsUp \/ PrimaryLeaves

ShadowStep == ShadowGreets \/ ShadowUpgrades \/ ShadowAuth \/ ShadowLeaves

Settled == phase \in {"mirror", "plain", "ended"}

Finished == Settled /\ UNCHANGED handshakeVars

HandshakeNext ==
  HandlerStep \/ ClientStep \/ PrimaryStep \/ ShadowStep \/ Finished

HandshakeSpec == HandshakeInit /\ [][HandshakeNext]_handshakeVars

\* Fairness: the handler runs when it can.  Nothing is assumed of the peers.
FairHandshakeSpec == HandshakeSpec /\ WF_handshakeVars(HandlerStep)
-----------------------------------------------------------------------------
Expects(peer, l) == Arrived(l) => Got(l).seq = peer.seq

InSession == phase \in {"mirror", "plain"}

\* Both ends of every connection speak in turn, and every packet that
\* handleMySQLSSLUpgrade, forwardMySQLHandshake and authenticateWithShadow pass
\* on or make has the sequence number its receiver expects, though the two sides
\* count differently when the proxy terminates TLS (only the client has seen the
\* SSL request).  What the session loop passes on is left out: the reply to an
\* auth switch that came after a TLS upgrade is numbered 4 where the primary
\* expects 3.
SeqInStep ==
  /\ \A l \in Links : Len(net[l]) <= 1
  /\ Expects(client, "toClient")
  /\ InSession \/ Expects(primary, "toPrimary")
  /\ Expects(shadow, "toShadow")

LoggedIn == {"shadowDial", "shadowGreet", "shadowTLS", "shadowResult",
             "mirror", "plain"}

\* A client without TLS gets to the shadow, and to its session, only after the
\* primary has let it in, be it after an auth switch.
LoginFirst == phase \in LoggedIn /\ ~ssl => primary.at = "in"

\* The response parser relies on EOF markers: no mirrored session negotiates
\* them away, if the client uses TLS whenever the proxy offers it.
EofStripped == phase = "mirror" /\ (tls => ssl) => ~primary.eof

\* The handler waits for a shadow that neither goes on nor hangs up.
ShadowSilent ==
  /\ phase \in {"shadowGreet", "shadowTLS", "shadowResult"}
  /\ ~Arrived("fromShadow")
  /\ shadow.at \notin {"upgrade", "gone"}

\* A client the primary has let in gets its session, with or without shadow: a
\* shadow that refuses, fails or hangs up at any point of authenticateWithShadow
\* costs it nothing.  Only one that falls silent for good keeps it waiting: the
\* reads of that login have no deadline.
SessionStarts == client.at = "in" ~> (InSession \/ []ShadowSilent)
=============================================================================
