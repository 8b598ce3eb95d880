------------------------------ MODULE TCPConns -------------------------------
(***************************************************************************)
(* TCP connections (internal/proxy/transparent.go, socks5.go, router.go):  *)
(* a handler finds out where a captured connection or a SOCKS request      *)
(* goes, dials, answers the SOCKS client, and copies bytes both ways until *)
(* both directions have ended.  One connection per inbound is enough: they *)
(* meet only in the tracker.                                               *)
(***************************************************************************)
EXTENDS Proxy

VARIABLE tcps   \* the handler of each inbound's connection

TCPInbounds == {"transparent", "socks"}

newTCP == [pc |-> "idle", c |-> 0, copying |-> {}, firstErr |-> FALSE]
tcpAt(t, pc) == tcps[t].pc = pc

TCPInit == tcps = [t \in TCPInbounds |-> newTCP]

\* Transparent.handle up to ConnectDest: a lost or blocked name is refused,
\* anything else (after sniffing) is routed.  SOCKS.handle reads a request.
Accept(t) ==
  /\ tcpAt(t, "idle") /\ t \in env.tcp
  /\ \/ /\ t = "transparent" /\ env.seen \intersect {"lost", "blocked"} # {}
        /\ refuse
        /\ tcps' = [tcps EXCEPT ![t].pc = "over"]
     \/ /\ t = "socks" \/ env.seen \intersect {"named", "sniff"} # {}
        /\ tcps' = [tcps EXCEPT ![t].pc = "connect"]
        /\ UNCHANGED trackerVars
  /\ UNCHANGED <<ctx, errors>>

\* The SOCKS request is malformed or late: the client is dropped, unrecorded.
BadRequest(t) ==
  /\ tcpAt(t, "idle") /\ t \in env.tcp /\ t = "socks"
  /\ fails
  /\ tcps' = [tcps EXCEPT ![t].pc = "over"]
  /\ UNCHANGED <<ctx, trackerVars>>

\* Router.connect registers the connection and dials its target.
TCPConnect(t) ==
  /\ tcpAt(t, "connect")
  /\ add
  /\ tcps' = [tcps EXCEPT ![t].pc = "dial", ![t].c = NewConn]
  /\ UNCHANGED <<ctx, errors>>

TCPDialFails(t) ==
  /\ tcpAt(t, "dial")
  /\ failsOrCancelled
  /\ finish(tcps[t].c, "failed")
  /\ tcps' = [tcps EXCEPT ![t].pc = "over", ![t].c = 0]
  /\ UNCHANGED ctx

TCPDialed(t) ==
  /\ tcpAt(t, "dial")
  /\ tcps' = [tcps EXCEPT ![t].pc = IF t = "socks" THEN "answer" ELSE "relay",
                          ![t].copying = IF t = "socks" THEN {} ELSE {"up", "down"}]
  /\ UNCHANGED <<ctx, errors, trackerVars>>

\* SOCKS.handle tells the client that the target is connected.
Answer(t) ==
  /\ tcpAt(t, "answer")
  /\ tcps' = [tcps EXCEPT ![t].pc = "relay", ![t].copying = {"up", "down"}]
  /\ UNCHANGED <<ctx, errors, trackerVars>>

AnswerFails(t) ==
  /\ tcpAt(t, "answer")
  /\ fails
  /\ finish(tcps[t].c, "failed")
  /\ tcps' = [tcps EXCEPT ![t].pc = "over", ![t].c = 0]
  /\ UNCHANGED ctx

\* Router.Relay: one direction ends, by an EOF or by an error; the other side
\* sees the end of the stream and may go on sending.
PipeEnds(t, p) ==
  /\ tcpAt(t, "relay") /\ p \in tcps[t].copying
  /\ \/ /\ fails
        /\ tcps' = [tcps EXCEPT ![t].copying = @ \ {p}, ![t].firstErr = TRUE]
     \/ /\ tcps' = [tcps EXCEPT ![t].copying = @ \ {p}]
        /\ UNCHANGED errors
  /\ UNCHANGED <<ctx, trackerVars>>

RelayEnds(t) ==
  /\ tcpAt(t, "relay") /\ tcps[t].copying = {}
  /\ finish(tcps[t].c, IF tcps[t].firstErr THEN "failed" ELSE "ok")
  /\ tcps' = [tcps EXCEPT ![t].pc = "over", ![t].c = 0]
  /\ UNCHANGED <<ctx, errors>>

TCPNext ==
  \E t \in TCPInbounds :
    \/ Accept(t) \/ BadRequest(t) \/ TCPConnect(t) \/ TCPDialFails(t) \/ TCPDialed(t)
    \/ Answer(t) \/ AnswerFails(t) \/ RelayEnds(t)
    \/ \E p \in {"up", "down"} : PipeEnds(t, p)
=============================================================================
