------------------------------ MODULE Inbounds -------------------------------
(***************************************************************************)
(* The inbounds of one daemon (internal/proxy): captured UDP, a SOCKS5 UDP *)
(* association and TCP connections, which register what they carry with    *)
(* one tracker and end with one context.                                   *)
(***************************************************************************)
EXTENDS UDPFlows, SocksUDP, TCPConns

vars == <<env, ctx, errors, trackerVars, udpVars, socksVars, tcps>>

Init == ProxyInit /\ UDPInit /\ SocksInit /\ TCPInit

\* The daemon is told to stop.
Cancel ==
  /\ ctx = "up" /\ env.stop
  /\ ctx' = "cancelled"
  /\ UNCHANGED <<errors, trackerVars, udpVars, socksVars, tcps>>

Step ==
  \/ UDPNext /\ UNCHANGED <<socksVars, tcps>>
  \/ SocksNext /\ UNCHANGED <<udpVars, tcps>>
  \/ TCPNext /\ UNCHANGED <<udpVars, socksVars>>
  \/ Cancel

Next == Step /\ UNCHANGED env

Spec == Init /\ [][Next]_vars

-----------------------------------------------------------------------------

\* The goroutines that have a connection to finish.
Owners == ({"udp"} \X FlowIds) \union ({"socks"} \X SocksIds) \union ({"tcp"} \X TCPInbounds)
Owns(o) == CASE o[1] = "udp" -> flows[o[2]].c [] o[1] = "socks" -> sflows[o[2]].c [] o[1] = "tcp" -> tcps[o[2]].c

\* Every connection the panel shows as active has one goroutine that will
\* finish it, and the others were finished once (Tracker.finish, at the end of
\* every path of setup, run, flow, finish, handle and Relay).
ConnsAddUp ==
  /\ TrackerAddsUp
  /\ active = {Owns(o) : o \in Owners} \ {0}
  /\ \A o, p \in Owners : Owns(o) = Owns(p) /\ Owns(o) # 0 => o = p

\* The packets the listener took reach their destination in the order they
\* came, none of them twice, over all the flows of a key: what a flow has yet
\* to write comes after what its key's flows have written.
InOrder ==
  \A f \in FlowIds : ~at(f, "gone") =>
    LET todo == <<wire[flows[f].key]>> \o flows[f].pending \o flows[f].in
    IN  \A i, j \in DOMAIN todo : i < j => todo[i] < todo[j]

-----------------------------------------------------------------------------
(* Goroutines run, timers fire, and what waits for a closed socket returns; *)
(* no packet, failure, hangup or stop is assumed to come.                  *)

CONSTANT MaxIds   \* more than any behaviour makes flows of a kind

ASSUME MaxIdsAssumption == \A e \in Envs : e.packets <= MaxIds /\ e.datagrams <= MaxIds

Serve == Queue \/ (ctx = "cancelled" /\ StopServing)
PumpEnds(f) == PumpInDone(f) \/ PumpClosed(f, "down") \/ PumpClosed(f, "up")
AnswersEnd(f) == FinishFlow(f) \/ ReplyGone(f) \/ (sflows[f].up = "closed" /\ ReplyEnds(f))

Fairness ==
  /\ WF_vars(Serve /\ UNCHANGED <<env, socksVars, tcps>>)
  /\ \A f \in 1..MaxIds :
       /\ WF_vars(f \in FlowIds /\ Run(f) /\ UNCHANGED <<env, socksVars, tcps>>)
       /\ WF_vars(f \in FlowIds /\ PumpEnds(f) /\ UNCHANGED <<env, socksVars, tcps>>)
       /\ WF_vars(f \in SocksIds /\ AnswersEnd(f) /\ UNCHANGED <<env, udpVars, tcps>>)
  /\ WF_vars(ClosePort /\ UNCHANGED <<env, udpVars, tcps>>)
  /\ WF_vars(Handler /\ UNCHANGED <<env, udpVars, tcps>>)
  /\ WF_vars(Expiry /\ UNCHANGED <<env, udpVars, tcps>>)

LiveSpec == Spec /\ Fairness

\* When the daemon stops or its listener fails, every captured flow ends, its
\* goroutines and sockets with it; and so do the flows of an association
\* whose context or TCP connection is gone.
FlowsEnd ==
  /\ (ctx = "cancelled" \/ serve.pc = "over") ~> (serve.pc = "over" /\ \A f \in FlowIds : at(f, "gone"))
  /\ (Dead /\ port # "none") ~>
       /\ assocAt("over") /\ ~expiry.on
       /\ \A f \in SocksIds : sflows[f].up # "open" /\ sflows[f].replies \in {"none", "gone"}
=============================================================================
