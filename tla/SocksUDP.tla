------------------------------ MODULE SocksUDP -------------------------------
(***************************************************************************)
(* One SOCKS5 UDP association (internal/proxy/socks5_udp.go): the handler  *)
(* reads the client's datagrams and routes each new destination; one       *)
(* goroutine per flow copies the answers; another ends flows that are idle *)
(* or could not be routed.  Whoever ends a flow calls finish, which does   *)
(* its work once.  Datagrams of other senders and malformed ones change    *)
(* nothing and are left out.                                               *)
(***************************************************************************)
EXTENDS Proxy

CONSTANT MaxAssocFlows   \* maxAssocFlows

ASSUME SocksUDPAssumption == MaxAssocFlows \in Nat \ {0}

VARIABLES
  assoc,    \* the handler: datagrams read so far, the flow in hand, closeAll's list
  live,     \* the association's own context is not cancelled
  port,     \* socksAssoc.pc: "none", "open" or "closed"
  expiry,   \* the goroutine expire: its list, and the flow it is ending
  stable,   \* socksAssoc.flows: the flow of a destination, or 0
  sflows    \* every socksFlow made

socksVars == <<assoc, live, port, expiry, stable, sflows>>

\* fin is the state of socksFlow.once; err is what finish will record.
newSocksFlow(k) == [key |-> k, up |-> "none", c |-> 0, fail |-> FALSE, old |-> FALSE,
                    fin |-> "no", err |-> FALSE, replies |-> "none"]

SocksIds == 1..Len(sflows)
SocksListed == {k \in Keys : stable[k] # 0}
assocAt(pc) == assoc.pc = pc

SocksInit ==
  /\ assoc = [pc |-> "listen", n |-> 0, flow |-> 0, todo |-> {}]
  /\ live = TRUE
  /\ port = "none"
  /\ expiry = [on |-> FALSE, flow |-> 0, todo |-> {}]
  /\ stable = [k \in Keys |-> 0]
  /\ sflows = <<>>

Dead == ~live \/ ctx = "cancelled"

-----------------------------------------------------------------------------
(* The association and its end.                                            *)

\* udpAssociate: open the port and tell the client.
Associate ==
  /\ assocAt("listen") /\ env.datagrams > 0
  /\ \/ /\ assoc' = [assoc EXCEPT !.pc = "read"]
        /\ port' = "open"
        /\ expiry' = [expiry EXCEPT !.on = TRUE]
        /\ UNCHANGED errors
     \/ /\ fails
        /\ assoc' = [assoc EXCEPT !.pc = "over"]
        /\ port' = "closed"
        /\ UNCHANGED expiry
  /\ UNCHANGED <<ctx, live, stable, sflows, trackerVars>>

\* The client closes the TCP connection.
Hangup ==
  /\ port = "open" /\ live
  /\ live' = FALSE
  /\ UNCHANGED <<ctx, errors, assoc, port, expiry, stable, sflows, trackerVars>>

\* The goroutine that waits for the context.
ClosePort ==
  /\ port = "open" /\ Dead
  /\ port' = "closed"
  /\ UNCHANGED <<ctx, errors, assoc, live, expiry, stable, sflows, trackerVars>>

-----------------------------------------------------------------------------
(* finish: the first caller takes the flow out of the table and ends it;   *)
(* the others wait for it.                                                 *)

\* Faulty variant: finish without the Once.
callFinishAgain(sf, f, err) ==
  /\ sflows' = [sf EXCEPT ![f].fin = IF sf[f].up = "none" THEN "done" ELSE "busy", ![f].err = err]
  /\ stable' = [k \in Keys |-> IF stable[k] = f THEN 0 ELSE stable[k]]

\* The caller enters finish; the flow's other fields are already in sf.
callFinish(sf, f, err) ==
  IF sf[f].fin # "no" THEN sflows' = sf /\ UNCHANGED stable
  ELSE /\ sflows' = [sf EXCEPT ![f].fin = IF sf[f].up = "none" THEN "done" ELSE "busy", ![f].err = err]
       /\ stable' = [k \in Keys |-> IF stable[k] = f THEN 0 ELSE stable[k]]

\* The rest of once.Do: close the socket, record the connection.
FinishFlow(f) ==
  /\ sflows[f].fin = "busy"
  /\ finish(sflows[f].c, IF sflows[f].err THEN "failed" ELSE "ok")
  /\ sflows' = [sflows EXCEPT ![f].fin = "done", ![f].up = "closed", ![f].c = 0,
                              ![f].err = FALSE, ![f].old = FALSE]
  /\ UNCHANGED <<ctx, errors, assoc, live, port, expiry, stable>>

-----------------------------------------------------------------------------
(* serve and flow.                                                         *)

Datagram(k) ==
  /\ assocAt("read") /\ port = "open" /\ assoc.n < env.datagrams
  /\ \/ /\ stable[k] # 0
        /\ assoc' = [assoc EXCEPT !.n = @ + 1, !.pc = IF sflows[stable[k]].up = "none" THEN "read" ELSE "send",
                                  !.flow = IF sflows[stable[k]].up = "none" THEN 0 ELSE stable[k]]
        /\ UNCHANGED <<stable, sflows>>
     \/ /\ stable[k] = 0 /\ Cardinality(SocksListed) < MaxAssocFlows
        /\ sflows' = Append(sflows, newSocksFlow(k))
        /\ stable' = [stable EXCEPT ![k] = Len(sflows) + 1]
        /\ assoc' = [assoc EXCEPT !.n = @ + 1, !.pc = "route", !.flow = Len(sflows) + 1]
     \/ /\ stable[k] = 0 /\ Cardinality(SocksListed) >= MaxAssocFlows
        /\ assoc' = [assoc EXCEPT !.n = @ + 1]
        /\ UNCHANGED <<stable, sflows>>
  /\ UNCHANGED <<ctx, errors, live, port, expiry, trackerVars>>

\* Router.connect registers the connection.
Route ==
  /\ assocAt("route")
  /\ add
  /\ sflows' = [sflows EXCEPT ![assoc.flow].c = NewConn]
  /\ assoc' = [assoc EXCEPT !.pc = "dial"]
  /\ UNCHANGED <<ctx, errors, live, port, expiry, stable>>

Routed ==
  /\ assocAt("dial")
  /\ sflows' = [sflows EXCEPT ![assoc.flow].up = "open", ![assoc.flow].replies = "read"]
  /\ assoc' = [assoc EXCEPT !.pc = "send"]
  /\ UNCHANGED <<ctx, errors, live, port, expiry, stable, trackerVars>>

\* The rules reject the destination, or it cannot be dialed.
RouteFails ==
  /\ assocAt("dial")
  /\ fails \/ (Dead /\ UNCHANGED errors)
  /\ finish(sflows[assoc.flow].c, "failed")
  /\ sflows' = [sflows EXCEPT ![assoc.flow].fail = TRUE, ![assoc.flow].c = 0]
  /\ assoc' = [assoc EXCEPT !.pc = "read", !.flow = 0]
  /\ UNCHANGED <<ctx, live, port, expiry, stable>>

Send ==
  /\ assocAt("send") /\ sflows[assoc.flow].up = "open"
  /\ sflows' = [sflows EXCEPT ![assoc.flow].old = FALSE]
  /\ assoc' = [assoc EXCEPT !.pc = "read", !.flow = 0]
  /\ UNCHANGED <<ctx, errors, live, port, expiry, stable, trackerVars>>

\* The socket breaks, or somebody has closed it.
SendFails ==
  LET sf == [sflows EXCEPT ![assoc.flow].old = FALSE] IN
  /\ assocAt("send")
  /\ \/ /\ sflows[assoc.flow].up = "open" /\ fails
        /\ callFinish(sf, assoc.flow, TRUE)
     \/ /\ sflows[assoc.flow].up = "closed" /\ UNCHANGED errors
        /\ callFinish(sf, assoc.flow, FALSE)
  /\ assoc' = [assoc EXCEPT !.pc = "ending"]
  /\ UNCHANGED <<ctx, live, port, expiry, trackerVars>>

SendEnded ==
  /\ assocAt("ending") /\ sflows[assoc.flow].fin = "done"
  /\ assoc' = [assoc EXCEPT !.pc = "read", !.flow = 0]
  /\ UNCHANGED <<ctx, errors, live, port, expiry, stable, sflows, trackerVars>>

\* serve finds the port closed; closeAll takes the flows there are ...
CloseAll ==
  /\ assocAt("read") /\ port = "closed"
  /\ assoc' = [assoc EXCEPT !.pc = "closeAll", !.todo = {stable[k] : k \in SocksListed}]
  /\ UNCHANGED <<ctx, errors, live, port, expiry, stable, sflows, trackerVars>>

\* ... and ends them, one after the other.
CloseNext(f) ==
  /\ assocAt("closeAll") /\ f \in assoc.todo
  /\ callFinish(sflows, f, FALSE)
  /\ assoc' = [assoc EXCEPT !.pc = "closing", !.flow = f, !.todo = @ \ {f}]
  /\ UNCHANGED <<ctx, errors, live, port, expiry, trackerVars>>

Closed ==
  /\ assocAt("closing") /\ sflows[assoc.flow].fin = "done"
  /\ assoc' = [assoc EXCEPT !.pc = "closeAll", !.flow = 0]
  /\ UNCHANGED <<ctx, errors, live, port, expiry, stable, sflows, trackerVars>>

\* udpAssociate returns; its deferred calls cancel the context.
AssocOver ==
  /\ assocAt("closeAll") /\ assoc.todo = {}
  /\ assoc' = [assoc EXCEPT !.pc = "over"]
  /\ live' = FALSE
  /\ UNCHANGED <<ctx, errors, port, expiry, stable, sflows, trackerVars>>

-----------------------------------------------------------------------------
(* replies: one flow's answers.                                            *)

ReplyRead(f) ==
  /\ sflows[f].replies = "read" /\ sflows[f].up = "open"
  /\ sflows' = [sflows EXCEPT ![f].old = FALSE]
  /\ UNCHANGED <<ctx, errors, assoc, live, port, expiry, stable, trackerVars>>

\* The socket breaks or is closed, or the port to the client is.
ReplyEnds(f) ==
  LET sf == [sflows EXCEPT ![f].replies = "ending"] IN
  /\ sflows[f].replies = "read"
  /\ \/ /\ sflows[f].up = "open" /\ fails
        /\ callFinish(sf, f, TRUE)
     \/ /\ sflows[f].up = "closed" \/ port = "closed"
        /\ callFinish(sf, f, FALSE)
        /\ UNCHANGED errors
  /\ UNCHANGED <<ctx, assoc, live, port, expiry, trackerVars>>

ReplyGone(f) ==
  /\ sflows[f].replies = "ending" /\ sflows[f].fin = "done"
  /\ sflows' = [sflows EXCEPT ![f].replies = "gone"]
  /\ UNCHANGED <<ctx, errors, assoc, live, port, expiry, stable, trackerVars>>

-----------------------------------------------------------------------------
(* expire.                                                                 *)

\* A flow has been idle for DefaultUDPTimeout, or failed for failedFlowTTL.
Age(f) ==
  /\ ~sflows[f].old /\ sflows[f].fin = "no"
  /\ sflows[f].fail \/ sflows[f].up = "open"
  /\ sflows' = [sflows EXCEPT ![f].old = TRUE]
  /\ UNCHANGED <<ctx, errors, assoc, live, port, expiry, stable, trackerVars>>

\* The tick: collect what has expired ...
Collect ==
  /\ expiry.on /\ expiry.flow = 0 /\ expiry.todo = {}
  /\ expiry' = [expiry EXCEPT !.todo = {f \in {stable[k] : k \in SocksListed} : sflows[f].old}]
  /\ UNCHANGED <<ctx, errors, assoc, live, port, stable, sflows, trackerVars>>

\* ... and end it.
ExpireNext(f) ==
  /\ expiry.flow = 0 /\ f \in expiry.todo
  /\ callFinish(sflows, f, FALSE)
  /\ expiry' = [expiry EXCEPT !.flow = f, !.todo = @ \ {f}]
  /\ UNCHANGED <<ctx, errors, assoc, live, port, trackerVars>>

Expired ==
  /\ expiry.flow # 0 /\ sflows[expiry.flow].fin = "done"
  /\ expiry' = [expiry EXCEPT !.flow = 0]
  /\ UNCHANGED <<ctx, errors, assoc, live, port, stable, sflows, trackerVars>>

ExpireStops ==
  /\ expiry.on /\ expiry.flow = 0 /\ expiry.todo = {} /\ Dead
  /\ expiry' = [expiry EXCEPT !.on = FALSE]
  /\ UNCHANGED <<ctx, errors, assoc, live, port, stable, sflows, trackerVars>>

-----------------------------------------------------------------------------

Handler ==
  \/ Route \/ Routed \/ RouteFails \/ Send \/ SendFails \/ SendEnded
  \/ CloseAll \/ Closed \/ AssocOver
  \/ \E f \in assoc.todo : CloseNext(f)
Expiry == Expired \/ ExpireStops \/ \E f \in expiry.todo : ExpireNext(f)
Answers(f) == ReplyEnds(f) \/ ReplyGone(f) \/ FinishFlow(f)

SocksNext ==
  \/ Associate \/ Hangup \/ ClosePort \/ Handler \/ Expiry \/ Collect
  \/ \E k \in env.dests : Datagram(k)
  \/ \E f \in SocksIds : Answers(f) \/ ReplyRead(f) \/ Age(f)
=============================================================================
