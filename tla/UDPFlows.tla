------------------------------ MODULE UDPFlows -------------------------------
(***************************************************************************)
(* Captured UDP (internal/proxy/udp.go): TransparentUDP.Serve hands each   *)
(* packet to the flow of its client and destination.  A flow's goroutine   *)
(* routes it, opens the two sockets, and starts three pumps; it closes the *)
(* sockets when the flow is done, waits for the pumps and leaves the       *)
(* table.                                                                  *)
(***************************************************************************)
EXTENDS Proxy

CONSTANTS
  MaxFlows,   \* maxUDPFlows
  FlowQueue   \* flowQueue

ASSUME UDPFlowsAssumption == MaxFlows \in Nat \ {0} /\ FlowQueue \in Nat \ {0}

VARIABLES
  serve,    \* TransparentUDP.Serve: packets read so far, and the flow the last one is for
  table,    \* TransparentUDP.flows: the flow of a key, or 0
  flows,    \* every udpFlow made
  wire      \* the last packet of the queue that a key's flows wrote to their destination

udpVars == <<serve, table, flows, wire>>

newFlow(k) == [key |-> k, pc |-> "setup", in |-> <<>>, pending |-> <<>>, idle |-> FALSE, done |-> FALSE,
               up |-> "none", down |-> "none", c |-> 0, firstErr |-> FALSE, pumps |-> {}]

FlowIds == 1..Len(flows)
at(f, pc) == flows[f].pc = pc
Listed == {k \in Keys : table[k] # 0}

UDPInit ==
  /\ serve = [pc |-> "read", n |-> 0, flow |-> 0]
  /\ table = [k \in Keys |-> 0]
  /\ flows = <<>>
  /\ wire = [k \in Keys |-> 0]

-----------------------------------------------------------------------------
(* Serve: packet n is the n-th the listener returns.                       *)

\* ReadFrom, and dispatch as long as it holds mu.
Dispatch(k) ==
  /\ serve.pc = "read" /\ serve.n < env.packets
  /\ \/ /\ table[k] # 0
        /\ serve' = [pc |-> "queue", n |-> serve.n + 1, flow |-> table[k]]
        /\ UNCHANGED <<table, flows>>
     \/ /\ table[k] = 0 /\ Cardinality(Listed) < MaxFlows
        /\ flows' = Append(flows, newFlow(k))
        /\ table' = [table EXCEPT ![k] = Len(flows) + 1]
        /\ serve' = [pc |-> "queue", n |-> serve.n + 1, flow |-> Len(flows) + 1]
     \/ /\ table[k] = 0 /\ Cardinality(Listed) >= MaxFlows
        /\ serve' = [serve EXCEPT !.n = serve.n + 1]
        /\ UNCHANGED <<table, flows>>
  /\ UNCHANGED <<ctx, errors, wire, trackerVars>>

\* The rest of dispatch: the flow may be gone by now.
Queue ==
  LET f == serve.flow IN
  /\ serve.pc = "queue"
  /\ flows' = [flows EXCEPT ![f].idle = FALSE,
                            ![f].in = IF Len(@) < FlowQueue THEN Append(@, serve.n) ELSE @]
  /\ serve' = [serve EXCEPT !.pc = "read", !.flow = 0]
  /\ UNCHANGED <<ctx, errors, table, wire, trackerVars>>

\* The flows in the table are told to end.
closeAll == [f \in FlowIds |-> [flows[f] EXCEPT !.done = @ \/ f \in {table[k] : k \in Listed}]]

\* Faulty variant: Serve returns without closeAll.
StopOnly ==
  /\ serve.pc = "read"
  /\ failsOrCancelled
  /\ serve' = [serve EXCEPT !.pc = "over"]
  /\ UNCHANGED <<ctx, table, flows, wire, trackerVars>>

\* ReadFrom fails, after the context is cancelled or by itself.
StopServing ==
  /\ serve.pc = "read"
  /\ failsOrCancelled
  /\ flows' = closeAll
  /\ serve' = [serve EXCEPT !.pc = "over"]
  /\ UNCHANGED <<ctx, table, wire, trackerVars>>

-----------------------------------------------------------------------------
(* A flow's goroutine: setup.                                              *)

\* BlockDomain has the flow's name on its list: setup records a refusal.  Or
\* Router.connect registers the connection, and goes on to dial its target.
route(f, seen) ==
  \/ /\ seen = "blocked"
     /\ refuse
     /\ flows' = [flows EXCEPT ![f].pc = "failed"]
  \/ /\ seen = "named"
     /\ add
     /\ flows' = [flows EXCEPT ![f].pc = "dial", ![f].c = NewConn]

\* What setup learns from the address: a FakeIP whose name is lost is refused,
\* one with a name and a bypassed address are routed, and anything else is
\* sniffed first.
Setup(f) ==
  /\ at(f, "setup")
  /\ \E seen \in env.seen :
       \/ route(f, seen)
       \/ /\ seen = "lost"
          /\ refuse
          /\ flows' = [flows EXCEPT ![f].pc = "failed"]
       \/ /\ seen = "sniff"
          /\ flows' = [flows EXCEPT ![f].pc = "sniff"]
          /\ UNCHANGED trackerVars
  /\ UNCHANGED <<ctx, errors, serve, table, wire>>

\* sniffQUIC takes a packet, and sees or does not see enough.
SniffPacket(f) ==
  /\ at(f, "sniff") /\ flows[f].in # <<>>
  /\ \E pc \in {"sniff", "sniffed"} :
       flows' = [flows EXCEPT ![f].in = Tail(@), ![f].pending = Append(@, Head(flows[f].in)), ![f].pc = pc]
  /\ UNCHANGED <<ctx, errors, serve, table, wire, trackerVars>>

\* It has seen enough, quicSniffWait has passed, or the context is cancelled.
SniffEnds(f) ==
  /\ at(f, "sniff") \/ at(f, "sniffed")
  /\ \E seen \in {"named", "blocked"} : route(f, seen)
  /\ UNCHANGED <<ctx, errors, serve, table, wire>>

Dialed(f) ==
  /\ at(f, "dial")
  /\ flows' = [flows EXCEPT ![f].pc = "reply", ![f].up = "open"]
  /\ UNCHANGED <<ctx, errors, serve, table, wire, trackerVars>>

\* The rules reject the flow, or the dial fails.
DialFails(f) ==
  /\ at(f, "dial")
  /\ failsOrCancelled
  /\ finish(flows[f].c, "failed")
  /\ flows' = [flows EXCEPT ![f].pc = "failed", ![f].c = 0]
  /\ UNCHANGED <<ctx, serve, table, wire>>

\* Faulty variant: the pumps start as soon as both sockets are there.
ReplyPumping(f) ==
  /\ at(f, "reply")
  /\ flows' = [flows EXCEPT ![f].pc = "pending", ![f].down = "open", ![f].pumps = {"in", "down", "up"}]
  /\ UNCHANGED <<ctx, errors, serve, table, wire, trackerVars>>

\* The socket that answers the client.
Reply(f) ==
  /\ at(f, "reply")
  /\ flows' = [flows EXCEPT ![f].pc = "pending", ![f].down = "open"]
  /\ UNCHANGED <<ctx, errors, serve, table, wire, trackerVars>>

ReplyFails(f) ==
  /\ at(f, "reply")
  /\ fails
  /\ finish(flows[f].c, "failed")
  /\ flows' = [flows EXCEPT ![f].pc = "failed", ![f].up = "closed", ![f].c = 0]
  /\ UNCHANGED <<ctx, serve, table, wire>>

-----------------------------------------------------------------------------
(* run: the pumps, and the end of a flow.                                  *)

write(f, packets) == wire' = [wire EXCEPT ![flows[f].key] = IF packets = <<>> THEN @ ELSE packets[Len(packets)]]

\* The packets that were sniffed go first; then the pumps start.
Pending(f) ==
  /\ at(f, "pending")
  /\ write(f, flows[f].pending)
  /\ flows' = [flows EXCEPT ![f].pc = "pump", ![f].pending = <<>>, ![f].pumps = {"in", "down", "up"}]
  /\ UNCHANGED <<ctx, errors, serve, table, trackerVars>>

\* The pump that empties the queue.
PumpIn(f) ==
  /\ "in" \in flows[f].pumps /\ flows[f].in # <<>> /\ flows[f].up = "open"
  /\ write(f, <<Head(flows[f].in)>>)
  /\ flows' = [flows EXCEPT ![f].in = Tail(@)]
  /\ UNCHANGED <<ctx, errors, serve, table, trackerVars>>

PumpInDone(f) ==
  /\ "in" \in flows[f].pumps /\ flows[f].done
  /\ flows' = [flows EXCEPT ![f].pumps = @ \ {"in"}]
  /\ UNCHANGED <<ctx, errors, serve, table, wire, trackerVars>>

\* The pumps between the two sockets: what they carry only shows in `last`.
PumpSocket(f) ==
  /\ flows[f].pumps \intersect {"down", "up"} # {}
  /\ flows[f].up = "open" /\ flows[f].down = "open"
  /\ flows' = [flows EXCEPT ![f].idle = FALSE]
  /\ UNCHANGED <<ctx, errors, serve, table, wire, trackerVars>>

\* A pump has something to do.
busy(f, p) == p \in flows[f].pumps /\ (p = "in" => flows[f].in # <<>>)

\* A socket breaks: fail keeps the error and closes f.done.
PumpBreaks(f, p) ==
  /\ busy(f, p) /\ flows[f].up = "open"
  /\ fails
  /\ flows' = [flows EXCEPT ![f].pumps = @ \ {p}, ![f].done = TRUE, ![f].firstErr = TRUE]
  /\ UNCHANGED <<ctx, serve, table, wire, trackerVars>>

\* The sockets are closed: fail has nothing to keep.
PumpClosed(f, p) ==
  /\ busy(f, p) /\ flows[f].up = "closed"
  /\ flows' = [flows EXCEPT ![f].pumps = @ \ {p}, ![f].done = TRUE]
  /\ UNCHANGED <<ctx, errors, serve, table, wire, trackerVars>>

\* The timeout has passed since `last`.
Quiet(f) ==
  /\ at(f, "pump") /\ ~flows[f].idle
  /\ flows' = [flows EXCEPT ![f].idle = TRUE]
  /\ UNCHANGED <<ctx, errors, serve, table, wire, trackerVars>>

\* run's loop: the tick finds the flow idle, or the context is cancelled.
Expire(f) ==
  /\ at(f, "pump") /\ ~flows[f].done
  /\ flows[f].idle \/ ctx = "cancelled"
  /\ flows' = [flows EXCEPT ![f].done = TRUE]
  /\ UNCHANGED <<ctx, errors, serve, table, wire, trackerVars>>

\* f.done is closed.
CloseSockets(f) ==
  /\ at(f, "pump") /\ flows[f].done
  /\ flows' = [flows EXCEPT ![f].pc = "wait", ![f].up = "closed", ![f].down = "closed"]
  /\ UNCHANGED <<ctx, errors, serve, table, wire, trackerVars>>

PumpsDone(f) ==
  /\ at(f, "wait") /\ flows[f].pumps = {}
  /\ finish(flows[f].c, IF flows[f].firstErr THEN "failed" ELSE "ok")
  /\ flows' = [flows EXCEPT ![f].pc = "unlist", ![f].c = 0]
  /\ UNCHANGED <<ctx, errors, serve, table, wire>>

\* A flow that could not be routed drops its packets until failedFlowTTL has
\* passed or the context is cancelled.
DropPacket(f) ==
  /\ at(f, "failed") /\ flows[f].in # <<>>
  /\ flows' = [flows EXCEPT ![f].in = Tail(@)]
  /\ UNCHANGED <<ctx, errors, serve, table, wire, trackerVars>>

GiveUp(f) ==
  /\ at(f, "failed")
  /\ flows' = [flows EXCEPT ![f].pc = "unlist"]
  /\ UNCHANGED <<ctx, errors, serve, table, wire, trackerVars>>

\* The deferred function.
Unlist(f) ==
  /\ at(f, "unlist")
  /\ table' = IF table[flows[f].key] = f THEN [table EXCEPT ![flows[f].key] = 0] ELSE table
  /\ flows' = [flows EXCEPT ![f] = 
               [newFlow(flows[f].key) EXCEPT !.pc = "gone", !.up = flows[f].up, !.down = flows[f].down]]
  /\ UNCHANGED <<ctx, errors, serve, wire, trackerVars>>
-----------------------------------------------------------------------------

Run(f) ==
  \/ Setup(f) \/ SniffEnds(f) \/ Dialed(f) \/ DialFails(f)
  \/ Reply(f) \/ ReplyFails(f) \/ Pending(f)
  \/ Expire(f) \/ CloseSockets(f) \/ PumpsDone(f) \/ GiveUp(f) \/ Unlist(f)
Pump(f) ==
  \/ PumpIn(f) \/ PumpInDone(f) \/ PumpSocket(f)
  \/ \E p \in flows[f].pumps : PumpBreaks(f, p) \/ PumpClosed(f, p)

UDPNext ==
  \/ \E k \in env.dests : Dispatch(k)
  \/ Queue \/ StopServing
  \/ \E f \in FlowIds : Run(f) \/ Pump(f) \/ SniffPacket(f) \/ DropPacket(f) \/ Quiet(f)
=============================================================================
