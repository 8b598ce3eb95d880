--------------------------- MODULE TailnetListener ---------------------------
(***************************************************************************)
(* The panel's listener on the tailnet (internal/egress/serve_tailnet.go): *)
(* a loop looks every two seconds at the main node, which connects, goes   *)
(* away and is replaced by another, and keeps a listener on it.            *)
(***************************************************************************)
EXTENDS Naturals, FiniteSets

CONSTANTS Hosts   \* scenarios: [nodes, flaps, refusals, stop]

HostsAssumption ==
  \A h \in Hosts : {h.nodes, h.flaps, h.refusals} \subseteq Nat /\ h.stop \in BOOLEAN
ASSUME HostsAssumption

VARIABLES
  host,    \* what is left of the scenario
  node,    \* the main node: its number, 0 before the first, and whether it is on the tailnet
  panelOn, \* serveNode: the node it listens on (0 is none), and whether it runs
  open     \* the nodes a listener is open on

listenerVars == <<host, node, panelOn, open>>

ListenerInit ==
  /\ host \in Hosts
  /\ node = [id |-> 0, up |-> FALSE]
  /\ panelOn = [cur |-> 0, loop |-> "on"]
  /\ open = {}

\* ServeTailnet's node(): none while it is not connected.
Current == IF node.up THEN node.id ELSE 0

PollByPresence ==
  /\ panelOn.loop = "on"
  /\ IF Current = 0
     THEN panelOn' = [panelOn EXCEPT !.cur = 0] /\ open' = open \ {panelOn.cur}
     ELSE /\ panelOn' = [panelOn EXCEPT !.cur = IF @ = 0 THEN Current ELSE @]
          /\ open' = IF panelOn.cur = 0 THEN open \cup {Current} ELSE open
  /\ UNCHANGED <<host, node>>

\* One turn of the loop: the old listener is closed when the node is another
\* one or gone, and there is one on the node it has.
Poll ==
  /\ panelOn.loop = "on"
  /\ panelOn.cur # Current
  /\ panelOn' = [panelOn EXCEPT !.cur = Current]
  /\ open' = (open \ {panelOn.cur}) \cup ({Current} \ {0})
  /\ UNCHANGED <<host, node>>

PollRefused ==
  /\ panelOn.loop = "on" /\ host.refusals > 0
  /\ Current # 0 /\ panelOn.cur # Current
  /\ host' = [host EXCEPT !.refusals = @ - 1]
  /\ panelOn' = [panelOn EXCEPT !.cur = 0]
  /\ open' = open \ {panelOn.cur}
  /\ UNCHANGED node

\* The context ends: the deferred stop closes what is open.
StopListening ==
  /\ panelOn.loop = "on" /\ host.stop
  /\ panelOn' = [cur |-> 0, loop |-> "over"]
  /\ open' = open \ {panelOn.cur}
  /\ UNCHANGED <<host, node>>

\* The node is started anew: the listeners of the old one are closed with it.
NewNode ==
  /\ host.nodes > 0
  /\ host' = [host EXCEPT !.nodes = @ - 1]
  /\ node' = [id |-> node.id + 1, up |-> FALSE]
  /\ open' = open \ {node.id}
  /\ UNCHANGED panelOn

NodeConnects ==
  /\ node.id # 0 /\ ~node.up
  /\ node' = [node EXCEPT !.up = TRUE]
  /\ UNCHANGED <<host, panelOn, open>>

NodeDisconnects ==
  /\ node.up /\ host.flaps > 0
  /\ host' = [host EXCEPT !.flaps = @ - 1]
  /\ node' = [node EXCEPT !.up = FALSE]
  /\ UNCHANGED <<panelOn, open>>

ListenerNext == Poll \/ PollRefused \/ StopListening \/ NewNode \/ NodeConnects \/ NodeDisconnects
ListenerFairness == WF_listenerVars(Poll) /\ WF_listenerVars(NodeConnects)

\* The panel comes to be reachable on the node the daemon has, and on no
\* other, however often that is replaced, also between two looks at it; and
\* nothing is left open when the daemon stops (serve_tailnet.go:13).
PanelFollowsNode ==
  <>[](open = IF panelOn.loop = "over" \/ Current = 0 THEN {} ELSE {Current})
=============================================================================
