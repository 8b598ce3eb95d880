-------------------------------- MODULE Proxy --------------------------------
(***************************************************************************)
(* What the inbounds share (internal/proxy): the tracker, the daemon's     *)
(* context, and a world in which calls on sockets and dialers may fail.    *)
(***************************************************************************)
EXTENDS Tracker

CONSTANTS
  Keys,   \* destinations; a captured flow's is a client and a destination
  Envs    \* what may happen: see Env

\* What an inbound can find out about a destination: a FakeIP with a name, or
\* a bypassed address; a FakeIP whose name is lost; a name on the list of
\* public DoH servers; an address whose first packets must be read.
Seen == {"named", "lost", "blocked", "sniff"}

\* The circumstances of one behaviour: how many packets TransparentUDP and the
\* SOCKS association read and for which destinations, what there is on TCP,
\* what is found out, how many calls fail, and whether the daemon is told to
\* stop.
Env == [packets : Nat, datagrams : Nat, dests : SUBSET Keys, tcp : SUBSET {"transparent", "socks"},
        seen : SUBSET Seen, errors : Nat, stop : BOOLEAN]

ASSUME EnvsAssumption == Envs \subseteq Env

VARIABLES
  env,
  ctx,     \* "up" or "cancelled"
  errors   \* calls that failed so far

ProxyInit ==
  /\ env \in Envs
  /\ ctx = "up"
  /\ errors = 0
  /\ TrackerInit

\* A call fails.
fails == errors < env.errors /\ errors' = errors + 1

\* A call fails by itself or because the context is cancelled.
failsOrCancelled == fails \/ (ctx = "cancelled" /\ UNCHANGED errors)
=============================================================================
