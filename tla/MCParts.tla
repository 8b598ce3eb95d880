------------------------------ MODULE MCParts -------------------------------
(***************************************************************************)
(* Parts of the daemon that share no state with one another: the processes *)
(* and files it starts and stops with, the FakeIP table, and what one      *)
(* connection, one hello, one query, one name and one listener go through  *)
(* on the wire.  Each runs through scenarios of its own while the others   *)
(* have nothing to do.                                                     *)
(***************************************************************************)
EXTENDS ServiceInstance, FakeIPPool, RelayPath, Sniff, QUICHello, DNSQueries, DoHCache, TailnetListener

CONSTANTS
  s1, s2, d1, d2, r, k1, k2,
  MaxGiven  \* bound on the history counter of the FakeIP table

\* Two starts and a run race for the port; they are stopped; one is killed and
\* its files and rules are found; nothing is in turn; the token is made, by
\* daemons on ports of their own; a daemon is slow; everything fails.
MCChild(s) == IF s = s1 THEN d1 ELSE d2
BaseS == [commands |-> {s1, s2}, patient |-> TRUE, port |-> "fixed", token |-> "other", past |-> {}, faults |-> {}]
AllEnvs ==
  { [BaseS EXCEPT !.commands = {s1, s2, r, k1}],
    [BaseS EXCEPT !.commands = {s1, r, k1}, !.past = {"state"}, !.faults = {"kill"}],
    [BaseS EXCEPT !.commands = {s1, s2, k1, k2}, !.patient = FALSE],
    [BaseS EXCEPT !.commands = {s1, s2, r}, !.port = "any", !.token = "file"],
    [BaseS EXCEPT !.port = "any", !.token = "file", !.faults = {"rotate", "token", "kill"}],
    [BaseS EXCEPT !.token = "file", !.past = {"token"}, !.faults = {"slow", "state", "kernel", "report"}] }

\* A connection through a relay.
BaseP == [at |-> "in", script |-> <<<<"methods","noauth">>, <<"request","connect">>, <<"data","1">>, <<"data","2">>>>, eager |-> TRUE, half |-> TRUE,
  route |-> "relay", token |-> TRUE, source |-> "tailnet", reach |-> "ok", answers |-> <<"pub">>,
  dest |-> [a \in {"pub","pub2","priv"} |-> "ok"], private |-> FALSE, first |-> FALSE, slow |-> FALSE, cut |-> FALSE]
RawP(s) == [BaseP EXCEPT !.at = "mid", !.script = s]
Cls == [a \in {"pub","pub2","priv"} |-> IF a = "priv" THEN "private" ELSE "public"]
AllPaths == {
  BaseP, [BaseP EXCEPT !.eager = FALSE, !.first = TRUE],
  [BaseP EXCEPT !.half = FALSE, !.first = TRUE],
  [BaseP EXCEPT !.route = "reject"],
  [BaseP EXCEPT !.token = FALSE], [BaseP EXCEPT !.source = "public"],
  [BaseP EXCEPT !.reach = "refused"], [BaseP EXCEPT !.reach = "timeout", !.slow = TRUE], [BaseP EXCEPT !.reach = "error"],
  [BaseP EXCEPT !.answers = <<>>], [BaseP EXCEPT !.answers = <<"priv">>], [BaseP EXCEPT !.answers = <<"priv">>, !.private = TRUE],
  [BaseP EXCEPT !.answers = <<"priv","pub","pub2">>, !.dest["pub"] = "refused"],
  [BaseP EXCEPT !.answers = <<"pub","priv">>, !.dest["pub"] = "refused"],
  [BaseP EXCEPT !.dest["pub"] = "silent", !.slow = TRUE],
  [BaseP EXCEPT !.slow = TRUE], [BaseP EXCEPT !.cut = TRUE, !.eager = FALSE],
  [BaseP EXCEPT !.script = <<<<"methods","userpass">>>>],
  [BaseP EXCEPT !.script = <<<<"methods","both">>, <<"request","bind">>>>],
  [BaseP EXCEPT !.script = <<<<"methods","both">>, <<"request","nohost">>>>],
  [BaseP EXCEPT !.script = <<<<"methods","both">>>>, !.half = FALSE],
  [BaseP EXCEPT !.script = <<<<"data","1">>>>],
  RawP(<<<<"methods","noauth">>,<<"request","connect">>>>),
  RawP(<<<<"methods","both">>,<<"auth","wrong">>,<<"request","connect">>>>),
  RawP(<<<<"methods","both">>,<<"request","connect">>>>),
  RawP(<<<<"methods","both">>,<<"auth","right">>,<<"request","associate">>>>),
  RawP(<<<<"methods","both">>,<<"auth","right">>,<<"request","atyp">>>>),
  [RawP(<<<<"methods","both">>,<<"auth","right">>,<<"request","connect">>,<<"data","1">>>>) EXCEPT !.source = "loopback", !.first = TRUE] }

\* Streams of captured connections.
TLS(n, exts) == <<<<"16">>, <<"len", n>>, <<"hello">>, <<"fixed">>>> \o exts
St(cells, head, name, outer) == [cells |-> cells, head |-> head, name |-> name, outer |-> outer]
AllStreams == {
  St(TLS(4, <<<<"sni","a">>, <<"ext">>, <<"more">>>>), 5, "a", ""),
  St(TLS(5, <<<<"ext">>, <<"sni","show">>, <<"ech">>, <<"more">>>>), 7, "", "show"),
  St(TLS(4, <<<<"ech">>, <<"sni","show">>>>), 6, "", "show"),
  St(TLS(3, <<<<"ext">>, <<"16">>, <<"len",1>>, <<"sni","a">>>>), 99, "a", ""),
  St(TLS(9, <<<<"sni","a">>, <<"ext">>,<<"ext">>,<<"ext">>, <<"ext">>, <<"ext">>, <<"ext">>>>), 11, "a", ""),
  St(<<<<"16">>, <<"len",0>>, <<"more">>>>, 2, "", ""),
  St(<<<<"16">>, <<"bad">>, <<"more">>>>, 2, "", ""),
  St(<<<<"method">>, <<"host1","a">>, <<"host2">>, <<"blank">>, <<"more">>>>, 4, "a", ""),
  St(<<<<"method">>, <<"line">>, <<"line">>, <<"host1","a">>, <<"host2">>, <<"blank">>>>, 6, "a", ""),
  St(<<<<"method">>, <<"line">>, <<"blank">>, <<"host1","a">>, <<"host2">>>>, 3, "", ""),
  St(<<<<"letter">>, <<"line">>>>, 1, "", ""),
  St(<<<<"other">>, <<"line">>>>, 1, "", ""),
  St(<<<<"method">>, <<"line">>, <<"line">>, <<"line">>, <<"host1","a">>, <<"host2">>, <<"blank">>>>, 99, "a", ""),
  St(<<>>, 0, "", "") }

\* Datagrams of QUIC clients.
F(o, l) == [off |-> o, len |-> l]
I(frames) == [type |-> "initial", own |-> TRUE, frames |-> frames]
Foreign(frames) == [type |-> "initial", own |-> FALSE, frames |-> frames]
Other == [type |-> "other", own |-> TRUE, frames |-> <<>>]
Short == [type |-> "short", own |-> TRUE, frames |-> <<>>]
AllClients == {
  [hello |-> 3, datagrams |-> {<<I(<<F(0,1), F(2,1)>>)>>, <<I(<<F(1,1)>>), Short>>, <<I(<<>>)>>, <<Short>>, <<Foreign(<<F(0,3)>>)>>}],
  [hello |-> 4, datagrams |-> {<<I(<<F(2,2), F(0,1)>>)>>, <<I(<<F(1,2)>>), Other, I(<<F(3,1)>>)>>, <<I(<<F(0,3)>>)>>, <<I(<<F(0,2), F(9,3)>>), I(<<F(1,3)>>)>>}],
  [hello |-> 6, datagrams |-> {<<I(<<F(0,2)>>), I(<<F(1,4)>>)>>, <<I(<<F(2,3)>>)>>, <<I(<<F(3,3)>>)>>, <<I(<<F(4,2)>>)>>, <<Other>>}] }

\* DNS queries and resolvers.
Q(via, name, type) == [via |-> via, form |-> "good", name |-> name, type |-> type]
Up(who, udp, tcp) == [who |-> who, udp |-> udp, tcp |-> tcp]
BaseD == [queries |-> <<Q("udp", {}, "A"), Q("udp", {"route"}, "HTTPS")>>, spec |-> "given", files |-> <<>>,
  given |-> <<Up("public", <<"stray","ok">>, TRUE)>>, ttls |-> <<3, 2, 4>>, fake |-> TRUE, strip |-> TRUE, anyPort |-> FALSE,
  taken |-> 0, slow |-> FALSE, stop |-> FALSE]
AllFronts == {
  BaseD,
  [BaseD EXCEPT !.queries = <<Q("udp", {"canary"}, "A"), Q("udp", {"block","route"}, "A"), Q("udp", {"route"}, "TXT")>>],
  [BaseD EXCEPT !.queries = <<Q("udp", {}, "AAAA"), Q("tcp", {}, "HTTPS"), Q("tcp", {}, "A")>>, !.stop = TRUE,
     !.given = <<Up("loopback", <<"tc">>, TRUE), Up("public", <<"ok">>, TRUE)>>],
  [BaseD EXCEPT !.queries = <<Q("udp", {}, "A"), Q("tcp", {}, "SVCB"), Q("tcp", {}, "TXT")>>,
     !.given = <<Up("public", <<"stray">>, FALSE), Up("public", <<"tc">>, FALSE), Up("public", <<"stray","tc">>, TRUE)>>],
  [BaseD EXCEPT !.given = <<Up("public", <<>>, TRUE), Up("public", <<"stray">>, FALSE)>>, !.ttls = <<>>, !.fake = FALSE],
  [BaseD EXCEPT !.queries = <<[Q("tcp", {}, "A") EXCEPT !.form = "noquestion"], [Q("tcp", {}, "A") EXCEPT !.form = "bad"], Q("tcp", {}, "A")>>],
  [BaseD EXCEPT !.queries = <<Q("tcp", {}, "A"), Q("tcp", {"route"}, "A"), [Q("udp", {}, "A") EXCEPT !.form = "bad"]>>, !.slow = TRUE],
  [BaseD EXCEPT !.spec = "system", !.files = <<<<Up("loopback", <<"ok">>, TRUE), Up("own", <<"ok">>, TRUE)>>, <<Up("unspecified", <<>>, FALSE), Up("public", <<"ok">>, TRUE)>>>>],
  [BaseD EXCEPT !.spec = "system", !.files = <<<<Up("loopback", <<"ok">>, TRUE)>>, <<>>>>],
  [BaseD EXCEPT !.anyPort = TRUE, !.taken = 1], [BaseD EXCEPT !.anyPort = TRUE, !.taken = 3], [BaseD EXCEPT !.taken = 1] }

\* A name at an exit node, whose records change or whose queries fail.
Z(changes, family, ttl, faults, until) == [changes |-> changes, family |-> family, ttl |-> ttl, faults |-> faults, until |-> until]
AllZones == {Z(2, {"A"}, 0, 0, 5), Z(1, {"AAAA"}, 9, 0, 6), Z(0, {}, 3, 3, 3), Z(1, {"A"}, 0, 2, 3), Z(2, RecordTypes, 0, 0, 2)}

\* The main node.
AllHosts == {[nodes |-> 3, flaps |-> 2, refusals |-> 2, stop |-> s] : s \in BOOLEAN}

\* Scenarios in which a component has nothing to do.
NoService == [BaseS EXCEPT !.commands = {}]
NoPath == [BaseP EXCEPT !.script = <<>>]
NoStream == St(<<>>, 0, "", "")
NoClient == [hello |-> 1, datagrams |-> {}]
NoFront == [BaseD EXCEPT !.queries = <<>>]
NoZone == Z(0, {}, 0, 0, 0)
NoHost == [nodes |-> 0, flaps |-> 0, refusals |-> 0, stop |-> FALSE]

MCEnvs == AllEnvs \cup {NoService}
MCPaths == AllPaths \cup {NoPath}
MCStreams == AllStreams \cup {NoStream}
MCClients == AllClients \cup {NoClient}
MCFronts == AllFronts \cup {NoFront}
MCZones == AllZones \cup {NoZone}
MCHosts == AllHosts \cup {NoHost}

wireVars == <<pathVars, sniffVars, quicVars, dnsVars, dohVars, listenerVars>>
vars == <<serviceVars, poolVars, wireVars>>

Init ==
  \E busy \in {"service", "table", "path", "stream", "client", "front", "zone", "host"} :
    /\ ServiceInit /\ (busy = "service") = (env # NoService)
    /\ PoolInit
    /\ PathInit /\ (busy = "path") = (path # NoPath)
    /\ SniffInit /\ (busy = "stream") = (stream # NoStream)
    /\ QUICInit /\ (busy = "client") = (client # NoClient)
    /\ DNSInit /\ (busy = "front") = (front # NoFront)
    /\ DoHInit /\ (busy = "zone") = (plan # NoZone)
    /\ ListenerInit /\ (busy = "host") = (host # NoHost)

\* The table is used when nothing else is, and up to MaxGiven allocations: more
\* than twice around the ring.
PoolStep ==
  /\ env = NoService /\ path = NoPath /\ stream = NoStream
  /\ client = NoClient /\ front = NoFront /\ plan = NoZone /\ host = NoHost
  /\ \E n \in Names : (fam.byName[n] = NoOff => given < MaxGiven) /\ Get(n)

Next ==
  \/ ServiceNext /\ UNCHANGED <<poolVars, wireVars>>
  \/ PoolStep /\ UNCHANGED <<serviceVars, wireVars>>
  \/ PathNext /\ UNCHANGED <<serviceVars, poolVars, sniffVars, quicVars, dnsVars, dohVars, listenerVars>>
  \/ SniffNext /\ UNCHANGED <<serviceVars, poolVars, pathVars, quicVars, dnsVars, dohVars, listenerVars>>
  \/ QUICNext /\ UNCHANGED <<serviceVars, poolVars, pathVars, sniffVars, dnsVars, dohVars, listenerVars>>
  \/ DNSNext /\ UNCHANGED <<serviceVars, poolVars, pathVars, sniffVars, quicVars, dohVars, listenerVars>>
  \/ DoHNext /\ UNCHANGED <<serviceVars, poolVars, pathVars, sniffVars, quicVars, dnsVars, listenerVars>>
  \/ ListenerNext /\ UNCHANGED <<serviceVars, poolVars, pathVars, sniffVars, quicVars, dnsVars, dohVars>>

Fairness == PathFairness /\ SniffFairness /\ DNSFairness /\ ListenerFairness

Spec == Init /\ [][Next]_vars /\ Fairness
=============================================================================
