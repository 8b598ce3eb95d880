----------------------------- MODULE DNSQueries ------------------------------
(***************************************************************************)
(* The DNS front end (internal/dnsserver/server.go): queries that come as  *)
(* datagrams, each with a goroutine of its own, and queries that follow    *)
(* each other on a TCP connection are answered from the rules or from the  *)
(* first upstream resolver that answers.                                   *)
(***************************************************************************)
EXTENDS Sequences, Naturals, FiniteSets, FiniteSetsExt, SequencesExt

CONSTANTS
  Fronts,      \* scenarios: see DNSAssumption
  MaxAttempts  \* Listen's attempts at a port

\* queries (none: the front end is off): via, form, name (the lists the name is on) and type; spec: where
\* the upstreams come from; files: the resolvers each resolv.conf names;
\* given: the ones in the configuration; a resolver is who it is, what it
\* sends back over UDP, and whether it answers over TCP; ttls: of the answers;
\* fake, strip: the Server's settings; taken: how often the TCP port is taken;
\* anyPort: port 0; slow: a connection's deadline passes; stop: the daemon is
\* told to stop.
Resolvers == [who : {"public", "loopback", "own", "unspecified"}, udp : Seq({"stray", "ok", "tc"}), tcp : BOOLEAN]
DNSAssumption ==
  /\ MaxAttempts \in Nat \ {0}
  /\ \A f \in Fronts :
       /\ f.queries \in Seq([via : {"udp", "tcp"}, form : {"good", "noquestion", "bad"},
                               name : SUBSET {"canary", "block", "route"}, type : {"A", "AAAA", "HTTPS", "SVCB", "TXT"}])
       /\ f.given \in Seq(Resolvers) /\ f.files \in Seq(Seq(Resolvers))
       /\ f.spec \in {"system", "given"} /\ f.ttls \in Seq(Nat) /\ f.taken \in Nat
       /\ {f.fake, f.strip, f.anyPort, f.slow, f.stop} \subseteq BOOLEAN
ASSUME DNSAssumption

VARIABLES
  front,    \* the scenario
  bound,    \* Listen: where it is, its attempts and its sockets
  job,      \* the handler of each query
  tcpConn,  \* the TCP connection: open, its deadline, the query in hand
  serving,  \* the context of Serve
  responses,  \* the record: what clients got, in order
  observed  \* the record: what Observe saw

dnsVars == <<front, bound, job, tcpConn, serving, responses, observed>>

Queries == DOMAIN front.queries
newJob == [pc |-> "wait", up |-> 1, net |-> "udp", left |-> <<>>, resp |-> [code |-> "none"]]

DNSInit ==
  /\ front \in Fronts
  /\ bound = [pc |-> IF Queries = {} THEN "off" ELSE "udp", attempt |-> 0, udp |-> FALSE, tcp |-> FALSE]
  /\ job = [i \in Queries |-> newJob]
  /\ tcpConn = [open |-> TRUE, late |-> FALSE, at |-> 0]
  /\ serving = "no"
  /\ responses = <<>> /\ observed = <<>>

-----------------------------------------------------------------------------
(* The upstreams.                                                          *)

usable(u) == u.who \notin {"loopback", "own", "unspecified"}
usableIn(list) ==
  LET kept[n \in 0..Len(list)] ==
        IF n = 0 THEN <<>> ELSE IF usable(list[n]) THEN Append(kept[n - 1], list[n]) ELSE kept[n - 1]
  IN kept[Len(list)]

\* The first resolv.conf that names a usable resolver.
systemResolvers ==
  LET lists == [i \in DOMAIN front.files |-> usableIn(front.files[i])]
      named == {i \in DOMAIN lists : lists[i] # <<>>}
  IN IF named = {} THEN <<>> ELSE lists[Min(named)]

Upstreams == IF front.spec = "system" THEN systemResolvers ELSE front.given

-----------------------------------------------------------------------------
(* Listen and Serve.                                                       *)

ListenUDP ==
  /\ bound.pc = "udp"
  /\ bound' = [bound EXCEPT !.pc = "tcp", !.udp = TRUE]
  /\ UNCHANGED <<front, job, tcpConn, serving, responses, observed>>

\* The TCP port of that number may be taken: with port 0, another is tried.
ListenTCPOnce ==
  /\ bound.pc = "tcp"
  /\ bound' = IF bound.attempt < front.taken
              THEN [bound EXCEPT !.pc = "failed", !.udp = FALSE]
              ELSE [bound EXCEPT !.pc = "bound", !.tcp = TRUE]
  /\ UNCHANGED <<front, job, tcpConn, serving, responses, observed>>

ListenTCP ==
  /\ bound.pc = "tcp"
  /\ bound' = IF bound.attempt >= front.taken THEN [bound EXCEPT !.pc = "bound", !.tcp = TRUE]
              ELSE [bound EXCEPT !.udp = FALSE, !.attempt = @ + 1,
                      !.pc = IF front.anyPort /\ bound.attempt + 1 < MaxAttempts THEN "udp" ELSE "failed"]
  /\ UNCHANGED <<front, job, tcpConn, serving, responses, observed>>

StartServing ==
  /\ bound.pc = "bound" /\ serving = "no"
  /\ Upstreams # <<>>
  /\ serving' = "yes"
  /\ UNCHANGED <<front, bound, job, tcpConn, responses, observed>>

\* The context ends: both sockets are closed.
StopServing ==
  /\ serving = "yes" /\ front.stop
  /\ serving' = "cancelled"
  /\ bound' = [bound EXCEPT !.udp = FALSE, !.tcp = FALSE]
  /\ UNCHANGED <<front, job, tcpConn, responses, observed>>

\* A datagram has come: its goroutine starts.
ReadUDP(i) ==
  /\ serving = "yes" /\ front.queries[i].via = "udp" /\ job[i].pc = "wait"
  /\ job' = [job EXCEPT ![i].pc = "handle"]
  /\ UNCHANGED <<front, bound, tcpConn, serving, responses, observed>>

\* ServeConn: the next message of the connection, in the time it has.
OnTCP == {i \in Queries : front.queries[i].via = "tcp"}
Unread == {i \in OnTCP : job[i].pc = "wait"}
ReadTCP ==
  /\ serving # "no" /\ tcpConn.open /\ tcpConn.at = 0 /\ ~tcpConn.late /\ Unread # {}
  /\ job' = [job EXCEPT ![Min(Unread)].pc = "handle"]
  /\ tcpConn' = [tcpConn EXCEPT !.at = Min(Unread)]
  /\ UNCHANGED <<front, bound, serving, responses, observed>>

\* The client has closed it, or has said nothing for 30 seconds.
TCPEnds ==
  /\ serving # "no" /\ tcpConn.open /\ tcpConn.at = 0
  /\ tcpConn.late \/ Unread = {}
  /\ tcpConn' = [tcpConn EXCEPT !.open = FALSE]
  /\ UNCHANGED <<front, bound, job, serving, responses, observed>>

-----------------------------------------------------------------------------
(* handle.                                                                 *)

Answer(i, code) == [job EXCEPT ![i].pc = "answer", ![i].resp = [code |-> code, for |-> i, up |-> 0, tc |-> FALSE, ech |-> FALSE]]
Fakeable == {"A", "AAAA", "HTTPS", "SVCB"}

Handle(i) ==
  /\ job[i].pc = "handle"
  /\ LET q == front.queries[i] IN
     job' = IF q.form = "bad" THEN [job EXCEPT ![i].pc = "drop"]
            ELSE IF q.form = "noquestion" THEN Answer(i, "formerr")
            ELSE IF q.name \intersect {"canary", "block"} # {} THEN Answer(i, "nxdomain")
            ELSE IF "route" \in q.name /\ front.fake /\ q.type \in Fakeable THEN Answer(i, "fake")
            ELSE [job EXCEPT ![i].pc = "forward", ![i].net = q.via, ![i].left = Upstreams[1].udp]
  /\ UNCHANGED <<front, bound, tcpConn, serving, responses, observed>>

\* exchange, with the upstream at job[i].up: an answer over TCP, ...
Forwarding(i, net) == job[i].pc = "forward" /\ job[i].net = net
Response(i) == [code |-> "forwarded", for |-> i, up |-> job[i].up, tc |-> FALSE, ech |-> front.queries[i].type \in {"HTTPS", "SVCB"}]

ExchangeTCP(i) ==
  /\ Forwarding(i, "tcp") /\ Upstreams[job[i].up].tcp
  /\ job' = [job EXCEPT ![i].pc = "seen", ![i].resp = Response(i)]
  /\ UNCHANGED <<front, bound, tcpConn, serving, responses, observed>>

\* ... or the first datagram with the query's identifier; one that is
\* truncated is asked for again over TCP.
ExchangeUDPAny(i) ==
  /\ Forwarding(i, "udp") /\ job[i].left # <<>>
  /\ job' = IF Head(job[i].left) = "tc" THEN [job EXCEPT ![i].net = "tcp"]
            ELSE [job EXCEPT ![i].pc = "seen",
                    ![i].resp = [Response(i) EXCEPT !.for = IF Head(job[i].left) = "stray" THEN 0 ELSE @]]
  /\ UNCHANGED <<front, bound, tcpConn, serving, responses, observed>>

ExchangeUDP(i) ==
  /\ Forwarding(i, "udp") /\ job[i].left # <<>>
  /\ job' = CASE Head(job[i].left) = "stray" -> [job EXCEPT ![i].left = Tail(@)]
              [] Head(job[i].left) = "tc" -> [job EXCEPT ![i].net = "tcp"]
              [] OTHER -> [job EXCEPT ![i].pc = "seen", ![i].resp = Response(i)]
  /\ UNCHANGED <<front, bound, tcpConn, serving, responses, observed>>

\* It refuses, or four seconds pass: the next one, with the query's own
\* network; after the last, or without a context, the answer is SERVFAIL.
ExchangeFails(i) ==
  /\ job[i].pc = "forward"
  /\ \/ serving = "cancelled"
     \/ job[i].net = "udp" /\ job[i].left = <<>>
     \/ job[i].net = "tcp" /\ ~Upstreams[job[i].up].tcp
  /\ job' = IF job[i].up = Len(Upstreams) \/ serving = "cancelled" THEN Answer(i, "servfail")
            ELSE [job EXCEPT ![i].up = @ + 1, ![i].net = front.queries[i].via, ![i].left = Upstreams[job[i].up + 1].udp]
  /\ UNCHANGED <<front, bound, tcpConn, serving, responses, observed>>

\* answerAddrs: the smallest TTL of the answer's addresses, where 0 is none.
answerTTL(ttls) ==
  LET ttl[n \in 0..Len(ttls)] ==
        IF n = 0 THEN 0 ELSE IF ttl[n - 1] = 0 \/ ttls[n] < ttl[n - 1] THEN ttls[n] ELSE ttl[n - 1]
  IN ttl[Len(ttls)]

\* The end of handle: ech is stripped, addresses are learned.
See(i) ==
  /\ job[i].pc = "seen"
  /\ job' = [job EXCEPT ![i].pc = "answer", ![i].resp.ech = @ /\ ~front.strip]
  /\ observed' = IF front.queries[i].type \in {"A", "AAAA"} /\ front.ttls # <<>>
                 THEN Append(observed, [query |-> i, ttl |-> answerTTL(front.ttls)])
                 ELSE observed
  /\ UNCHANGED <<front, bound, tcpConn, serving, responses>>

\* The answer is written; a message that is dropped ends a TCP connection.
Write(i) ==
  /\ job[i].pc \in {"answer", "drop"}
  /\ LET tcp == front.queries[i].via = "tcp"
         sent == job[i].pc = "answer" /\ IF tcp THEN ~tcpConn.late ELSE serving = "yes"
     IN /\ responses' = IF sent THEN Append(responses, job[i].resp) ELSE responses
        /\ tcpConn' = IF tcp THEN [open |-> sent, late |-> FALSE, at |-> 0] ELSE tcpConn
        /\ job' = [job EXCEPT ![i] = [newJob EXCEPT !.pc = IF sent THEN "answered" ELSE "lost"]]
  /\ UNCHANGED <<front, bound, serving, observed>>

\* The connection's 30 seconds, which began before its last message came.
TCPLate ==
  /\ front.slow /\ tcpConn.open /\ ~tcpConn.late /\ serving # "no" /\ OnTCP # {}
  /\ tcpConn' = [tcpConn EXCEPT !.late = TRUE]
  /\ UNCHANGED <<front, bound, job, serving, responses, observed>>

DNSStep ==
  \/ ListenUDP \/ ListenTCP \/ StartServing \/ ReadTCP \/ TCPEnds
  \/ \E i \in Queries : \/ ReadUDP(i) \/ Handle(i) \/ ExchangeTCP(i) \/ ExchangeUDP(i) \/ ExchangeFails(i)
                        \/ See(i) \/ Write(i)

DNSNext == DNSStep \/ StopServing \/ TCPLate
DNSFairness == WF_dnsVars(DNSStep)

-----------------------------------------------------------------------------
(* Properties.                                                             *)

AnsweredQueries == {responses[k].for : k \in DOMAIN responses}
AnswerOf(i) == CHOOSE a \in ToSet(responses) : a.for = i

\* An upstream answers a query over a network: some datagram with its
\* identifier is whole, or is truncated and the answer comes over TCP.
FirstOwn(datagrams) ==
  LET own == {k \in DOMAIN datagrams : datagrams[k] # "stray"}
  IN IF own = {} THEN "none" ELSE datagrams[Min(own)]
Replies(u, via) == IF via = "tcp" \/ FirstOwn(u.udp) = "tc" THEN u.tcp ELSE FirstOwn(u.udp) = "ok"
Learned == {observed[k].query : k \in DOMAIN observed}
Replying(i) == {k \in DOMAIN Upstreams : Replies(Upstreams[k], front.queries[i].via)}

\* What the answer to query i must be: what the rules say of the name, never
\* asking an upstream about a name that is to be routed; or what the first
\* upstream that answers says, whole and without ECH; or SERVFAIL when none
\* does.
Listed(q) == q.name \intersect {"canary", "block"} # {}
Routed(q) == "route" \in q.name /\ front.fake /\ q.type \in Fakeable
FromUpstream(i, a) ==
  /\ a.code = "forwarded" /\ a.up = Min(Replying(i))
  /\ ~a.tc /\ (front.strip => ~a.ech)
  /\ front.spec = "system" => Upstreams[a.up].who = "public"
  /\ front.queries[i].type \in {"A", "AAAA"} /\ front.ttls # <<>> => i \in Learned
RightFor(i, a) ==
  LET q == front.queries[i]
  IN \/ q.form = "noquestion" /\ a.code = "formerr"
     \/ q.form = "good" /\ Listed(q) /\ a.code = "nxdomain"
     \/ q.form = "good" /\ ~Listed(q) /\ Routed(q) /\ a.code = "fake"
     \/ /\ q.form = "good" /\ ~Listed(q) /\ ~Routed(q)
        /\ \/ a.code = "servfail" /\ (Replying(i) = {} \/ serving = "cancelled")
           \/ FromUpstream(i, a)

\* Every client is answered once, with the answer to its own query.  Answers
\* on a connection keep its order.  An address reaches the client only after
\* it has been learned, for no longer than any of its records lasts
\* (server.go:54, 195, 275, 353).
AnswersRight ==
  /\ \A k \in DOMAIN responses : responses[k].for \in Queries
  /\ \A j, k \in DOMAIN responses :
       /\ j # k => responses[j].for # responses[k].for
       /\ j < k /\ {responses[j].for, responses[k].for} \subseteq OnTCP => responses[j].for < responses[k].for
  /\ \A i \in AnsweredQueries : RightFor(i, AnswerOf(i))
  /\ 0 \notin ToSet(front.ttls) => \A k \in DOMAIN observed : \A t \in ToSet(front.ttls) : observed[k].ttl <= t

\* Every query gets an answer, however its upstreams fail, unless the server
\* cannot start, is told to stop, or the connection's time is over.
CanServe ==
  /\ ~front.stop /\ ~front.slow /\ Upstreams # <<>>
  /\ front.taken < (IF front.anyPort THEN MaxAttempts ELSE 1)
  /\ \A i \in Queries : front.queries[i].form # "bad"
AllAnswered == CanServe ~> (AnsweredQueries = Queries)
=============================================================================
