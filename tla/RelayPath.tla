------------------------------ MODULE RelayPath ------------------------------
(***************************************************************************)
(* One connection on its way through a relay: an application speaks SOCKS5 *)
(* to the daemon (internal/proxy/socks5.go), the daemon speaks SOCKS5 to a *)
(* relay server over the tailnet (Relay.Dial, internal/socks5), the relay  *)
(* server resolves the name, drops the addresses it may not reach, and     *)
(* connects (internal/relay/relay.go); then both copy bytes each way.      *)
(*                                                                         *)
(* Messages are whole: a truncated one is an end of file to ReadFull.  The *)
(* application may also speak to the relay server itself.                  *)
(***************************************************************************)
EXTENDS Links, FiniteSets, FiniteSetsExt, SequencesExt, TLC

CONSTANTS
  Paths,       \* scenarios: see PathsAssumption
  Addrs,       \* addresses a name resolves to
  ClassOf      \* [Addrs -> class of the address]

\* at, script, eager, half: where the application connects, what it sends,
\* without waiting for answers or not, and how it ends its side (an empty
\* script: nobody connects); route: the rules' decision; token: the daemon has
\* the relay's; source: where the relay sees the daemon; reach: what
\* connecting to the relay does; answers: the addresses of the name, in order;
\* dest: what each does; private: AllowPrivate; first: the destination speaks
\* first; slow: deadlines pass; cut: the connection to the relay may be lost.
PathsAssumption ==
  \A p \in Paths :
    /\ p.at \in {"in", "mid"} /\ p.script \in Seq(STRING \X STRING)
    /\ \A m \in ToSet(p.script) : m[1] = "auth" => m[2] \in {"right", "wrong"}
    /\ p.route \in {"relay", "reject"} /\ p.source \in {"tailnet", "loopback", "public"}
    /\ p.reach \in {"ok", "refused", "timeout", "error"}
    /\ p.answers \in Seq(Addrs) /\ p.dest \in [Addrs -> {"ok", "refused", "silent"}]
    /\ p.at = "in" => <<"request", "associate">> \notin ToSet(p.script)   \* SocksUDP
    /\ {p.eager, p.half, p.token, p.private, p.first, p.slow, p.cut} \subseteq BOOLEAN
ASSUME PathsAssumption

VARIABLES
  path,    \* the scenario
  link,    \* the connections: application - daemon - relay - destination
  stage,      \* where the handlers of the daemon and the relay are
  late,    \* whose deadline on the client's socket has passed
  copying, \* the directions each handler still copies
  left,    \* what the application and the destination have still to send
  got,     \* what each of them has read
  seen     \* the record: the relay's state and reply, the address reached

pathVars == <<path, link, stage, late, copying, left, got, seen>>

Conns == {"in", "mid", "out"}
Handlers == {"daemon", "relay"}
Dirs == {"up", "down"}

\* The connection a handler accepts, and the one it makes.
Accepted(h) == IF h = "daemon" THEN "in" ELSE "mid"
Made(h) == IF h = "daemon" THEN "mid" ELSE "out"
Move(h, pc) == stage' = [stage EXCEPT ![h] = pc]

Said == {"none", "succeeded", "general", "notallowed", "hostunreachable", "connrefused", "cmd", "atyp"}

PathInit ==
  /\ path \in Paths
  /\ link = [c \in Conns |-> IF c = path.at /\ path.script # <<>> THEN Opened ELSE NotOpened]
  /\ stage = [h \in Handlers |-> IF link[Accepted(h)].open THEN "accept" ELSE "idle"]
  /\ late = {}
  /\ copying = [h \in Handlers |-> {}]
  /\ left = [app |-> path.script, dest |-> <<<<"data", "answer">>>>]
  /\ got = [app |-> <<>>, dest |-> <<>>]
  /\ seen = [state |-> "unknown", reply |-> "none", dialed |-> <<>>, auth |-> FALSE]

-----------------------------------------------------------------------------
(* socks5.ServerRequest, in the daemon and in the relay server.            *)

Creds(h) == h = "relay"
Cmds(h) == IF h = "daemon" THEN {"connect", "associate"} ELSE {"connect"}
Replied(h, code) == Put(link[Accepted(h)], "r", <<"reply", code>>)

Hear(h, pc) == stage[h] = pc /\ h \notin late /\ Readable(link[Accepted(h)], "r")
Heard(h) == FirstOf(link[Accepted(h)], "r")
Answered(h, msg) == Put(Take(link[Accepted(h)], "r"), "r", msg)

\* The handler answers and goes on, or answers and closes.
GoOn(h, msg, pc) ==
  /\ link' = [link EXCEPT ![Accepted(h)] = Answered(h, msg)]
  /\ Move(h, pc)
HangUp(h, msg) ==
  /\ link' = [link EXCEPT ![Accepted(h)] = CloseSide(Answered(h, msg), "r")]
  /\ Move(h, "done")
Drop(h) ==
  /\ link' = [link EXCEPT ![Accepted(h)] = CloseSide(@, "r")]
  /\ Move(h, "done")

\* Server.handle: only the tailnet and this machine are served.
AcceptConn(h) ==
  /\ stage[h] = "accept"
  /\ IF h = "relay" /\ path.source = "public"
     THEN Drop(h)
     ELSE /\ Move(h, "method")
          /\ UNCHANGED link
  /\ UNCHANGED <<path, late, copying, left, got, seen>>

ReadMethods(h) ==
  /\ Hear(h, "method")
  /\ LET want == IF Creds(h) THEN "userpass" ELSE "noauth" IN
     CASE Heard(h)[1] # "methods" -> Drop(h)
       [] Heard(h)[1] = "methods" /\ Heard(h)[2] \notin {want, "both"} -> HangUp(h, <<"method", "none">>)
       [] OTHER -> GoOn(h, <<"method", want>>, IF Creds(h) THEN "auth" ELSE "request")
  /\ UNCHANGED <<path, late, copying, left, got, seen>>

ReadAuth(h) ==
  /\ Hear(h, "auth")
  /\ CASE Heard(h)[1] # "auth" -> Drop(h) /\ UNCHANGED seen
       [] Heard(h) = <<"auth", "wrong">> -> HangUp(h, <<"authreply", "fail">>) /\ UNCHANGED seen
       [] OTHER -> GoOn(h, <<"authreply", "ok">>, "request") /\ seen' = [seen EXCEPT !.auth = TRUE]
  /\ UNCHANGED <<path, late, copying, left, got>>

\* A request is <<"request", command>>, or an address nobody can read.
ReadRequest(h) ==
  /\ Hear(h, "request")
  /\ LET cmd == Heard(h)[2] IN
     CASE Heard(h)[1] # "request" -> Drop(h)
       [] Heard(h) = <<"request", "atyp">> -> HangUp(h, <<"reply", "atyp">>)
       [] Heard(h)[1] = "request" /\ cmd \notin Cmds(h) \cup {"atyp", "nohost"} -> HangUp(h, <<"reply", "cmd">>)
       [] Heard(h) = <<"request", "nohost">> -> HangUp(h, <<"reply", "general">>)
       [] OTHER -> /\ link' = [link EXCEPT ![Accepted(h)] = Take(@, "r")]
                   /\ Move(h, IF h = "daemon" THEN "route" ELSE "resolve")
  /\ UNCHANGED <<path, late, copying, left, got, seen>>

\* The client is gone, or its 15 seconds are over, in the middle of it.
RequestFails(h) ==
  /\ stage[h] \in {"method", "auth", "request"}
  /\ h \in late \/ AtEOF(link[Accepted(h)], "r")
  /\ Drop(h)
  /\ UNCHANGED <<path, late, copying, left, got, seen>>

-----------------------------------------------------------------------------
(* The daemon: SOCKS.handle, Router.connect and Relay.Dial.                *)

replyCodeOwn(err) ==
  CASE err = "rejected" -> "notallowed"
    [] err = "refused" -> "connrefused"
    [] err \in {"timeout", "hostunreachable"} -> "hostunreachable"
    [] OTHER -> "general"

\* What SOCKS.handle writes when Connect fails.
replyCode(err) ==
  CASE err \in Said \ {"none", "succeeded"} -> err       \* a relay's answer is passed through
    [] err = "rejected" -> "notallowed"
    [] err = "refused" -> "connrefused"
    [] err = "timeout" -> "hostunreachable"
    [] OTHER -> "general"

\* Connect has failed with err; what is left of a connection to the relay is
\* closed.  A late reply cannot be written.
Refuse(err, mid) ==
  /\ link' = [link EXCEPT !["mid"] = mid,
       !["in"] = CloseSide(IF "daemon" \in late THEN @ ELSE Replied("daemon", replyCode(err)), "r")]
  /\ Move("daemon", "done")
  /\ UNCHANGED <<path, late, copying, left, got>>

\* fail records what happened as the state of the relay.
blame(err) == [seen EXCEPT !.state = err]

Route ==
  /\ stage["daemon"] = "route"
  /\ IF path.route = "reject"
     THEN Refuse("rejected", NotOpened) /\ UNCHANGED seen
     ELSE /\ Move("daemon", "dial")
          /\ UNCHANGED <<path, link, late, copying, left, got, seen>>

\* Relay.connect, and the relay server's Accept.
DialRelay ==
  /\ stage["daemon"] = "dial"
  /\ path.reach = "ok"
  /\ link' = [link EXCEPT !["mid"] = Put(Opened, "l", <<"methods", "userpass">>)]
  /\ stage' = [stage EXCEPT !["daemon"] = "cmethod", !["relay"] = "accept"]
  /\ UNCHANGED <<path, late, copying, left, got, seen>>

DialRelayFails ==
  /\ stage["daemon"] = "dial"
  /\ path.reach # "ok"
  /\ path.reach = "timeout" => "daemon" \in late
  /\ seen' = blame(path.reach)
  /\ Refuse(path.reach, NotOpened)

\* socks5.ClientConnect: method, credentials, request, each after its answer.
ClientHear(pc) == stage["daemon"] = pc /\ Readable(link["mid"], "l")
ClientHeard == FirstOf(link["mid"], "l")
ClientSay(msg, pc) ==
  /\ link' = [link EXCEPT !["mid"] = Put(Take(@, "l"), "l", msg)]
  /\ Move("daemon", pc)
  /\ UNCHANGED <<path, late, copying, left, got, seen>>
ClientFails(err) ==
  /\ seen' = blame(err)
  /\ Refuse(err, CloseSide(link["mid"], "l"))

ClientMethod ==
  /\ ClientHear("cmethod")
  /\ IF ClientHeard = <<"method", "userpass">>
     THEN ClientSay(<<"auth", IF path.token THEN "right" ELSE "wrong">>, "cauth")
     ELSE ClientFails("protocol")

ClientAuth ==
  /\ ClientHear("cauth")
  /\ IF ClientHeard = <<"authreply", "ok">>
     THEN ClientSay(<<"request", "connect">>, "creply")
     ELSE ClientFails("unauthorized")

\* A reply that refuses is about the destination, not about the relay.
ClientReply ==
  /\ ClientHear("creply")
  /\ IF ClientHeard = <<"reply", "succeeded">>
     THEN /\ link' = [link EXCEPT !["mid"] = Take(@, "l")]
          /\ Move("daemon", "answer")
          /\ seen' = [seen EXCEPT !.state = "ready"]
          /\ UNCHANGED <<path, late, copying, left, got>>
     ELSE /\ Refuse(ClientHeard[2], CloseSide(link["mid"], "l"))
          /\ UNCHANGED seen

ClientEOF ==
  /\ stage["daemon"] \in {"cmethod", "cauth", "creply"}
  /\ AtEOF(link["mid"], "l")
  /\ ClientFails("EOF")

\* A lost connection may also say nothing: Dial's own 30 seconds pass, which
\* began after the client's 15.
ClientTimeout ==
  /\ stage["daemon"] \in {"cmethod", "cauth", "creply"}
  /\ link["mid"].lost /\ "daemon" \in late
  /\ ClientFails("timeout")

-----------------------------------------------------------------------------
(* The relay server: Server.dial.                                          *)

isPublic(a) == ClassOf[a] = "public"
allowedIfAny == IF \E a \in ToSet(path.answers) : isPublic(a) THEN path.answers ELSE <<>>
allowed ==
  LET keep[n \in 0..Len(path.answers)] ==
        IF n = 0 THEN <<>>
        ELSE IF path.private \/ isPublic(path.answers[n]) THEN Append(keep[n - 1], path.answers[n])
        ELSE keep[n - 1]
  IN keep[Len(path.answers)]

\* dial has failed with code.
RefuseDial(code) ==
  /\ link' = [link EXCEPT !["mid"] = CloseSide(IF "relay" \in late THEN @ ELSE Replied("relay", code), "r")]
  /\ seen' = [seen EXCEPT !.reply = IF "relay" \in late THEN "none" ELSE code]
  /\ Move("relay", "done")
  /\ UNCHANGED <<path, late, copying, left, got>>

Resolve ==
  /\ stage["relay"] = "resolve"
  /\ CASE path.answers = <<>> -> RefuseDial("hostunreachable")
       [] path.answers # <<>> /\ allowed = <<>> -> RefuseDial("notallowed")
       [] OTHER -> /\ Move("relay", "connect")
                   /\ UNCHANGED <<path, link, late, copying, left, got, seen>>

\* The allowed addresses in turn: one that accepts ends the loop, one that
\* refuses gives way to the next.
DialAddress ==
  /\ stage["relay"] = "connect"
  /\ Len(seen.dialed) < Len(allowed)
  /\ LET a == allowed[Len(seen.dialed) + 1] IN
     /\ path.dest[a] # "silent"
     /\ seen' = [seen EXCEPT !.dialed = Append(@, a)]
     /\ IF path.dest[a] = "ok"
        THEN link' = [link EXCEPT !["out"] = Opened] /\ Move("relay", "answer")
        ELSE UNCHANGED <<link, stage>>
  /\ UNCHANGED <<path, late, copying, left, got>>

DialRefused ==
  /\ stage["relay"] = "connect"
  /\ Len(seen.dialed) = Len(allowed)
  /\ RefuseDial("hostunreachable")

\* One that does not answer keeps the loop until dial's 20 seconds are over,
\* which began after the client's 15.
DialTimesOut ==
  /\ stage["relay"] = "connect"
  /\ Len(seen.dialed) < Len(allowed)
  /\ path.dest[allowed[Len(seen.dialed) + 1]] = "silent"
  /\ path.slow /\ "relay" \in late
  /\ RefuseDial("hostunreachable")

-----------------------------------------------------------------------------
(* Both: the answer, and the copying (Router.Relay, pipe).                 *)

\* The reply is written: the deadline goes, the copying starts.
AnswerOK(h) ==
  /\ stage[h] = "answer" /\ h \notin late
  /\ link' = [link EXCEPT ![Accepted(h)] = Replied(h, "succeeded")]
  /\ Move(h, "copy")
  /\ copying' = [copying EXCEPT ![h] = Dirs]
  /\ seen' = IF h = "relay" THEN [seen EXCEPT !.reply = "succeeded"] ELSE seen
  /\ UNCHANGED <<path, late, left, got>>

AnswerFailsOpen(h) ==
  /\ stage[h] = "answer"
  /\ h \in late \/ Broken(link[Accepted(h)], "r")
  /\ Drop(h)
  /\ UNCHANGED <<path, late, copying, left, got, seen>>

AnswerFails(h) ==
  /\ stage[h] = "answer"
  /\ h \in late \/ Broken(link[Accepted(h)], "r")
  /\ link' = [link EXCEPT ![Made(h)] = CloseSide(@, "l"), ![Accepted(h)] = CloseSide(@, "r")]
  /\ Move(h, "done")
  /\ UNCHANGED <<path, late, copying, left, got, seen>>

\* Where a direction comes from and goes to.
Source(h, d) == IF d = "up" THEN <<Accepted(h), "r">> ELSE <<Made(h), "l">>
Target(h, d) == IF d = "up" THEN <<Made(h), "l">> ELSE <<Accepted(h), "r">>

CopyChunk(h, d) ==
  LET src == Source(h, d)
      dst == Target(h, d)
  IN /\ d \in copying[h]
     /\ Readable(link[src[1]], src[2])
     /\ link' = [link EXCEPT ![src[1]] = Take(@, src[2]), ![dst[1]] = Put(@, dst[2], FirstOf(link[src[1]], src[2]))]
     /\ UNCHANGED <<path, stage, late, copying, left, got, seen>>

CopyEndsBoth(h, d) ==
  /\ d \in copying[h]
  /\ AtEOF(link[Source(h, d)[1]], Source(h, d)[2])
  /\ link' = [link EXCEPT ![Accepted(h)] = CloseSide(@, "r"), ![Made(h)] = CloseSide(@, "l")]
  /\ copying' = [copying EXCEPT ![h] = {}]
  /\ UNCHANGED <<path, stage, late, left, got, seen>>

\* One direction is over, at the end of the stream or because the other side
\* takes no more: the other side is told, and may go on sending.
CopyEnds(h, d) ==
  LET src == Source(h, d)
      dst == Target(h, d)
  IN /\ d \in copying[h]
     /\ \/ AtEOF(link[src[1]], src[2])
        \/ Readable(link[src[1]], src[2]) /\ Broken(link[dst[1]], dst[2])
     /\ link' = [link EXCEPT ![dst[1]] = CloseWrite(@, dst[2])]
     /\ copying' = [copying EXCEPT ![h] = @ \ {d}]
     /\ UNCHANGED <<path, stage, late, left, got, seen>>

PipeDone(h) ==
  /\ stage[h] = "copy" /\ copying[h] = {}
  /\ link' = [link EXCEPT ![Accepted(h)] = CloseSide(@, "r"), ![Made(h)] = CloseSide(@, "l")]
  /\ Move(h, "done")
  /\ UNCHANGED <<path, late, copying, left, got, seen>>

-----------------------------------------------------------------------------
(* The outside.                                                            *)

\* The 15 seconds a handler gives its client until its answer is written.
\* They pass while somebody waits for the outside: for the relay to accept,
\* for a name, for a destination, for the application's next message, or for
\* a connection that is lost.
Expire(h) ==
  /\ path.slow \/ link["mid"].lost
  /\ h \notin late
  /\ stage[h] \notin {"idle", "accept", "copy", "done"}
  /\ \/ stage["daemon"] = "dial" \/ link["mid"].lost \/ stage["relay"] \in {"resolve", "connect"}
     \/ /\ Accepted(h) = path.at /\ stage[h] \in {"method", "auth", "request"}
        /\ ~Readable(link[path.at], "r")
  /\ late' = late \cup {h}
  /\ UNCHANGED <<path, link, stage, copying, left, got, seen>>

\* The messages of the script that get an answer: all but the data.
Questions == Len(SelectSeq(path.script, LAMBDA x : x[1] # "data"))

\* The application sends the next message of its script once it has read the
\* answers to those before it, or at once.
AppSends ==
  /\ left.app # <<>>
  /\ ~link[path.at].lost
  /\ path.eager \/ Len(got.app) >= Min({Len(path.script) - Len(left.app), Questions})
  /\ link' = [link EXCEPT ![path.at] = Put(@, "l", Head(left.app))]
  /\ left' = [left EXCEPT !.app = Tail(@)]
  /\ UNCHANGED <<path, stage, late, copying, got, seen>>

AppReads ==
  /\ Readable(link[path.at], "l") /\ "l" \notin link[path.at].closed
  /\ got' = [got EXCEPT !.app = Append(@, FirstOf(link[path.at], "l"))]
  /\ link' = [link EXCEPT ![path.at] = Take(@, "l")]
  /\ UNCHANGED <<path, stage, late, copying, left, seen>>

\* It ends its side when it has said everything, and closes at the end.
AppEnds ==
  /\ link[path.at].open /\ left.app = <<>> /\ "l" \notin link[path.at].fin
  /\ link' = [link EXCEPT ![path.at] = IF path.half THEN CloseWrite(@, "l") ELSE CloseSide(@, "l")]
  /\ UNCHANGED <<path, stage, late, copying, left, got, seen>>

AppCloses ==
  /\ AtEOF(link[path.at], "l") /\ "l" \notin link[path.at].closed
  /\ link' = [link EXCEPT ![path.at] = CloseSide(@, "l")]
  /\ left' = [left EXCEPT !.app = <<>>]
  /\ UNCHANGED <<path, stage, late, copying, got, seen>>

DestReads ==
  /\ Readable(link["out"], "r") /\ "r" \notin link["out"].closed
  /\ got' = [got EXCEPT !.dest = Append(@, FirstOf(link["out"], "r"))]
  /\ link' = [link EXCEPT !["out"] = Take(@, "r")]
  /\ UNCHANGED <<path, stage, late, copying, left, seen>>

\* The destination answers first, or when it has read everything.
DestSends ==
  /\ link["out"].open /\ left.dest # <<>>
  /\ path.first \/ AtEOF(link["out"], "r")
  /\ link' = [link EXCEPT !["out"] = Put(@, "r", Head(left.dest))]
  /\ left' = [left EXCEPT !.dest = Tail(@)]
  /\ UNCHANGED <<path, stage, late, copying, got, seen>>

DestCloses ==
  /\ link["out"].open /\ left.dest = <<>> /\ "r" \notin link["out"].closed
  /\ AtEOF(link["out"], "r")
  /\ link' = [link EXCEPT !["out"] = CloseSide(@, "r")]
  /\ UNCHANGED <<path, stage, late, copying, left, got, seen>>

ResetConn(c) ==
  /\ \E s \in Sides : MayReset(link[c], s)
  /\ link' = [link EXCEPT ![c] = Lose(@)]
  /\ UNCHANGED <<path, stage, late, copying, left, got, seen>>

\* The tailnet goes away.
Cut ==
  /\ path.cut /\ link["mid"].open /\ ~link["mid"].lost
  /\ link' = [link EXCEPT !["mid"] = Lose(@)]
  /\ UNCHANGED <<path, stage, late, copying, left, got, seen>>

-----------------------------------------------------------------------------

Serve ==
  \E h \in Handlers :
    \/ AcceptConn(h) \/ ReadMethods(h) \/ ReadAuth(h) \/ ReadRequest(h) \/ RequestFails(h)
    \/ AnswerOK(h) \/ AnswerFails(h) \/ PipeDone(h)
    \/ \E d \in Dirs : CopyChunk(h, d) \/ CopyEnds(h, d)

Dial ==
  \/ Route \/ DialRelay \/ DialRelayFails \/ ClientMethod \/ ClientAuth \/ ClientReply \/ ClientEOF \/ ClientTimeout
  \/ Resolve \/ DialAddress \/ DialRefused \/ DialTimesOut

Ends == AppSends \/ AppReads \/ AppEnds \/ AppCloses \/ DestReads \/ DestSends \/ DestCloses

PathNext ==
  \/ Serve \/ Dial \/ Ends \/ Cut
  \/ \E h \in Handlers : Expire(h)
  \/ \E c \in Conns : ResetConn(c)

-----------------------------------------------------------------------------
(* Properties.                                                             *)

Told == {m[2] : m \in {x \in ToSet(got.app) : x[1] = "reply"}}
Data(s) == SelectSeq(s, LAMBDA x : x[1] = "data")

\* The relay connects only for somebody on the tailnet or on its own machine
\* who has shown the token, and only to public addresses unless it was told
\* otherwise, whatever the name resolves to (relay.go:120, 177).
OnlyAllowed ==
  seen.dialed # <<>> =>
    /\ path.source # "public"
    /\ IF path.at = "in" THEN path.token ELSE <<"auth", "right">> \in ToSet(path.script)
    /\ path.private \/ \A a \in ToSet(seen.dialed) : ClassOf[a] = "public"

\* The application is told what became of its own connection: success only
\* when the destination has accepted, before any of its data; otherwise what
\* the relay answered, or that there was no answer to be had from it.
AnswersTrue ==
  /\ "succeeded" \in Told => link["out"].open /\ Told = {"succeeded"}
  /\ (\E m \in ToSet(got.app) : m[1] = "data") => "succeeded" \in Told
  /\ Told \intersect {"notallowed", "connrefused"} # {} =>
       \/ path.at = "in" /\ path.route = "reject" /\ "notallowed" \in Told
       \/ path.at = "in" /\ path.reach = "refused" /\ "connrefused" \in Told
       \/ seen.reply \in Told
  /\ Told # {} /\ seen.reply \notin {"none", "succeeded"} => Told = {seen.reply} \/ path.slow \/ path.cut
  /\ "general" \in Told => seen.state \notin {"unknown", "ready"} \/ <<"request", "nohost">> \in ToSet(path.script)

\* When nothing fails, everything that was sent before one side ended arrives,
\* in order, whichever side ended first and however early it was sent.
NothingFails ==
  /\ path.half /\ ~path.slow /\ ~path.cut
  /\ path.route = "relay" /\ path.reach = "ok" /\ path.source # "public"
  /\ path.script # <<>> /\ <<"request", "connect">> \in ToSet(path.script)
  /\ IF path.at = "in" THEN path.token /\ path.script[1] \in {<<"methods", "noauth">>, <<"methods", "both">>}
     ELSE <<"auth", "right">> \in ToSet(path.script) /\ path.script[1] \in {<<"methods", "userpass">>, <<"methods", "both">>}
  /\ \E a \in ToSet(allowed) : path.dest[a] = "ok"

Delivered ==
  /\ got.dest = Data(path.script)
  /\ Data(got.app) = <<<<"data", "answer">>>>

DataArrives == NothingFails ~> Delivered

\* Whatever fails, every handler ends and every socket is closed.
PathEnds == <>[](\A c \in Conns : Over(link[c]))

-----------------------------------------------------------------------------

\* Every goroutine runs on, the two ends read and finish what they began, and
\* a deadline that something waits for passes.
PathFairness ==
  /\ WF_pathVars(Serve \/ Dial)
  /\ WF_pathVars(Ends)
  /\ \A h \in Handlers : WF_pathVars(Expire(h))
=============================================================================
