----------------------------- MODULE RelayEgress -----------------------------
(***************************************************************************)
(* One relay egress of the Davin kernel (internal/egress/relay.go) and the *)
(* group it is a member of: the Relay objects made for its name, each with *)
(* the goroutine that probes the relay, the token file, and those who meet *)
(* there: requests of the panel (Manager.Apply, SetRelayToken), dialers,   *)
(* the loop of health checks, Close.  Relay.mu is held for one step at a   *)
(* time; a connection to the relay is answered in one step and its result  *)
(* recorded in a later one.                                                *)
(***************************************************************************)
EXTENDS Integers, Sequences, FiniteSets, EgressGroups

CONSTANTS
  Tokens,    \* tokens long enough to be accepted by setToken
  NoToken,
  BadToken,  \* what loadToken refuses: too short a variable of the environment,
             \* a file with other contents than a token or that others can read
  Addrs,     \* relay addresses
  Loopback,  \* those that do not need the tailnet
  Down,
  Requests,  \* panel requests, one call each
  Dialers,   \* goroutines that send connections through the relay
  Health,    \* the goroutine healthLoop
  Envs       \* what may happen: see Env

Main == "main"
Callers == Requests \union {Main}
Conns == Dialers \union {Health}
None == 0

ASSUME RelayAssumption ==
  /\ NoToken \notin Tokens /\ BadToken \notin Tokens /\ NoToken # BadToken
  /\ Loopback \subseteq Addrs
  /\ Down \notin Tokens
  /\ Main \notin Requests /\ Health \notin Dialers

\* A configuration: whether it has the relay, with which address, whether the
\* token comes from an environment variable, and whether the group that has the
\* relay as a member asks for health checks.
Config == [relay : BOOLEAN, addr : Addrs, env : BOOLEAN, check : BOOLEAN]

\* The circumstances of one behaviour: the configuration and the saved token at
\* the start, the configurations requests apply, the tokens they save, whether
\* they take turns, whether there is traffic, what the environment variable
\* holds, whether the token file may fail to be written, removed or read, whether
\* the daemon is stopped, what relays do and whether the main node is connected at
\* the start, and how often the world outside (relay, tailnet, a destination)
\* changes.
Env == [first : Config, file : Tokens \union {NoToken, BadToken}, applies : SUBSET Config, tokens : SUBSET Tokens,
        serial : BOOLEAN, dials : BOOLEAN, variable : Tokens \union {NoToken, BadToken},
        faults : SUBSET {"save", "remove", "read"}, closes : BOOLEAN,
        accepts : [Addrs -> Tokens \union {Down}], tailnet : BOOLEAN, changes : Nat]

ASSUME EnvsAssumption == Envs \subseteq Env

VARIABLES
  env,
  accepts,  \* what a relay at an address does: accept one token, or be down
  tailnet,  \* the main node is connected
  changes,  \* how often the outside may still change
  ctx,      \* Manager.ctx: "none", "up" or "cancelled"
  file,     \* stateDir/relay/<name>.token
  mu,       \* who holds Manager.mu for longer than a step
  cur,      \* Manager.relays[name], an index of relays, or None
  group,    \* the group: its member, if there is one, and whether it is checked
  relays,   \* every Relay ever made for the name
  thr,      \* what each request, and main, is doing
  conn      \* what each dialer is doing, and the loop of health checks

outside == <<env, accepts, tailnet, changes>>
vars == <<env, accepts, tailnet, changes, ctx, file, mu, cur, group, relays, thr, conn>>

Set(i, r) == relays' = [relays EXCEPT ![i] = r]
at(t, pc) == thr[t].pc = pc
Goto(t, pc) == thr' = [thr EXCEPT ![t].pc = pc]
idle == [pc |-> "idle", cfg |-> env.first, tok |-> NoToken, made |-> None, gone |-> None]
\* A call has returned: what it knew is gone.
Done(t) == thr' = [thr EXCEPT ![t] = [idle EXCEPT !.pc = "done"]]
unused == [pc |-> "idle", relay |-> None, tok |-> NoToken, result |-> "none"]

-----------------------------------------------------------------------------
(* Relay.                                                                  *)

\* loadToken: what the source of the token may answer now; BadToken is an error,
\* with an empty token.
loadToken(fromEnv) ==
  IF fromEnv THEN {env.variable} ELSE {file} \union (IF "read" \in env.faults THEN {BadToken} ELSE {})

\* configure, given what loadToken returned.
configure(r, cfg, loaded) ==
  LET tok == IF loaded = BadToken THEN NoToken ELSE loaded
      changed == r.addr # cfg.addr \/ r.env # cfg.env \/ r.tok # tok
      state == IF loaded = BadToken THEN "error"
               ELSE IF tok = NoToken THEN "no_token"
               ELSE IF changed /\ r.state = "ready" THEN "starting" ELSE r.state
  IN  [r EXCEPT !.addr = cfg.addr, !.env = cfg.env, !.tok = tok, !.state = state, !.kick = @ \/ changed]

newRelay(cfg, loaded) ==
  LET blank == [addr |-> cfg.addr, env |-> cfg.env, tok |-> NoToken, state |-> "stopped", health |-> Unmeasured,
                owned |-> FALSE, cancelled |-> FALSE, kick |-> TRUE,
                run |-> "off", asks |-> NoToken, result |-> "none"]
  IN  configure(blank, cfg, loaded)

\* start: a no-op if the loop runs or the context is over.
start(r) ==
  IF r.owned \/ ctx' = "cancelled" THEN r
  ELSE [r EXCEPT !.owned = TRUE, !.run = "probe",
                 !.state = IF r.tok # NoToken /\ @ # "error" THEN "starting" ELSE @]

\* connect and the handshake: what the relay at the address of r makes of tok.
answer(r, tok) ==
  IF r.addr \notin Loopback /\ ~tailnet THEN "starting"   \* ErrNotReady
  ELSE IF accepts[r.addr] = Down THEN "unreachable"
  ELSE IF accepts[r.addr] = tok THEN "ready" ELSE "auth_failed"

\* What the group makes of the relay.
View(r) == [ready |-> r.state = "ready", health |-> r.health]

\* probe reads the token.
Probe(i) ==
  LET r == relays[i] IN
  /\ r.run = "probe"
  /\ Set(i, IF r.tok # NoToken THEN [r EXCEPT !.run = "ask", !.asks = r.tok]
            ELSE [r EXCEPT !.run = "wait", !.state = IF @ = "error" THEN @ ELSE "no_token"])
  /\ UNCHANGED <<outside, ctx, file, mu, cur, group, thr, conn>>

\* A connection that the end of the context interrupts has no result.
Ask(i) ==
  LET r == relays[i] IN
  /\ r.run = "ask"
  /\ \/ Set(i, [r EXCEPT !.run = "report", !.asks = NoToken, !.result = answer(r, r.asks)])
     \/ r.cancelled /\ Set(i, [r EXCEPT !.run = "wait", !.asks = NoToken])
  /\ UNCHANGED <<outside, ctx, file, mu, cur, group, thr, conn>>

\* ok and fail: the result is the state, whatever has happened since.
Report(i) ==
  LET r == relays[i] IN
  /\ r.run = "report"
  /\ Set(i, [r EXCEPT !.run = "wait", !.result = "none", !.state = r.result])
  /\ UNCHANGED <<outside, ctx, file, mu, cur, group, thr, conn>>

\* Faulty variant: a relay that works is checked only when it is poked.
WaitForKick(i) ==
  LET r == relays[i] IN
  /\ r.run = "wait"
  /\ \/ r.cancelled /\ Set(i, [r EXCEPT !.run = "ended"])
     \/ r.kick /\ Set(i, [r EXCEPT !.run = "probe", !.kick = FALSE])
     \/ ~r.cancelled /\ r.state # "ready" /\ Set(i, [r EXCEPT !.run = "probe"])
  /\ UNCHANGED <<outside, ctx, file, mu, cur, group, thr, conn>>

\* run waits for the end, for a kick, or for a timer: 20 seconds if the relay
\* is ready or has no token, else 5.
Wait(i) ==
  LET r == relays[i] IN
  /\ r.run = "wait"
  /\ \/ r.cancelled /\ Set(i, [r EXCEPT !.run = "ended"])
     \/ r.kick /\ Set(i, [r EXCEPT !.run = "probe", !.kick = FALSE])
     \/ ~r.cancelled /\ Set(i, [r EXCEPT !.run = "probe"])
  /\ UNCHANGED <<outside, ctx, file, mu, cur, group, thr, conn>>

run(i) == Probe(i) \/ Ask(i) \/ Report(i) \/ Wait(i)

-----------------------------------------------------------------------------
(* Connections through the relay: Manager.Dial, and the health checks of    *)
(* the group, which dial too.                                              *)

\* Dial looks the relay up, reads its token and state, and refuses or connects.
Dial(d) ==
  LET r == relays[cur] IN
  /\ env.dials
  /\ conn[d].pc = "idle"
  /\ mu = None
  /\ cur # None
  /\ r.tok # NoToken /\ r.state \notin {"error", "stopped"}
  /\ conn' = [conn EXCEPT ![d] = [unused EXCEPT !.pc = "ask", !.relay = cur, !.tok = r.tok]]
  /\ UNCHANGED <<outside, ctx, file, mu, cur, group, relays, thr>>

\* healthLoop: there is a group with a check that has the relay as a member, and
\* no check of it is still out; that its interval has passed is left open.
CheckDue ==
  /\ ctx = "up"
  /\ conn[Health].pc = "idle"
  /\ mu = None
  /\ group.check /\ group.relay # None

\* Faulty variant: a member that is not ready is not checked.
CheckHealthOfReady ==
  LET i == group.relay
      r == relays[i] IN
  /\ CheckDue
  /\ Candidate(View(r))
  /\ conn' = [conn EXCEPT ![Health] = [unused EXCEPT !.pc = "ask", !.relay = i, !.tok = r.tok]]
  /\ UNCHANGED <<outside, ctx, file, mu, cur, group, relays, thr>>

\* healthLoop takes the group, and checkHealth the token of its member; without
\* one the check fails at once.
CheckHealth ==
  LET i == group.relay
      r == relays[i] IN
  /\ CheckDue
  /\ IF r.tok = NoToken \/ r.state \in {"error", "stopped"}
     THEN /\ r.health # Failed
          /\ Set(i, [r EXCEPT !.health = Failed])
          /\ UNCHANGED conn
     ELSE /\ conn' = [conn EXCEPT ![Health] = [unused EXCEPT !.pc = "ask", !.relay = i, !.tok = r.tok]]
          /\ UNCHANGED relays
  /\ UNCHANGED <<outside, ctx, file, mu, cur, group, thr>>

\* The relay refuses, or asks the destination, which may refuse ("reply"); time
\* may run out, or the caller may be gone, before either has answered.
AskConn(d) ==
  LET a == answer(relays[conn[d].relay], conn[d].tok) IN
  /\ conn[d].pc = "ask"
  /\ \/ /\ conn' = [conn EXCEPT ![d].pc = "report", ![d].result = a]
        /\ UNCHANGED changes
     \/ /\ changes > 0
        /\ changes' = changes - 1
        /\ \E x \in {"unreachable"} \union (IF a = "ready" THEN {"reply"} ELSE {}) :
             conn' = [conn EXCEPT ![d].pc = "report", ![d].result = x]
     \/ /\ ctx = "cancelled"
        /\ conn' = [conn EXCEPT ![d].pc = "report", ![d].result = "unreachable"]
        /\ UNCHANGED changes
  /\ UNCHANGED <<env, accepts, tailnet, ctx, file, mu, cur, group, relays, thr>>

\* A reply is about the destination and leaves the state of the relay alone.
recorded(r, result) == IF result = "reply" THEN r ELSE [r EXCEPT !.state = result]

ReportConn(d) ==
  LET c == conn[d]
      r == recorded(relays[c.relay], c.result) IN
  /\ c.pc = "report"
  /\ Set(c.relay, IF d # Health THEN r ELSE [r EXCEPT !.health = IF c.result = "ready" THEN 1 ELSE Failed])
  /\ conn' = [conn EXCEPT ![d] = unused]
  /\ UNCHANGED <<outside, ctx, file, mu, cur, group, thr>>

-----------------------------------------------------------------------------
(* Requests of the panel.                                                  *)

Busy(t) == thr[t].pc \notin {"idle", "done"}
MayBegin(t) ==
  /\ ctx # "none"
  /\ at(t, "idle")
  /\ env.serial => \A u \in Requests : ~Busy(u)

\* SetRelayToken finds the relay, and reads where its token comes from; a token
\* from the environment is not replaced.
SetToken(t, tok) ==
  /\ MayBegin(t)
  /\ tok \in env.tokens
  /\ mu = None /\ cur # None
  /\ IF relays[cur].env THEN Done(t) ELSE thr' = [thr EXCEPT ![t].pc = "save", ![t].tok = tok, ![t].made = cur]
  /\ UNCHANGED <<outside, ctx, file, mu, cur, group, relays, conn>>

\* Faulty variant: an error of the write is not looked at.
SaveTokenUnchecked(t) ==
  /\ at(t, "save")
  /\ file' = thr[t].tok \/ ("save" \in env.faults /\ file' = file)
  /\ Goto(t, "use")
  /\ UNCHANGED <<outside, ctx, mu, cur, group, relays, conn>>

\* The file is replaced first, by a rename, then the memory, which pokes; a token
\* that cannot be saved is not used.
SaveToken(t) ==
  /\ at(t, "save")
  /\ \/ file' = thr[t].tok /\ Goto(t, "use")
     \/ "save" \in env.faults /\ file' = file /\ Done(t)
  /\ UNCHANGED <<outside, ctx, mu, cur, group, relays, conn>>

UseToken(t) ==
  LET i == thr[t].made IN
  /\ at(t, "use")
  /\ Set(i, [relays[i] EXCEPT !.tok = thr[t].tok, !.state = "starting", !.kick = TRUE])
  /\ Done(t)
  /\ UNCHANGED <<outside, ctx, file, mu, cur, group, conn>>

\* Apply holds Manager.mu from here to Configure; loadToken reads the file
\* without Relay.mu, which configure takes afterwards.
Apply(t, cfg) ==
  /\ MayBegin(t)
  /\ cfg \in env.applies
  /\ mu = None
  /\ mu' = t
  /\ \E tok \in loadToken(cfg.env) :
       thr' = [thr EXCEPT ![t].pc = "configure", ![t].cfg = cfg, ![t].tok = tok]
  /\ UNCHANGED <<outside, ctx, file, cur, group, relays, conn>>

\* The relay is configured, made or dropped, and the group made anew.
Configure(t) ==
  LET cfg == thr[t].cfg IN
  /\ at(t, "configure")
  /\ mu' = None
  /\ IF ~cfg.relay THEN cur' = None /\ UNCHANGED relays
     ELSE IF cur = None THEN cur' = Len(relays) + 1 /\ relays' = Append(relays, newRelay(cfg, thr[t].tok))
     ELSE UNCHANGED cur /\ Set(cur, configure(relays[cur], cfg, thr[t].tok))
  /\ group' = [relay |-> cur', check |-> cfg.check]
  /\ thr' = [thr EXCEPT ![t].pc = "start", ![t].made = IF cur = None THEN cur' ELSE None,
                        ![t].gone = IF cur' = None THEN cur ELSE None]
  /\ UNCHANGED <<outside, ctx, file, conn>>

\* Apply starts what it made.
StartMade(t) ==
  LET i == thr[t].made IN
  /\ at(t, "start")
  /\ IF thr[t].gone = None THEN Done(t) ELSE Goto(t, "stop")
  /\ UNCHANGED <<outside, ctx, file, mu, cur, group, conn>>
  /\ IF i = None THEN UNCHANGED relays ELSE Set(i, start(relays[i]))

\* Faulty variant: stop does not cancel the context of the loop.
StopWithoutCancel(t) ==
  LET i == thr[t].gone
      r == relays[i] IN
  /\ at(t, "stop")
  /\ Set(i, [r EXCEPT !.owned = FALSE])
  /\ Goto(t, IF r.owned THEN "join" ELSE "forget")
  /\ UNCHANGED <<outside, ctx, file, mu, cur, group, conn>>

\* Faulty variant: a relay without a token is taken not to run.
StopWithToken(t) ==
  LET i == thr[t].gone
      r == relays[i]
      runs == r.owned /\ r.tok # NoToken IN
  /\ at(t, "stop")
  /\ Set(i, [r EXCEPT !.owned = FALSE, !.cancelled = @ \/ runs])
  /\ Goto(t, IF runs THEN "join" ELSE "forget")
  /\ UNCHANGED <<outside, ctx, file, mu, cur, group, conn>>

\* stop: at once if nobody started the relay, else the loop is cancelled and
\* waited for.
Stop(t) ==
  LET i == thr[t].gone
      r == relays[i] IN
  /\ at(t, "stop")
  /\ Set(i, [r EXCEPT !.owned = FALSE, !.cancelled = @ \/ r.owned])
  /\ Goto(t, IF r.owned THEN "join" ELSE "forget")
  /\ UNCHANGED <<outside, ctx, file, mu, cur, group, conn>>

Join(t) ==
  LET i == thr[t].gone IN
  /\ at(t, "join")
  /\ relays[i].run = "ended"
  /\ Set(i, [relays[i] EXCEPT !.state = "stopped"])
  /\ Goto(t, "forget")
  /\ UNCHANGED <<outside, ctx, file, mu, cur, group, conn>>

\* A relay that was removed forgets its token, unless its file cannot be removed,
\* which is only logged; Close keeps it.
Forget(t) ==
  /\ at(t, "forget")
  /\ \/ t # Main /\ file' = NoToken
     \/ (t = Main \/ "remove" \in env.faults) /\ file' = file
  /\ Done(t)
  /\ UNCHANGED <<outside, ctx, mu, cur, group, relays, conn>>

-----------------------------------------------------------------------------
(* Main: Start and Close.                                                  *)

\* Start runs before the panel serves a request.
Start ==
  /\ ctx = "none"
  /\ ctx' = "up"
  /\ relays' = [i \in DOMAIN relays |-> start(relays[i])]
  /\ UNCHANGED <<outside, file, mu, cur, group, thr, conn>>

\* A signal ends the context of all loops.
Signal ==
  /\ env.closes
  /\ ctx = "up"
  /\ ctx' = "cancelled"
  /\ relays' = [i \in DOMAIN relays |-> [relays[i] EXCEPT !.cancelled = @ \/ relays[i].run # "off"]]
  /\ Goto(Main, "close")
  /\ UNCHANGED <<outside, file, mu, cur, group, conn>>

\* Close takes the relays there are, waits for the loop of health checks, and
\* stops them.
Close ==
  /\ at(Main, "close")
  /\ mu = None
  /\ thr' = [thr EXCEPT ![Main].pc = "drain", ![Main].gone = cur]
  /\ UNCHANGED <<outside, ctx, file, mu, cur, group, relays, conn>>

Drain ==
  /\ at(Main, "drain")
  /\ conn[Health].pc = "idle"
  /\ Goto(Main, IF thr[Main].gone = None THEN "done" ELSE "stop")
  /\ UNCHANGED <<outside, ctx, file, mu, cur, group, relays, conn>>

-----------------------------------------------------------------------------
(* The outside: relays get other tokens, go down, come back; the main node  *)
(* loses the tailnet and finds it again.                                   *)
Change ==
  /\ changes > 0
  /\ changes' = changes - 1
  /\ \/ \E a \in Addrs, x \in Tokens \union {Down} :
          x # accepts[a] /\ accepts' = [accepts EXCEPT ![a] = x] /\ UNCHANGED tailnet
     \/ tailnet' = ~tailnet /\ UNCHANGED accepts
  /\ UNCHANGED <<env, ctx, file, mu, cur, group, relays, thr, conn>>

Init ==
  /\ env \in Envs
  /\ accepts = env.accepts
  /\ tailnet = env.tailnet
  /\ changes = env.changes
  /\ ctx = "none"
  /\ file = env.file
  /\ mu = None
  /\ cur = IF env.first.relay THEN 1 ELSE None
  /\ group = [relay |-> cur, check |-> env.first.check]
  /\ \E tok \in loadToken(env.first.env) :
       relays = IF env.first.relay THEN <<newRelay(env.first, tok)>> ELSE <<>>
  /\ thr = [t \in Callers |-> idle]
  /\ conn = [d \in Conns |-> unused]

Request(t) ==
  \/ \E tok \in Tokens : SetToken(t, tok)
  \/ \E cfg \in Config : Apply(t, cfg)

Step(t) == SaveToken(t) \/ UseToken(t) \/ Configure(t) \/ StartMade(t) \/ Stop(t) \/ Join(t) \/ Forget(t)

Next ==
  \/ \E t \in Requests : Request(t)
  \/ \E t \in Callers : Step(t)
  \/ \E i \in DOMAIN relays : run(i)
  \/ \E d \in Dialers : Dial(d)
  \/ CheckHealth
  \/ \E d \in Conns : AskConn(d) \/ ReportConn(d)
  \/ Start \/ Signal \/ Close \/ Drain \/ Change

Spec == Init /\ [][Next]_vars

MaxRelays == Cardinality(Requests) + 1

\* Goroutines run, timers fire, connections are answered or time out.
Fairness ==
  /\ WF_vars(Start) /\ WF_vars(Close) /\ WF_vars(Drain) /\ WF_vars(CheckHealth)
  /\ \A t \in Callers : WF_vars(Step(t))
  /\ \A i \in 1..MaxRelays : WF_vars(i \in DOMAIN relays /\ run(i))
  /\ \A d \in Conns : WF_vars(AskConn(d)) /\ WF_vars(ReportConn(d))

LiveSpec == Spec /\ Fairness

-----------------------------------------------------------------------------
(* Types.                                                                  *)

Saved == Tokens \union {NoToken}

Answers == {"starting", "unreachable", "ready", "auth_failed"}

Relay == [addr : Addrs, env : BOOLEAN, tok : Saved, state : Answers \union {"stopped", "no_token", "error"},
          health : {Unmeasured, Failed, 1}, owned : BOOLEAN, cancelled : BOOLEAN, kick : BOOLEAN,
          run : {"off", "probe", "ask", "report", "wait", "ended"}, asks : Saved, result : Answers \union {"none"}]

Caller == [pc : {"idle", "save", "use", "configure", "start", "stop", "join", "forget", "close", "drain", "done"},
           cfg : Config, tok : Saved \union {BadToken}, made : Nat, gone : Nat]

Connection == [pc : {"idle", "ask", "report"}, relay : Nat, tok : Saved, result : Answers \union {"none", "reply"}]

Is == 1..Len(relays)

\* A caller and a connection know a relay when they need one.
CallerOK(t) ==
  /\ thr[t].made \in 0..Len(relays) /\ thr[t].gone \in 0..Len(relays)
  /\ thr[t].pc \in {"save", "use"} => thr[t].made # None /\ thr[t].tok \in Saved
  /\ thr[t].pc \in {"stop", "join", "forget"} => thr[t].gone # None

ConnOK(d) ==
  /\ conn[d].relay \in 0..Len(relays)
  /\ conn[d].pc # "idle" => conn[d].relay # None
  /\ conn[d].pc = "report" => conn[d].result # "none"

OutsideOK ==
  /\ env \in Env
  /\ accepts \in [Addrs -> Tokens \union {Down}]
  /\ tailnet \in BOOLEAN /\ changes \in Nat
  /\ ctx \in {"none", "up", "cancelled"}
  /\ file \in Saved \union {BadToken}
  /\ mu \in Requests \union {None}

RelaysOK ==
  /\ relays \in Seq(Relay)
  /\ \A i \in Is : relays[i].run = "report" => relays[i].result # "none"
  /\ cur \in 0..Len(relays)
  /\ group \in [relay : 0..Len(relays), check : BOOLEAN]

CallersOK == thr \in [Callers -> Caller] /\ \A t \in Callers : CallerOK(t)

ConnsOK == conn \in [Conns -> Connection] /\ \A d \in Conns : ConnOK(d)

\* Every variable has its type, and indices lead to relays there are.
TypeOK == OutsideOK /\ RelaysOK /\ CallersOK /\ ConnsOK

-----------------------------------------------------------------------------
(* Properties.                                                             *)

Quiet == \A t \in Requests : ~Busy(t)

\* What the state of a relay should say: what the relay makes of the token it
\* has now.  A result that comes late may hide a token that was refused behind
\* no_token.
Refused(r) == IF r.env THEN env.variable = BadToken ELSE env.file = BadToken \/ "read" \in env.faults
Right(r) ==
  IF r.tok # NoToken THEN {answer(r, r.tok)}
  ELSE IF Refused(r) THEN {"error", "no_token"} ELSE {"no_token"}

\* Once the outside no longer changes, the state of the relay comes to say what
\* the relay at its address makes of its present token, and stays so: results
\* of probes and connections begun with an older token or address may be
\* recorded late, but a later probe replaces them (relay.go:215, 283).
StateFollows == <>[](ctx = "up" /\ cur # None => relays[cur].state \in Right(relays[cur]))

\* After requests that took turns, a relay uses the token that is saved, so a
\* restart will too, and a relay that was removed has left no token
\* (relay.go:80, 139; manager.go:243), also when a token could not be saved.
\* A file that loadToken refuses, or could not read when the relay was
\* configured, leaves the relay without a token, never with an older one; a
\* token is left behind only where its file could not be removed.
Usable(tok) == IF tok = BadToken THEN NoToken ELSE tok
SavedTokenIsUsed ==
  env.serial /\ Quiet =>
    /\ cur # None /\ ~relays[cur].env =>
         \/ relays[cur].tok = Usable(file)
         \/ "read" \in env.faults /\ relays[cur].tok = NoToken
    /\ cur = None /\ relays # <<>> => file = NoToken \/ "remove" \in env.faults

\* After requests that took turns, no removed relay is probed any more, unless
\* Close is what waits for it; after Close none is (relay.go:192).
RemovedAreStopped ==
  /\ env.serial /\ Quiet => \A i \in DOMAIN relays : i # cur => relays[i].run \in {"off", "ended"} \/ Busy(Main)
  /\ at(Main, "done") /\ cur # None => relays[cur].run \in {"off", "ended"}

\* Apply, SetRelayToken and Close return: the loop they wait for ends.
CallsReturn == \A t \in Callers : Busy(t) ~> ~Busy(t)

\* A relay that works and belongs to a group with health checks becomes a
\* candidate of the group again, however a check failed before: by the check
\* alone, since no connection that succeeds changes its health (relay.go:394).
HealthRecovers ==
  <>[](ctx = "up" /\ cur # None /\ group.check /\ answer(relays[cur], relays[cur].tok) = "ready")
    => <>[](cur # None /\ Candidate(View(relays[cur])))

\* pick returns the member its group promises, for every state of up to three
\* members; times are positive (manager.go:442).  It concerns no variable: it is
\* evaluated before the start, and once is enough.
Members == [ready : BOOLEAN, health : {Unmeasured, Failed, 1, 2}]
Groups == UNION {[1..n -> Members] : n \in 0..3}
PicksAreBest == \A kind \in {"fallback", "latency"}, members \in Groups : Best(kind, members, pick(kind, members))
PickIsBest == ctx # "none" \/ PicksAreBest
=============================================================================
