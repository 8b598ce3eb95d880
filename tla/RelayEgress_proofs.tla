------------------------- MODULE RelayEgress_proofs -------------------------
(***************************************************************************)
(* Type correctness of RelayEgress, SavedTokenIsUsed and RemovedAreStopped *)
(* for any number of requests and dialers, any tokens and addresses, files *)
(* that fail, and an outside that changes at any time; and pick for groups *)
(* of any length.                                                          *)
(***************************************************************************)
EXTENDS RelayEgress, SequenceTheorems, WellFoundedInduction, TLAPS

-----------------------------------------------------------------------------
(* Types: what a step may write.                                           *)

LEMMA RelaySet ==
  ASSUME RelaysOK, NEW i \in Is, NEW r \in Relay,
         r.run = "report" => r.result # "none",
         Set(i, r)
  PROVE  /\ relays' \in Seq(Relay) /\ Len(relays') = Len(relays) /\ Is' = Is
         /\ relays'[i] = r /\ \A j \in Is : j # i => relays'[j] = relays[j]
         /\ \A j \in Is : relays'[j].run = "report" => relays'[j].result # "none"
<1>1. relays \in Seq(Relay) /\ i \in 1..Len(relays)
  BY DEF RelaysOK, Is
<1>2. /\ relays' \in Seq(Relay) /\ Len(relays') = Len(relays)
      /\ \A j \in 1..Len(relays) : relays'[j] = IF j = i THEN r ELSE relays[j]
  BY <1>1, ExceptSeq DEF Set
<1>3. QED
  BY <1>1, <1>2 DEF RelaysOK, Is

LEMMA RelaysSet ==
  ASSUME RelaysOK, NEW i \in Is, NEW r \in Relay,
         r.run = "report" => r.result # "none",
         Set(i, r), UNCHANGED <<cur, group>>
  PROVE  RelaysOK'
BY RelaySet DEF RelaysOK, Is

LEMMA LenNat == ASSUME RelaysOK PROVE Len(relays) \in Nat
BY DEF RelaysOK

LEMMA CallersStay ==
  ASSUME RelaysOK, CallersOK, UNCHANGED thr, Len(relays') \in Nat, Len(relays') >= Len(relays)
  PROVE  CallersOK'
BY LenNat DEF CallersOK, CallerOK

LEMMA ConnsStay ==
  ASSUME RelaysOK, ConnsOK, UNCHANGED conn, Len(relays') \in Nat, Len(relays') >= Len(relays)
  PROVE  ConnsOK'
BY LenNat DEF ConnsOK, ConnOK

LEMMA CallerSet ==
  ASSUME RelaysOK, CallersOK, NEW t \in Callers, NEW c \in Caller,
         thr' = [thr EXCEPT ![t] = c], Len(relays') \in Nat, Len(relays') >= Len(relays),
         c.made \in 0..Len(relays'), c.gone \in 0..Len(relays'),
         c.pc \in {"save", "use"} => c.made # None /\ c.tok \in Saved,
         c.pc \in {"stop", "join", "forget"} => c.gone # None
  PROVE  CallersOK'
<1>1. thr' \in [Callers -> Caller] /\ thr'[t] = c /\ \A u \in Callers : u # t => thr'[u] = thr[u]
  BY DEF CallersOK
<1>2. ASSUME NEW u \in Callers PROVE CallerOK(u)'
  <2>1. CASE u = t
    BY <1>1, <2>1 DEF CallerOK
  <2>2. CASE u # t
    BY <1>1, <2>2, LenNat DEF CallersOK, CallerOK
  <2>3. QED BY <2>1, <2>2
<1>3. QED BY <1>1, <1>2 DEF CallersOK

LEMMA ConnSet ==
  ASSUME RelaysOK, ConnsOK, NEW d \in Conns, NEW c \in Connection,
         conn' = [conn EXCEPT ![d] = c], Len(relays') = Len(relays),
         c.relay \in 0..Len(relays),
         c.pc # "idle" => c.relay # None,
         c.pc = "report" => c.result # "none"
  PROVE  ConnsOK'
<1>1. conn' \in [Conns -> Connection] /\ conn'[d] = c /\ \A e \in Conns : e # d => conn'[e] = conn[e]
  BY DEF ConnsOK
<1>2. ASSUME NEW e \in Conns PROVE ConnOK(e)'
  <2>1. CASE e = d
    BY <1>1, <2>1 DEF ConnOK
  <2>2. CASE e # d
    BY <1>1, <2>2 DEF ConnsOK, ConnOK
  <2>3. QED BY <2>1, <2>2
<1>3. QED BY <1>1, <1>2 DEF ConnsOK

LEMMA UnusedType == unused \in Connection /\ unused.pc = "idle" /\ unused.relay = 0
BY DEF unused, Connection, Saved, None

LEMMA AskType ==
  ASSUME NEW i \in Nat, NEW tok \in Saved
  PROVE  LET c == [unused EXCEPT !.pc = "ask", !.relay = i, !.tok = tok] IN
         c \in Connection /\ c.pc = "ask" /\ c.relay = i
BY UnusedType DEF Connection

LEMMA RelayOf == ASSUME RelaysOK, NEW i \in Is
                 PROVE  relays[i] \in Relay /\ (relays[i].run = "report" => relays[i].result # "none")
BY DEF RelaysOK, Is

LEMMA EnvIsEnv == ASSUME env \in Envs PROVE env \in Env
BY EnvsAssumption

LEMMA AnswerType == ASSUME NEW r, NEW tok PROVE answer(r, tok) \in Answers
BY DEF answer, Answers

LEMMA LoadType == ASSUME OutsideOK, NEW e \in BOOLEAN PROVE loadToken(e) \subseteq Saved \union {BadToken}
BY DEF OutsideOK, Env, loadToken, Saved

LEMMA ConfigureType ==
  ASSUME NEW r \in Relay, NEW cfg \in Config, NEW loaded \in Saved \union {BadToken},
         r.run = "report" => r.result # "none"
  PROVE  LET s == configure(r, cfg, loaded) IN
         /\ s \in Relay /\ s.run = r.run /\ s.result = r.result /\ s.owned = r.owned /\ s.env = cfg.env
         /\ s.tok = IF loaded = BadToken THEN NoToken ELSE loaded
<1> DEFINE tok == IF loaded = BadToken THEN NoToken ELSE loaded
           changed == r.addr # cfg.addr \/ r.env # cfg.env \/ r.tok # tok
           state == IF loaded = BadToken THEN "error"
                    ELSE IF tok = NoToken THEN "no_token"
                    ELSE IF changed /\ r.state = "ready" THEN "starting" ELSE r.state
<1>1. tok \in Saved /\ cfg.addr \in Addrs /\ cfg.env \in BOOLEAN
  BY DEF Saved, Config
<1>2. state \in Answers \union {"stopped", "no_token", "error"}
  BY DEF Relay, Answers
<1> DEFINE kick == r.kick \/ changed
           s == [r EXCEPT !.addr = cfg.addr, !.env = cfg.env, !.tok = tok, !.state = state, !.kick = kick]
<1>3. kick \in BOOLEAN
  OBVIOUS
<1>4. configure(r, cfg, loaded) = s
  BY DEF configure
<1> HIDE DEF tok, changed, state, kick
<1>5. s \in Relay
  BY <1>1, <1>2, <1>3 DEF Relay
<1>6. s.run = r.run /\ s.result = r.result /\ s.owned = r.owned /\ s.env = cfg.env /\ s.tok = tok
  BY DEF Relay
<1> HIDE DEF s
<1>7. QED
  BY <1>4, <1>5, <1>6 DEF tok

LEMMA NewType ==
  ASSUME NEW cfg \in Config, NEW loaded \in Saved \union {BadToken}
  PROVE  LET s == newRelay(cfg, loaded) IN
         /\ s \in Relay /\ s.run = "off" /\ s.env = cfg.env
         /\ s.tok = IF loaded = BadToken THEN NoToken ELSE loaded
<1> DEFINE blank == [addr |-> cfg.addr, env |-> cfg.env, tok |-> NoToken, state |-> "stopped", health |-> Unmeasured,
                owned |-> FALSE, cancelled |-> FALSE, kick |-> TRUE,
                run |-> "off", asks |-> NoToken, result |-> "none"]
<1>1. blank \in Relay /\ blank.run = "off"
  BY DEF Relay, Saved, Config, Answers
<1>2. newRelay(cfg, loaded) = configure(blank, cfg, loaded)
  BY DEF newRelay
<1> HIDE DEF blank
<1>3. QED
  BY <1>1, <1>2, ConfigureType

LEMMA StartType ==
  ASSUME NEW r \in Relay, r.run = "report" => r.result # "none"
  PROVE  /\ start(r) \in Relay /\ (start(r).run = "report" => start(r).result # "none")
         /\ start(r).tok = r.tok /\ start(r).env = r.env
         /\ start(r) = r \/ start(r).owned
         /\ ctx' = "cancelled" => start(r) = r
<1> DEFINE state == IF r.tok # NoToken /\ r.state # "error" THEN "starting" ELSE r.state
<1>1. CASE r.owned \/ ctx' = "cancelled"
  BY <1>1 DEF start
<1>2. CASE ~(r.owned \/ ctx' = "cancelled")
  <2>1. start(r) = [r EXCEPT !.owned = TRUE, !.run = "probe", !.state = state]
    BY <1>2 DEF start
  <2>2. state \in Answers \union {"stopped", "no_token", "error"}
    BY DEF Relay, Answers
  <2> HIDE DEF state
  <2>3. QED
    BY <1>2, <2>1, <2>2 DEF Relay
<1>3. QED BY <1>1, <1>2

-----------------------------------------------------------------------------
(* Types: the steps.                                                       *)

LEMMA OutsideStay ==
  ASSUME OutsideOK, UNCHANGED <<outside, ctx, file, mu>>
  PROVE  OutsideOK'
BY DEF OutsideOK, outside

Live(i) == relays[i].run \notin {"off", "ended"}

\* A step of a loop or a connection: it starts no loop, and changes neither the
\* token of a relay nor whose the loop is.
Calm(i, r) ==
  /\ i \in Is /\ r \in Relay /\ Set(i, r)
  /\ r.run = "report" => r.result # "none"
  /\ r.env = relays[i].env /\ r.tok = relays[i].tok /\ r.owned = relays[i].owned
  /\ r.run \notin {"off", "ended"} => Live(i)

LEMMA CalmType ==
  ASSUME TypeOK, NEW i, NEW r, Calm(i, r), UNCHANGED <<outside, ctx, file, mu, cur, group>>
  PROVE  /\ OutsideOK' /\ RelaysOK' /\ Len(relays') = Len(relays)
         /\ UNCHANGED thr => CallersOK'
         /\ UNCHANGED conn => ConnsOK'
<1>1. OutsideOK'
  BY OutsideStay DEF TypeOK
<1>2. RelaysOK' /\ Len(relays') = Len(relays)
  BY RelaysSet, RelaySet DEF TypeOK, Calm
<1>3. Len(relays) \in Nat
  BY LenNat DEF TypeOK
<1>4. QED
  BY <1>1, <1>2, <1>3, CallersStay, ConnsStay DEF TypeOK

LEMMA LoopStep ==
  ASSUME TypeOK, NEW i \in Is, run(i)
  PROVE  UNCHANGED <<outside, ctx, file, mu, cur, group, thr, conn>> /\ \E r : Calm(i, r)
<1> DEFINE q == relays[i]
<1>1. q \in Relay /\ (q.run = "report" => q.result # "none")
  BY RelayOf DEF TypeOK
<1>2. UNCHANGED <<outside, ctx, file, mu, cur, group, thr, conn>>
  BY DEF run, Probe, Ask, Report, Wait
<1>3. CASE Probe(i)
  <2> DEFINE r1 == [q EXCEPT !.run = "ask", !.asks = q.tok]
             s == IF q.state = "error" THEN q.state ELSE "no_token"
             r2 == [q EXCEPT !.run = "wait", !.state = s]
  <2>1. q.run = "probe" /\ (Set(i, r1) \/ Set(i, r2))
    BY <1>3 DEF Probe, Set
  <2>2. s \in {"error", "no_token"}
    OBVIOUS
  <2> HIDE DEF q, s
  <2>3. /\ r1 \in Relay /\ r1.run = "ask" /\ r1.env = q.env /\ r1.tok = q.tok /\ r1.owned = q.owned
        /\ r2 \in Relay /\ r2.run = "wait" /\ r2.env = q.env /\ r2.tok = q.tok /\ r2.owned = q.owned
    BY <1>1, <2>2 DEF Relay
  <2> HIDE DEF r1, r2
  <2>4. Calm(i, r1) \/ Calm(i, r2)
    BY <2>1, <2>3 DEF Calm, Live, q
  <2>5. QED BY <1>2, <2>4
<1>4. CASE Ask(i)
  <2> DEFINE a == answer(q, q.asks)
             r1 == [q EXCEPT !.run = "report", !.asks = NoToken, !.result = a]
             r2 == [q EXCEPT !.run = "wait", !.asks = NoToken]
  <2>1. q.run = "ask" /\ (Set(i, r1) \/ Set(i, r2))
    BY <1>4 DEF Ask, Set
  <2>2. a \in Answers /\ a # "none" /\ NoToken \in Saved
    BY AnswerType DEF Answers, Saved
  <2> HIDE DEF q, a
  <2>3. /\ r1 \in Relay /\ r1.run = "report" /\ r1.result # "none" /\ r1.env = q.env /\ r1.tok = q.tok /\ r1.owned = q.owned
        /\ r2 \in Relay /\ r2.run = "wait" /\ r2.env = q.env /\ r2.tok = q.tok /\ r2.owned = q.owned
    BY <1>1, <2>2 DEF Relay
  <2> HIDE DEF r1, r2
  <2>4. Calm(i, r1) \/ Calm(i, r2)
    BY <2>1, <2>3 DEF Calm, Live, q
  <2>5. QED BY <1>2, <2>4
<1>5. CASE Report(i)
  <2> DEFINE r1 == [q EXCEPT !.run = "wait", !.result = "none", !.state = q.result]
  <2>1. q.run = "report" /\ Set(i, r1)
    BY <1>5 DEF Report, Set
  <2> HIDE DEF q
  <2>2. q.result \in Answers
    BY <1>1, <2>1 DEF Relay
  <2>3. r1 \in Relay /\ r1.run = "wait" /\ r1.env = q.env /\ r1.tok = q.tok /\ r1.owned = q.owned
    BY <1>1, <2>2 DEF Relay
  <2> HIDE DEF r1
  <2>4. Calm(i, r1)
    BY <2>1, <2>3 DEF Calm, Live, q
  <2>5. QED BY <1>2, <2>4
<1>6. CASE Wait(i)
  <2> DEFINE r1 == [q EXCEPT !.run = "ended"]
             r2 == [q EXCEPT !.run = "probe", !.kick = FALSE]
             r3 == [q EXCEPT !.run = "probe"]
  <2>1. q.run = "wait" /\ (Set(i, r1) \/ Set(i, r2) \/ Set(i, r3))
    BY <1>6 DEF Wait, Set
  <2> HIDE DEF q
  <2>2. /\ r1 \in Relay /\ r1.run = "ended" /\ r1.env = q.env /\ r1.tok = q.tok /\ r1.owned = q.owned
        /\ r2 \in Relay /\ r2.run = "probe" /\ r2.env = q.env /\ r2.tok = q.tok /\ r2.owned = q.owned
        /\ r3 \in Relay /\ r3.run = "probe" /\ r3.env = q.env /\ r3.tok = q.tok /\ r3.owned = q.owned
    BY <1>1 DEF Relay
  <2> HIDE DEF r1, r2, r3
  <2>3. Calm(i, r1) \/ Calm(i, r2) \/ Calm(i, r3)
    BY <2>1, <2>2 DEF Calm, Live, q
  <2>4. QED BY <1>2, <2>3
<1>7. QED BY <1>3, <1>4, <1>5, <1>6 DEF run

\* Connections: they change at most the state and the health of a relay.
LEMMA ReportStep ==
  ASSUME TypeOK, NEW d \in Conns, ReportConn(d)
  PROVE  /\ \E i, r : Calm(i, r)
         /\ conn' = [conn EXCEPT ![d] = unused]
         /\ UNCHANGED <<outside, ctx, file, mu, cur, group, thr>>
<1> DEFINE c == conn[d]
           q == relays[c.relay]
           r == recorded(q, c.result)
           s == IF d # Health THEN r ELSE [r EXCEPT !.health = IF c.result = "ready" THEN 1 ELSE Failed]
<1>1. c \in Connection /\ c.relay \in Is /\ c.result # "none"
  BY LenNat DEF ReportConn, TypeOK, ConnsOK, ConnOK, Connection, Is, None
<1>2. q \in Relay /\ (q.run = "report" => q.result # "none")
  BY <1>1, RelayOf DEF TypeOK
<1>3. Set(c.relay, s) /\ UNCHANGED <<outside, ctx, file, mu, cur, group, thr>> /\ conn' = [conn EXCEPT ![d] = unused]
  BY DEF ReportConn
<1>4. r \in Relay /\ r.run = q.run /\ r.result = q.result /\ r.env = q.env /\ r.tok = q.tok /\ r.owned = q.owned
  <2>1. c.result = "reply" \/ c.result \in Answers
    BY <1>1 DEF Connection
  <2> HIDE DEF q, c
  <2>2. QED BY <1>2, <2>1 DEF recorded, Relay
<1>5. s \in Relay /\ s.run = q.run /\ s.result = q.result /\ s.env = q.env /\ s.tok = q.tok /\ s.owned = q.owned
  <2> HIDE DEF r
  <2>1. QED BY <1>4 DEF Relay
<1> HIDE DEF s, r
<1>6. Calm(c.relay, s)
  BY <1>1, <1>2, <1>3, <1>5 DEF Calm, Live
<1>7. QED BY <1>3, <1>6

LEMMA HealthStep ==
  ASSUME TypeOK, CheckHealth
  PROVE  /\ UNCHANGED <<outside, ctx, file, mu, cur, group, thr>>
         /\ \/ UNCHANGED relays /\ \E c \in Connection : /\ conn' = [conn EXCEPT ![Health] = c]
                                                          /\ c.pc = "ask" /\ c.relay \in Is
            \/ UNCHANGED conn /\ \E i, r : Calm(i, r)
<1> DEFINE i == group.relay
           q == relays[i]
           r == [q EXCEPT !.health = Failed]
           c == [unused EXCEPT !.pc = "ask", !.relay = i, !.tok = q.tok]
<1>1. i \in Is
  BY LenNat DEF CheckHealth, CheckDue, TypeOK, RelaysOK, Is, None
<1>2. q \in Relay /\ (q.run = "report" => q.result # "none")
  BY <1>1, RelayOf DEF TypeOK
<1>3. /\ UNCHANGED <<outside, ctx, file, mu, cur, group, thr>>
      /\ \/ UNCHANGED relays /\ conn' = [conn EXCEPT ![Health] = c]
         \/ UNCHANGED conn /\ Set(i, r)
  BY DEF CheckHealth
<1>4. c \in Connection /\ c.pc = "ask" /\ c.relay = i
  <2>1. i \in Nat /\ q.tok \in Saved
    BY <1>1, <1>2 DEF Relay, Is
  <2> HIDE DEF i, q
  <2>2. QED BY <2>1, AskType
<1>5. r \in Relay /\ r.run = q.run /\ r.result = q.result /\ r.env = q.env /\ r.tok = q.tok /\ r.owned = q.owned
  <2> HIDE DEF q
  <2>1. QED BY <1>2 DEF Relay
<1> HIDE DEF r, c
<1>6. Set(i, r) => Calm(i, r)
  BY <1>1, <1>2, <1>5 DEF Calm, Live
<1>7. QED BY <1>1, <1>3, <1>4, <1>6

LEMMA ConnectionType ==
  ASSUME TypeOK
  PROVE  /\ \A d \in Dialers : Dial(d) => TypeOK'
         /\ CheckHealth => TypeOK'
         /\ \A d \in Conns : AskConn(d) => TypeOK'
         /\ \A d \in Conns : ReportConn(d) => TypeOK'
<1>0. Len(relays) \in Nat /\ OutsideOK /\ RelaysOK /\ CallersOK /\ ConnsOK
  BY LenNat DEF TypeOK
<1>1. ASSUME NEW d \in Conns, NEW c \in Connection, conn' = [conn EXCEPT ![d] = c],
             c.pc # "idle" => c.relay \in Is, c.relay \in 0..Len(relays), c.pc = "report" => c.result # "none",
             UNCHANGED <<cur, group, relays, thr>>, OutsideOK'
      PROVE  TypeOK'
  <2>1. RelaysOK'
    BY <1>0, <1>1 DEF RelaysOK, Is
  <2>2. CallersOK'
    BY <1>0, <1>1, CallersStay
  <2>3. ConnsOK'
    <3>1. c.pc # "idle" => c.relay # None
      BY <1>1 DEF Is, None
    <3>2. QED BY <1>0, <1>1, <3>1, ConnSet
  <2>4. QED BY <1>1, <2>1, <2>2, <2>3 DEF TypeOK
<1>2. ASSUME NEW d \in Dialers, Dial(d) PROVE TypeOK'
  <2> DEFINE q == relays[cur]
             c == [unused EXCEPT !.pc = "ask", !.relay = cur, !.tok = q.tok]
  <2>1. cur \in Is /\ conn' = [conn EXCEPT ![d] = c] /\ UNCHANGED <<outside, ctx, file, mu, cur, group, relays, thr>>
    BY <1>0, <1>2 DEF Dial, RelaysOK, Is, None
  <2>2. q \in Relay
    BY <1>0, <2>1, RelayOf
  <2>3. c \in Connection /\ c.pc = "ask" /\ c.relay = cur
    <3>1. cur \in Nat /\ q.tok \in Saved
      BY <2>1, <2>2 DEF Relay, Is
    <3> HIDE DEF q
    <3>2. QED BY <3>1, AskType
  <2> HIDE DEF c
  <2>4. OutsideOK' /\ d \in Conns /\ c.relay \in 0..Len(relays)
    BY <1>0, <2>1, <2>3, OutsideStay DEF Conns, Is
  <2>5. QED BY <1>1, <2>1, <2>3, <2>4
<1>3. ASSUME CheckHealth PROVE TypeOK'
  <2>1. UNCHANGED <<outside, ctx, file, mu, cur, group, thr>>
    BY <1>3, HealthStep
  <2>2. CASE UNCHANGED relays
    <3>1. CASE UNCHANGED conn
      BY <1>0, <2>1, <2>2, <3>1, OutsideStay, CallersStay, ConnsStay DEF TypeOK, RelaysOK, Is
    <3>2. CASE \E c \in Connection : conn' = [conn EXCEPT ![Health] = c] /\ c.pc = "ask" /\ c.relay \in Is
      <4>1. PICK c \in Connection : conn' = [conn EXCEPT ![Health] = c] /\ c.pc = "ask" /\ c.relay \in Is
        BY <3>2
      <4>2. OutsideOK' /\ Health \in Conns /\ c.relay \in 0..Len(relays)
        BY <1>0, <2>1, <4>1, OutsideStay DEF Conns, Is
      <4>3. QED BY <1>1, <2>1, <2>2, <4>1, <4>2
    <3>3. QED BY <1>3, <3>1, <3>2, HealthStep
  <2>3. CASE UNCHANGED conn /\ \E i, r : Calm(i, r)
    BY <2>1, <2>3, CalmType DEF TypeOK
  <2>4. QED BY <1>3, <2>2, <2>3, HealthStep
<1>4. ASSUME NEW d \in Conns, AskConn(d) PROVE TypeOK'
  <2> DEFINE a == answer(relays[conn[d].relay], conn[d].tok)
  <2>1. PICK x \in {a, "unreachable", "reply"} : conn' = [conn EXCEPT ![d].pc = "report", ![d].result = x]
    BY <1>4 DEF AskConn
  <2> DEFINE c == [conn[d] EXCEPT !.pc = "report", !.result = x]
  <2>2. conn[d] \in Connection /\ conn[d].relay \in Is
    BY <1>0, <1>4 DEF AskConn, ConnsOK, ConnOK, Is, None
  <2>3. x \in Answers \union {"reply"} /\ x # "none"
    BY AnswerType DEF Answers
  <2>4. conn' = [conn EXCEPT ![d] = c]
    BY <1>0, <2>1 DEF ConnsOK
  <2>5. c \in Connection /\ c.pc = "report" /\ c.relay = conn[d].relay /\ c.result = x
    BY <2>2, <2>3 DEF Connection
  <2>6. OutsideOK' /\ UNCHANGED <<cur, group, relays, thr>>
    <3>1. changes' = changes \/ (changes > 0 /\ changes' = changes - 1)
      BY <1>4 DEF AskConn
    <3>2. UNCHANGED <<env, accepts, tailnet, ctx, file, mu, cur, group, relays, thr>>
      BY <1>4 DEF AskConn
    <3>3. QED BY <1>0, <3>1, <3>2 DEF OutsideOK
  <2> HIDE DEF c
  <2>7. c.relay \in Is /\ c.relay \in 0..Len(relays)
    BY <2>2, <2>5 DEF Is
  <2>8. QED BY <1>1, <2>3, <2>4, <2>5, <2>6, <2>7
<1>5. ASSUME NEW d \in Conns, ReportConn(d) PROVE TypeOK'
  <2>1. unused \in Connection /\ unused.pc = "idle" /\ unused.relay \in 0..Len(relays)
    BY <1>0, UnusedType
  <2>2. PICK i, r : Calm(i, r)
    BY <1>5, ReportStep
  <2>3. conn' = [conn EXCEPT ![d] = unused] /\ UNCHANGED <<outside, ctx, file, mu, cur, group, thr>>
    BY <1>5, ReportStep
  <2>4. OutsideOK' /\ RelaysOK' /\ CallersOK' /\ Len(relays') = Len(relays)
    BY <2>2, <2>3, CalmType
  <2>5. ConnsOK'
    BY <1>0, <2>1, <2>3, <2>4, ConnSet
  <2>6. QED BY <2>4, <2>5 DEF TypeOK
<1>6. QED BY <1>2, <1>3, <1>4, <1>5

-----------------------------------------------------------------------------
(* Types: the callers.  Each lemma says what a step of a caller changes, as *)
(* far as the later invariants ask.                                        *)

Others(t) == \A u \in Callers : u # t => thr'[u] = thr[u]

\* Caller t has become c, and nobody else has moved.
Becomes(t, c) == c \in Caller /\ thr'[t] = c /\ Others(t)

LEMMA IdleType ==
  ASSUME OutsideOK
  PROVE  /\ idle \in Caller /\ idle.pc = "idle" /\ idle.made = 0 /\ idle.gone = 0
         /\ LET c == [idle EXCEPT !.pc = "done"] IN
            c \in Caller /\ c.pc = "done" /\ c.made = 0 /\ c.gone = 0
<1>1. env.first \in Config /\ NoToken \in Saved
  BY DEF OutsideOK, Env, Saved
<1>2. QED BY <1>1 DEF idle, Caller, None

LEMMA CallerOf ==
  ASSUME TypeOK, NEW t \in Callers
  PROVE  /\ thr[t] \in Caller /\ CallerOK(t)
         /\ thr[t].gone \in Nat /\ thr[t].made \in Nat
         /\ thr[t].gone # None => thr[t].gone \in Is
         /\ thr[t].made # None => thr[t].made \in Is
BY LenNat DEF TypeOK, CallersOK, CallerOK, Caller, Is, None

LEMMA ThrSet ==
  ASSUME TypeOK, NEW t \in Callers, NEW c \in Caller, thr' = [thr EXCEPT ![t] = c]
  PROVE  Becomes(t, c)
BY DEF TypeOK, CallersOK, Becomes, Others

LEMMA DoneStep ==
  ASSUME TypeOK, NEW t \in Callers, Done(t), RelaysOK', Len(relays') >= Len(relays)
  PROVE  /\ CallersOK'
         /\ \E c : Becomes(t, c) /\ c.pc = "done" /\ c.made = 0 /\ c.gone = 0
<1> DEFINE c == [idle EXCEPT !.pc = "done"]
<1>1. c \in Caller /\ c.pc = "done" /\ c.made = 0 /\ c.gone = 0
  BY IdleType DEF TypeOK
<1>2. thr' = [thr EXCEPT ![t] = c]
  BY DEF Done
<1>3. Len(relays') \in Nat
  BY DEF RelaysOK
<1> HIDE DEF c
<1>4. Becomes(t, c)
  BY <1>1, <1>2, ThrSet
<1>5. /\ c.made \in 0..Len(relays') /\ c.gone \in 0..Len(relays')
      /\ c.pc \in {"save", "use"} => c.made # None /\ c.tok \in Saved
      /\ c.pc \in {"stop", "join", "forget"} => c.gone # None
  BY <1>1, <1>3
<1>6. RelaysOK /\ CallersOK
  BY DEF TypeOK
<1>7. CallersOK'
  BY <1>1, <1>2, <1>3, <1>5, <1>6, CallerSet
<1>8. QED BY <1>1, <1>4, <1>7

LEMMA RelaysStay ==
  ASSUME TypeOK, UNCHANGED <<cur, group, relays>>
  PROVE  RelaysOK' /\ Len(relays') = Len(relays) /\ Len(relays') >= Len(relays) /\ Len(relays') \in Nat /\ Is' = Is
BY LenNat DEF TypeOK, RelaysOK, Is

LEMMA SetTokenEffect ==
  ASSUME TypeOK, NEW t \in Requests, NEW tok \in Tokens, SetToken(t, tok)
  PROVE  /\ TypeOK' /\ MayBegin(t) /\ cur # None
         /\ UNCHANGED <<env, ctx, file, cur, relays>>
         /\ \E c : /\ Becomes(t, c)
                   /\ \/ c.pc = "done" /\ c.made = 0 /\ c.gone = 0
                      \/ c.pc = "save" /\ c.made = cur /\ c.gone = thr[t].gone /\ ~relays[cur].env
<1>0. t \in Callers /\ MayBegin(t) /\ cur # None /\ UNCHANGED <<outside, ctx, file, mu, cur, group, relays, conn>>
  BY DEF SetToken, Callers
<1>1. OutsideOK' /\ RelaysOK' /\ ConnsOK' /\ Len(relays') = Len(relays) /\ Len(relays') >= Len(relays) /\ Len(relays') \in Nat
  BY <1>0, OutsideStay, RelaysStay, ConnsStay DEF TypeOK
<1>2. CASE Done(t)
  <2>1. CallersOK' /\ \E c : Becomes(t, c) /\ c.pc = "done" /\ c.made = 0 /\ c.gone = 0
    BY <1>0, <1>1, <1>2, DoneStep
  <2>2. QED BY <1>0, <1>1, <2>1 DEF TypeOK, outside
<1>3. CASE ~relays[cur].env /\ thr' = [thr EXCEPT ![t].pc = "save", ![t].tok = tok, ![t].made = cur]
  <2> DEFINE c == [thr[t] EXCEPT !.pc = "save", !.tok = tok, !.made = cur]
  <2>1. thr' = [thr EXCEPT ![t] = c]
    BY <1>0, <1>3 DEF TypeOK, CallersOK
  <2>2. thr[t] \in Caller /\ thr[t].gone \in 0..Len(relays)
    BY <1>0, CallerOf DEF CallerOK
  <2>3. cur \in Nat /\ cur \in 0..Len(relays)
    BY DEF TypeOK, RelaysOK
  <2>4. c \in Caller /\ c.pc = "save" /\ c.made = cur /\ c.tok = tok /\ c.gone = thr[t].gone
    BY <2>2, <2>3 DEF Caller, Saved
  <2>5. tok \in Saved
    BY DEF Saved
  <2> HIDE DEF c
  <2>6. Becomes(t, c)
    BY <1>0, <2>1, <2>4, ThrSet
  <2>7. /\ c.made \in 0..Len(relays') /\ c.gone \in 0..Len(relays')
        /\ c.pc \in {"save", "use"} => c.made # None /\ c.tok \in Saved
        /\ c.pc \in {"stop", "join", "forget"} => c.gone # None
    BY <1>0, <1>1, <2>2, <2>3, <2>4, <2>5
  <2>8. RelaysOK /\ CallersOK
    BY DEF TypeOK
  <2>9. CallersOK'
    BY <1>0, <1>1, <2>1, <2>4, <2>7, <2>8, CallerSet
  <2>10. QED BY <1>0, <1>1, <1>3, <2>4, <2>6, <2>9 DEF TypeOK, outside
<1>4. QED BY <1>2, <1>3 DEF SetToken

\* A caller goes on to pc without anything to remember.
LEMMA GotoStep ==
  ASSUME TypeOK, NEW t \in Callers, NEW pc \in {"use", "stop", "join", "forget"}, Goto(t, pc),
         Len(relays') \in Nat, Len(relays') >= Len(relays),
         pc = "use" => thr[t].pc = "save",
         pc # "use" => thr[t].gone # None
  PROVE  /\ CallersOK'
         /\ \E c : /\ Becomes(t, c) /\ c.pc = pc
                   /\ c.made = thr[t].made /\ c.gone = thr[t].gone /\ c.tok = thr[t].tok
<1> DEFINE c == [thr[t] EXCEPT !.pc = pc]
<1>1. thr' = [thr EXCEPT ![t] = c]
  BY DEF Goto, TypeOK, CallersOK
<1>2. thr[t] \in Caller /\ CallerOK(t)
  BY CallerOf
<1>3. c \in Caller /\ c.pc = pc /\ c.made = thr[t].made /\ c.gone = thr[t].gone /\ c.tok = thr[t].tok
  BY <1>2 DEF Caller
<1> HIDE DEF c
<1>4. Becomes(t, c)
  BY <1>1, <1>3, ThrSet
<1>5. /\ c.made \in 0..Len(relays') /\ c.gone \in 0..Len(relays')
      /\ c.pc \in {"save", "use"} => c.made # None /\ c.tok \in Saved
      /\ c.pc \in {"stop", "join", "forget"} => c.gone # None
  BY <1>2, <1>3, LenNat DEF CallerOK, TypeOK
<1>6. CallersOK'
  BY <1>1, <1>3, <1>5, CallerSet DEF TypeOK
<1>7. QED BY <1>3, <1>4, <1>6

LEMMA SaveTokenEffect ==
  ASSUME TypeOK, NEW t \in Callers, SaveToken(t)
  PROVE  /\ TypeOK' /\ at(t, "save")
         /\ UNCHANGED <<env, ctx, cur, relays>>
         /\ \E c : /\ Becomes(t, c)
                   /\ \/ file' = thr[t].tok /\ c.pc = "use"
                         /\ c.made = thr[t].made /\ c.gone = thr[t].gone /\ c.tok = thr[t].tok
                      \/ file' = file /\ c.pc = "done" /\ c.made = 0 /\ c.gone = 0
<1>1. /\ at(t, "save") /\ UNCHANGED <<outside, ctx, mu, cur, group, relays, conn>>
      /\ (file' = thr[t].tok /\ Goto(t, "use")) \/ (file' = file /\ Done(t))
  BY DEF SaveToken
<1>2. RelaysOK' /\ ConnsOK' /\ Len(relays') = Len(relays) /\ Len(relays') >= Len(relays) /\ Len(relays') \in Nat
  BY <1>1, RelaysStay, ConnsStay DEF TypeOK
<1>3. OutsideOK'
  <2>1. thr[t].tok \in Saved
    BY <1>1, CallerOf DEF CallerOK, at
  <2>2. QED BY <1>1, <2>1 DEF TypeOK, OutsideOK, outside
<1>4. CASE file' = thr[t].tok /\ Goto(t, "use")
  <2>1. CallersOK' /\ \E c : /\ Becomes(t, c) /\ c.pc = "use"
                             /\ c.made = thr[t].made /\ c.gone = thr[t].gone /\ c.tok = thr[t].tok
    BY <1>1, <1>2, <1>4, GotoStep DEF at
  <2>2. QED BY <1>1, <1>2, <1>3, <1>4, <2>1 DEF TypeOK, outside
<1>5. CASE file' = file /\ Done(t)
  <2>1. CallersOK' /\ \E c : Becomes(t, c) /\ c.pc = "done" /\ c.made = 0 /\ c.gone = 0
    BY <1>2, <1>5, DoneStep
  <2>2. QED BY <1>1, <1>2, <1>3, <1>5, <2>1 DEF TypeOK, outside
<1>6. QED BY <1>1, <1>4, <1>5

LEMMA UseTokenEffect ==
  ASSUME TypeOK, NEW t \in Callers, UseToken(t)
  PROVE  /\ TypeOK' /\ at(t, "use") /\ thr[t].made \in Is /\ Is' = Is
         /\ UNCHANGED <<env, ctx, file, cur>>
         /\ relays'[thr[t].made].tok = thr[t].tok
         /\ \A j \in Is : /\ relays'[j].run = relays[j].run /\ relays'[j].owned = relays[j].owned
                          /\ relays'[j].env = relays[j].env
                          /\ j # thr[t].made => relays'[j].tok = relays[j].tok
         /\ \E c : Becomes(t, c) /\ c.pc = "done" /\ c.made = 0 /\ c.gone = 0
<1> DEFINE i == thr[t].made
           q == relays[i]
           r == [q EXCEPT !.tok = thr[t].tok, !.state = "starting", !.kick = TRUE]
<1>1. at(t, "use") /\ Set(i, r) /\ Done(t) /\ UNCHANGED <<outside, ctx, file, mu, cur, group, conn>>
  BY DEF UseToken
<1>2. i \in Is /\ thr[t].tok \in Saved
  BY <1>1, CallerOf DEF CallerOK, at
<1>3. q \in Relay /\ (q.run = "report" => q.result # "none")
  BY <1>2, RelayOf DEF TypeOK
<1>4. r \in Relay /\ r.tok = thr[t].tok /\ r.run = q.run /\ r.result = q.result /\ r.owned = q.owned /\ r.env = q.env
  BY <1>2, <1>3 DEF Relay, Answers
<1> HIDE DEF r, i
<1>5. /\ relays' \in Seq(Relay) /\ Len(relays') = Len(relays) /\ Is' = Is
      /\ relays'[i] = r /\ \A j \in Is : j # i => relays'[j] = relays[j]
  BY <1>1, <1>2, <1>3, <1>4, RelaySet DEF TypeOK
<1>6. RelaysOK'
  BY <1>1, <1>2, <1>3, <1>4, RelaysSet DEF TypeOK
<1>7. Len(relays') \in Nat /\ Len(relays') >= Len(relays) /\ OutsideOK' /\ ConnsOK'
  BY <1>1, <1>5, LenNat, OutsideStay, ConnsStay DEF TypeOK
<1>8. CallersOK' /\ \E c : Becomes(t, c) /\ c.pc = "done" /\ c.made = 0 /\ c.gone = 0
  BY <1>1, <1>6, <1>7, DoneStep
<1>9. QED BY <1>1, <1>2, <1>4, <1>5, <1>6, <1>7, <1>8 DEF TypeOK, outside, i, q

LEMMA ApplyEffect ==
  ASSUME TypeOK, NEW t \in Requests, NEW cfg \in Config, Apply(t, cfg)
  PROVE  /\ TypeOK' /\ MayBegin(t)
         /\ UNCHANGED <<env, ctx, file, cur, relays>>
         /\ \E c : /\ Becomes(t, c) /\ c.pc = "configure" /\ c.made = thr[t].made /\ c.gone = thr[t].gone
                   /\ c.tok \in loadToken(c.cfg.env)
<1> PICK tok \in loadToken(cfg.env) :
      thr' = [thr EXCEPT ![t].pc = "configure", ![t].cfg = cfg, ![t].tok = tok]
  BY DEF Apply
<1> DEFINE c == [thr[t] EXCEPT !.pc = "configure", !.cfg = cfg, !.tok = tok]
<1>0. t \in Callers /\ MayBegin(t) /\ mu' = t /\ UNCHANGED <<outside, ctx, file, cur, group, relays, conn>>
  BY DEF Apply, Callers
<1>1. thr' = [thr EXCEPT ![t] = c]
  BY <1>0 DEF TypeOK, CallersOK
<1>2. thr[t] \in Caller /\ CallerOK(t)
  BY <1>0, CallerOf
<1>3. tok \in Saved \union {BadToken}
  BY LoadType DEF TypeOK, Config
<1>4. /\ c \in Caller /\ c.pc = "configure" /\ c.made = thr[t].made /\ c.gone = thr[t].gone
      /\ c.cfg = cfg /\ c.tok = tok
  BY <1>2, <1>3 DEF Caller
<1> HIDE DEF c
<1>5. Becomes(t, c)
  BY <1>0, <1>1, <1>4, ThrSet
<1>6. RelaysOK' /\ ConnsOK' /\ Len(relays') = Len(relays) /\ Len(relays') >= Len(relays) /\ Len(relays') \in Nat
  BY <1>0, RelaysStay, ConnsStay DEF TypeOK
<1>a. /\ c.made \in 0..Len(relays') /\ c.gone \in 0..Len(relays')
      /\ c.pc \in {"save", "use"} => c.made # None /\ c.tok \in Saved
      /\ c.pc \in {"stop", "join", "forget"} => c.gone # None
  BY <1>2, <1>4, <1>6 DEF CallerOK
<1>b. RelaysOK /\ CallersOK
  BY DEF TypeOK
<1>7. CallersOK'
  BY <1>0, <1>1, <1>4, <1>6, <1>a, <1>b, CallerSet
<1>8. OutsideOK'
  BY <1>0 DEF TypeOK, OutsideOK, outside
<1>9. QED BY <1>0, <1>4, <1>5, <1>6, <1>7, <1>8 DEF TypeOK, outside

NewToken(t) ==
  /\ relays'[cur'].env = thr[t].cfg.env
  /\ relays'[cur'].tok = IF thr[t].tok = BadToken THEN NoToken ELSE thr[t].tok

LEMMA ConfigureEffect ==
  ASSUME TypeOK, NEW t \in Callers, Configure(t)
  PROVE  /\ TypeOK' /\ at(t, "configure")
         /\ UNCHANGED <<env, ctx, file>>
         /\ \E c : /\ Becomes(t, c) /\ c.pc = "start"
                   /\ c.made = IF cur = None THEN cur' ELSE None
                   /\ c.gone = IF cur' = None THEN cur ELSE None
         /\ \/ relays' = relays /\ cur' = 0
            \/ /\ cur = 0 /\ cur' = Len(relays) + 1 /\ Is' = Is \union {cur'} /\ cur' \notin Is
               /\ \A j \in Is : relays'[j] = relays[j]
               /\ relays'[cur'].run = "off" /\ NewToken(t)
            \/ /\ cur \in Is /\ cur' = cur /\ Is' = Is
               /\ \A j \in Is : j # cur => relays'[j] = relays[j]
               /\ relays'[cur].run = relays[cur].run /\ relays'[cur].owned = relays[cur].owned /\ NewToken(t)
<1> DEFINE cfg == thr[t].cfg
           loaded == thr[t].tok
           c == [thr[t] EXCEPT !.pc = "start", !.made = IF cur = None THEN cur' ELSE None,
                               !.gone = IF cur' = None THEN cur ELSE None]
<1>0. at(t, "configure") /\ mu' = None /\ UNCHANGED <<outside, ctx, file, conn>> /\ group' = [relay |-> cur', check |-> cfg.check]
  BY DEF Configure
<1>1. thr[t] \in Caller /\ cfg \in Config /\ loaded \in Saved \union {BadToken}
  BY CallerOf DEF Caller
<1>2. relays \in Seq(Relay) /\ Len(relays) \in Nat /\ cur \in 0..Len(relays)
  BY LenNat DEF TypeOK, RelaysOK
<1>3. OutsideOK'
  BY <1>0 DEF TypeOK, OutsideOK, outside
<1>4. thr' = [thr EXCEPT ![t] = c]
  <2> DEFINE made == IF cur = None THEN cur' ELSE None
             gone == IF cur' = None THEN cur ELSE None
  <2>1. thr' = [thr EXCEPT ![t].pc = "start", ![t].made = made, ![t].gone = gone]
    BY DEF Configure
  <2>2. thr \in [Callers -> Caller]
    BY DEF TypeOK, CallersOK
  <2>3. c = [thr[t] EXCEPT !.pc = "start", !.made = made, !.gone = gone]
    OBVIOUS
  <2> HIDE DEF made, gone, c
  <2>4. QED BY <2>1, <2>2, <2>3
<1>5. ASSUME RelaysOK', Len(relays') \in Nat, Len(relays') >= Len(relays)
      PROVE  TypeOK' /\ \E x : /\ Becomes(t, x) /\ x.pc = "start"
                               /\ x.made = IF cur = None THEN cur' ELSE None
                               /\ x.gone = IF cur' = None THEN cur ELSE None
  <2>1. cur' \in 0..Len(relays') /\ cur \in 0..Len(relays') /\ cur \in Nat /\ cur' \in Nat
    BY <1>2, <1>5 DEF RelaysOK
  <2>2. /\ c \in Caller /\ c.pc = "start"
        /\ c.made = IF cur = None THEN cur' ELSE None
        /\ c.gone = IF cur' = None THEN cur ELSE None
    BY <1>1, <2>1 DEF Caller, None
  <2> HIDE DEF c
  <2>3. Becomes(t, c)
    BY <1>4, <2>2, ThrSet
  <2>4. /\ c.made \in 0..Len(relays') /\ c.gone \in 0..Len(relays')
        /\ c.pc \in {"save", "use"} => c.made # None /\ c.tok \in Saved
        /\ c.pc \in {"stop", "join", "forget"} => c.gone # None
    BY <1>5, <2>1, <2>2 DEF None
  <2>5. RelaysOK /\ CallersOK /\ ConnsOK
    BY DEF TypeOK
  <2>6. CallersOK'
    BY <1>4, <1>5, <2>2, <2>4, <2>5, CallerSet
  <2>7. ConnsOK'
    BY <1>0, <1>5, <2>5, ConnsStay
  <2>8. QED BY <1>3, <1>5, <2>2, <2>3, <2>6, <2>7 DEF TypeOK
<1>6. cfg.check \in BOOLEAN
  BY <1>1 DEF Config
<1>7. CASE ~cfg.relay
  <2>1. relays' = relays /\ cur' = 0
    BY <1>7 DEF Configure, None
  <2>2. RelaysOK' /\ Len(relays') \in Nat /\ Len(relays') >= Len(relays)
    <3>1. cur' \in 0..Len(relays') /\ Is' = Is
      BY <1>2, <2>1 DEF Is
    <3>2. group' \in [relay : 0..Len(relays'), check : BOOLEAN]
      BY <1>0, <1>6, <3>1
    <3>3. \A j \in Is' : relays'[j].run = "report" => relays'[j].result # "none"
      BY <2>1, <3>1 DEF TypeOK, RelaysOK
    <3>4. QED BY <1>2, <2>1, <3>1, <3>2, <3>3 DEF RelaysOK
  <2>3. QED BY <1>0, <1>5, <2>1, <2>2 DEF outside
<1>8. CASE cfg.relay /\ cur = None
  <2> DEFINE s == newRelay(cfg, loaded)
  <2>1. relays' = Append(relays, s) /\ cur' = Len(relays) + 1
    BY <1>8 DEF Configure
  <2>2. s \in Relay /\ s.run = "off" /\ s.env = cfg.env /\ s.tok = IF loaded = BadToken THEN NoToken ELSE loaded
    BY <1>1, NewType
  <2> HIDE DEF s
  <2>3. /\ relays' \in Seq(Relay) /\ Len(relays') = Len(relays) + 1
        /\ \A j \in 1..Len(relays) : relays'[j] = relays[j]
        /\ relays'[cur'] = s
    BY <1>2, <2>1, <2>2, AppendProperties
  <2>4. Is' = Is \union {cur'} /\ cur' \notin Is
    BY <1>2, <2>1, <2>3 DEF Is
  <2>5. RelaysOK' /\ Len(relays') \in Nat /\ Len(relays') >= Len(relays)
    <3>1. \A j \in Is' : relays'[j].run = "report" => relays'[j].result # "none"
      BY <1>2, <2>2, <2>3, <2>4 DEF TypeOK, RelaysOK, Is
    <3>2. cur' \in 0..Len(relays')
      BY <1>2, <2>1, <2>3
    <3>3. QED BY <1>0, <1>2, <1>6, <2>3, <3>1, <3>2 DEF RelaysOK
  <2>6. NewToken(t) /\ relays'[cur'].run = "off"
    BY <2>2, <2>3 DEF NewToken
  <2>7. \A j \in Is : relays'[j] = relays[j]
    BY <2>3 DEF Is
  <2>8. QED BY <1>0, <1>5, <1>8, <2>1, <2>4, <2>5, <2>6, <2>7 DEF outside, None
<1>9. CASE cfg.relay /\ cur # None
  <2> DEFINE q == relays[cur]
             s == configure(q, cfg, loaded)
  <2>1. cur \in Is
    BY <1>2, <1>9 DEF Is, None
  <2>2. Set(cur, s) /\ cur' = cur
    BY <1>9 DEF Configure, Set
  <2>3. q \in Relay /\ (q.run = "report" => q.result # "none")
    BY <2>1, RelayOf DEF TypeOK
  <2>4. /\ s \in Relay /\ s.run = q.run /\ s.result = q.result /\ s.owned = q.owned
        /\ s.env = cfg.env /\ s.tok = IF loaded = BadToken THEN NoToken ELSE loaded
    BY <1>1, <2>3, ConfigureType
  <2> HIDE DEF s
  <2>5. /\ relays' \in Seq(Relay) /\ Len(relays') = Len(relays) /\ Is' = Is
        /\ relays'[cur] = s /\ \A j \in Is : j # cur => relays'[j] = relays[j]
        /\ \A j \in Is : relays'[j].run = "report" => relays'[j].result # "none"
    BY <2>1, <2>2, <2>3, <2>4, RelaySet DEF TypeOK
  <2>6. RelaysOK' /\ Len(relays') \in Nat /\ Len(relays') >= Len(relays)
    BY <1>0, <1>2, <1>6, <2>2, <2>5 DEF RelaysOK
  <2>7. NewToken(t)
    BY <2>2, <2>4, <2>5 DEF NewToken
  <2>8. QED BY <1>0, <1>5, <2>1, <2>2, <2>4, <2>5, <2>6, <2>7 DEF outside
<1>10. QED BY <1>7, <1>8, <1>9

LEMMA StartMadeEffect ==
  ASSUME TypeOK, NEW t \in Callers, StartMade(t)
  PROVE  /\ TypeOK' /\ at(t, "start") /\ Is' = Is
         /\ UNCHANGED <<env, ctx, file, cur>>
         /\ \E c : /\ Becomes(t, c)
                   /\ \/ thr[t].gone = None /\ c.pc = "done" /\ c.made = 0 /\ c.gone = 0
                      \/ thr[t].gone # None /\ c.pc = "stop" /\ c.made = thr[t].made /\ c.gone = thr[t].gone
         /\ \A j \in Is : /\ relays'[j].env = relays[j].env /\ relays'[j].tok = relays[j].tok
                          /\ \/ relays'[j].run = relays[j].run /\ relays'[j].owned = relays[j].owned
                             \/ j = thr[t].made /\ relays'[j].owned /\ ctx # "cancelled"
<1> DEFINE i == thr[t].made
           q == relays[i]
           r == start(q)
<1>0. at(t, "start") /\ UNCHANGED <<outside, ctx, file, mu, cur, group, conn>>
  BY DEF StartMade
<1>1. /\ RelaysOK' /\ Len(relays') \in Nat /\ Len(relays') >= Len(relays) /\ Is' = Is
      /\ \A j \in Is : /\ relays'[j].env = relays[j].env /\ relays'[j].tok = relays[j].tok
                       /\ \/ relays'[j].run = relays[j].run /\ relays'[j].owned = relays[j].owned
                          \/ j = i /\ relays'[j].owned /\ ctx # "cancelled"
  <2>1. CASE i = None
    BY <1>0, <2>1, RelaysStay DEF StartMade
  <2>2. CASE i # None
    <3>1. i \in Is /\ Set(i, r)
      BY <2>2, CallerOf DEF StartMade
    <3>2. q \in Relay /\ (q.run = "report" => q.result # "none")
      BY <3>1, RelayOf DEF TypeOK
    <3>3. /\ r \in Relay /\ (r.run = "report" => r.result # "none")
          /\ r.tok = q.tok /\ r.env = q.env
          /\ r = q \/ (r.owned /\ ctx # "cancelled")
      BY <1>0, <3>2, StartType
    <3> HIDE DEF r, i
    <3>4. RelaysOK /\ UNCHANGED <<cur, group>>
      BY <1>0 DEF TypeOK
    <3>5. /\ RelaysOK' /\ Len(relays') = Len(relays) /\ Is' = Is
          /\ relays'[i] = r /\ \A j \in Is : j # i => relays'[j] = relays[j]
      BY <3>1, <3>3, <3>4, RelaySet, RelaysSet
    <3>6. QED BY <3>3, <3>4, <3>5, LenNat DEF q
  <2>3. QED BY <2>1, <2>2
<1>2. OutsideOK' /\ ConnsOK'
  BY <1>0, <1>1, OutsideStay, ConnsStay DEF TypeOK
<1>3. CASE thr[t].gone = None
  <2>1. CallersOK' /\ \E c : Becomes(t, c) /\ c.pc = "done" /\ c.made = 0 /\ c.gone = 0
    BY <1>1, <1>3, DoneStep DEF StartMade
  <2>2. QED BY <1>0, <1>1, <1>2, <1>3, <2>1 DEF TypeOK, outside
<1>4. CASE thr[t].gone # None
  <2>1. CallersOK' /\ \E c : /\ Becomes(t, c) /\ c.pc = "stop" /\ c.made = thr[t].made /\ c.gone = thr[t].gone
    BY <1>1, <1>4, GotoStep DEF StartMade
  <2>2. QED BY <1>0, <1>1, <1>2, <1>4, <2>1 DEF TypeOK, outside
<1>5. QED BY <1>3, <1>4

LEMMA StopEffect ==
  ASSUME TypeOK, NEW t \in Callers, Stop(t)
  PROVE  /\ TypeOK' /\ at(t, "stop") /\ thr[t].gone \in Is /\ Is' = Is
         /\ UNCHANGED <<env, ctx, file, cur>>
         /\ \E c : /\ Becomes(t, c) /\ c.made = thr[t].made /\ c.gone = thr[t].gone
                   /\ c.pc = IF relays[thr[t].gone].owned THEN "join" ELSE "forget"
         /\ ~relays'[thr[t].gone].owned
         /\ \A j \in Is : /\ relays'[j].env = relays[j].env /\ relays'[j].tok = relays[j].tok /\ relays'[j].run = relays[j].run
                          /\ j # thr[t].gone => relays'[j] = relays[j]
<1> DEFINE i == thr[t].gone
           q == relays[i]
           r == [q EXCEPT !.owned = FALSE, !.cancelled = @ \/ q.owned]
           pc == IF q.owned THEN "join" ELSE "forget"
<1>0. at(t, "stop") /\ Set(i, r) /\ Goto(t, pc) /\ UNCHANGED <<outside, ctx, file, mu, cur, group, conn>>
  BY DEF Stop
<1>1. i \in Is /\ i # None
  BY <1>0, CallerOf DEF CallerOK, at
<1>2. q \in Relay /\ (q.run = "report" => q.result # "none")
  BY <1>1, RelayOf DEF TypeOK
<1>3. /\ r \in Relay /\ r.run = q.run /\ r.result = q.result /\ r.tok = q.tok /\ r.env = q.env /\ ~r.owned
  <2> HIDE DEF q
  <2>1. (q.cancelled \/ q.owned) \in BOOLEAN
    OBVIOUS
  <2>2. QED BY <1>2, <2>1 DEF Relay
<1> HIDE DEF r, i, pc
<1>4. RelaysOK /\ UNCHANGED <<cur, group>>
  BY <1>0 DEF TypeOK
<1>5. /\ RelaysOK' /\ Len(relays') = Len(relays) /\ Is' = Is
      /\ relays'[i] = r /\ \A j \in Is : j # i => relays'[j] = relays[j]
  BY <1>0, <1>1, <1>2, <1>3, <1>4, RelaySet, RelaysSet
<1>6. Len(relays') \in Nat /\ Len(relays') >= Len(relays)
  BY <1>4, <1>5, LenNat
<1>7. OutsideOK' /\ ConnsOK'
  BY <1>0, <1>6, OutsideStay, ConnsStay DEF TypeOK
<1>8. CallersOK' /\ \E c : Becomes(t, c) /\ c.pc = pc /\ c.made = thr[t].made /\ c.gone = thr[t].gone
  <2>1. pc \in {"use", "stop", "join", "forget"} /\ pc # "use"
    BY DEF pc
  <2>2. QED BY <1>0, <1>1, <1>6, <2>1, GotoStep DEF i
<1>9. QED BY <1>0, <1>1, <1>3, <1>5, <1>7, <1>8 DEF TypeOK, outside, i, q, pc

LEMMA JoinEffect ==
  ASSUME TypeOK, NEW t \in Callers, Join(t)
  PROVE  /\ TypeOK' /\ at(t, "join") /\ thr[t].gone \in Is /\ Is' = Is /\ relays[thr[t].gone].run = "ended"
         /\ UNCHANGED <<env, ctx, file, cur>>
         /\ \E c : Becomes(t, c) /\ c.pc = "forget" /\ c.made = thr[t].made /\ c.gone = thr[t].gone
         /\ \A j \in Is : /\ relays'[j].env = relays[j].env /\ relays'[j].tok = relays[j].tok
                          /\ relays'[j].run = relays[j].run /\ relays'[j].owned = relays[j].owned
<1> DEFINE i == thr[t].gone
           q == relays[i]
           r == [q EXCEPT !.state = "stopped"]
<1>0. at(t, "join") /\ q.run = "ended" /\ Set(i, r) /\ Goto(t, "forget") /\ UNCHANGED <<outside, ctx, file, mu, cur, group, conn>>
  BY DEF Join
<1>1. i \in Is /\ i # None
  BY <1>0, CallerOf DEF CallerOK, at
<1>2. q \in Relay /\ (q.run = "report" => q.result # "none")
  BY <1>1, RelayOf DEF TypeOK
<1>3. /\ r \in Relay /\ r.run = q.run /\ r.result = q.result /\ r.tok = q.tok /\ r.env = q.env /\ r.owned = q.owned
  <2> HIDE DEF q
  <2>1. QED BY <1>2 DEF Relay
<1> HIDE DEF r, i
<1>4. RelaysOK /\ UNCHANGED <<cur, group>>
  BY <1>0 DEF TypeOK
<1>5. /\ RelaysOK' /\ Len(relays') = Len(relays) /\ Is' = Is
      /\ relays'[i] = r /\ \A j \in Is : j # i => relays'[j] = relays[j]
  BY <1>0, <1>1, <1>2, <1>3, <1>4, RelaySet, RelaysSet
<1>6. Len(relays') \in Nat /\ Len(relays') >= Len(relays)
  BY <1>4, <1>5, LenNat
<1>7. OutsideOK' /\ ConnsOK'
  BY <1>0, <1>6, OutsideStay, ConnsStay DEF TypeOK
<1>8. CallersOK' /\ \E c : Becomes(t, c) /\ c.pc = "forget" /\ c.made = thr[t].made /\ c.gone = thr[t].gone
  BY <1>0, <1>1, <1>6, GotoStep DEF i
<1>9. QED BY <1>0, <1>1, <1>3, <1>5, <1>7, <1>8 DEF TypeOK, outside, i, q

LEMMA ForgetEffect ==
  ASSUME TypeOK, NEW t \in Callers, Forget(t)
  PROVE  /\ TypeOK' /\ at(t, "forget")
         /\ UNCHANGED <<env, ctx, cur, relays>>
         /\ \/ t # Main /\ file' = NoToken
            \/ (t = Main \/ "remove" \in env.faults) /\ file' = file
         /\ \E c : Becomes(t, c) /\ c.pc = "done" /\ c.made = 0 /\ c.gone = 0
<1>1. /\ at(t, "forget") /\ Done(t) /\ UNCHANGED <<outside, ctx, mu, cur, group, relays, conn>>
      /\ \/ t # Main /\ file' = NoToken
         \/ (t = Main \/ "remove" \in env.faults) /\ file' = file
  BY DEF Forget
<1>2. RelaysOK' /\ ConnsOK' /\ Len(relays') = Len(relays) /\ Len(relays') >= Len(relays) /\ Len(relays') \in Nat
  BY <1>1, RelaysStay, ConnsStay DEF TypeOK
<1>3. OutsideOK'
  BY <1>1 DEF TypeOK, OutsideOK, outside, Saved
<1>4. CallersOK' /\ \E c : Becomes(t, c) /\ c.pc = "done" /\ c.made = 0 /\ c.gone = 0
  BY <1>1, <1>2, DoneStep
<1>5. QED BY <1>1, <1>2, <1>3, <1>4 DEF TypeOK, outside

-----------------------------------------------------------------------------
(* Types: main and the outside.                                            *)

LEMMA InitType == ASSUME Init PROVE TypeOK /\ \A i \in Is : i = cur /\ relays[i].run = "off"
<1> PICK tok \in loadToken(env.first.env) :
      relays = IF env.first.relay THEN <<newRelay(env.first, tok)>> ELSE <<>>
  BY DEF Init
<1> DEFINE s == newRelay(env.first, tok)
<1>1. env \in Env
  BY EnvIsEnv DEF Init
<1>2. env.first \in Config /\ env.first.env \in BOOLEAN /\ env.first.check \in BOOLEAN
  BY <1>1 DEF Env, Config
<1>3. OutsideOK
  BY <1>1 DEF Init, OutsideOK, Env, Saved, None
<1>4. s \in Relay /\ s.run = "off"
  BY <1>2, <1>3, LoadType, NewType
<1> HIDE DEF s
<1>5. /\ relays = IF env.first.relay THEN <<s>> ELSE <<>>
      /\ cur = IF env.first.relay THEN 1 ELSE 0
      /\ group = [relay |-> cur, check |-> env.first.check]
  BY DEF Init, None, s
<1>6. relays \in Seq(Relay) /\ cur = Len(relays) /\ \A i \in Is : i = 1 /\ cur = 1 /\ relays[i] = s
  BY <1>4, <1>5 DEF Is
<1>7. RelaysOK
  BY <1>2, <1>4, <1>5, <1>6 DEF RelaysOK
<1>8. Len(relays) \in Nat
  BY <1>7, LenNat
<1>9. CallersOK
  BY <1>3, <1>8, IdleType DEF Init, CallersOK, CallerOK
<1>10. ConnsOK
  BY <1>8, UnusedType DEF Init, ConnsOK, ConnOK
<1>11. QED BY <1>3, <1>4, <1>6, <1>7, <1>9, <1>10 DEF TypeOK

LEMMA RelaysMap ==
  ASSUME RelaysOK, relays' = [i \in DOMAIN relays |-> relays'[i]], UNCHANGED <<cur, group>>,
         \A i \in Is : relays'[i] \in Relay /\ (relays'[i].run = "report" => relays'[i].result # "none")
  PROVE  RelaysOK' /\ Len(relays') = Len(relays) /\ Len(relays') \in Nat /\ Len(relays') >= Len(relays) /\ Is' = Is
<1>1. relays \in Seq(Relay) /\ Len(relays) \in Nat /\ DOMAIN relays = 1..Len(relays)
  BY DEF RelaysOK
<1>2. relays' \in [1..Len(relays) -> Relay]
  BY <1>1 DEF Is
<1>3. relays' \in Seq(Relay) /\ Len(relays') = Len(relays)
  BY <1>1, <1>2, SeqDef, LenProperties
<1>4. QED BY <1>1, <1>3 DEF RelaysOK, Is

LEMMA StartEffect ==
  ASSUME TypeOK, Start
  PROVE  /\ TypeOK' /\ ctx = "none" /\ ctx' = "up" /\ Is' = Is
         /\ UNCHANGED <<env, file, cur, thr>>
         /\ \A j \in Is : /\ relays'[j].env = relays[j].env /\ relays'[j].tok = relays[j].tok
                          /\ \/ relays'[j].run = relays[j].run /\ relays'[j].owned = relays[j].owned
                             \/ relays'[j].owned
<1>1. /\ ctx = "none" /\ ctx' = "up" /\ UNCHANGED <<outside, file, mu, cur, group, thr, conn>>
      /\ relays' = [i \in DOMAIN relays |-> start(relays[i])]
  BY DEF Start
<1>2. RelaysOK /\ DOMAIN relays = Is
  BY DEF TypeOK, RelaysOK, Is
<1>3. ASSUME NEW j \in Is
      PROVE  /\ relays'[j] = start(relays[j])
             /\ relays'[j] \in Relay /\ (relays'[j].run = "report" => relays'[j].result # "none")
             /\ relays'[j].env = relays[j].env /\ relays'[j].tok = relays[j].tok
             /\ relays'[j] = relays[j] \/ relays'[j].owned
  <2>1. relays[j] \in Relay /\ (relays[j].run = "report" => relays[j].result # "none")
    BY <1>2, RelayOf
  <2>2. relays'[j] = start(relays[j])
    BY <1>1, <1>2
  <2>3. QED BY <2>1, <2>2, StartType
<1>4. /\ RelaysOK' /\ Len(relays') = Len(relays) /\ Len(relays') \in Nat /\ Len(relays') >= Len(relays) /\ Is' = Is
  <2>1. relays' = [i \in DOMAIN relays |-> relays'[i]]
    BY <1>1
  <2>2. QED BY <1>1, <1>2, <1>3, <2>1, RelaysMap
<1>5. OutsideOK' /\ CallersOK' /\ ConnsOK'
  <2>1. OutsideOK'
    BY <1>1 DEF TypeOK, OutsideOK, outside
  <2>2. QED BY <1>1, <1>4, <2>1, CallersStay, ConnsStay DEF TypeOK
<1>6. QED BY <1>1, <1>3, <1>4, <1>5 DEF TypeOK, outside

LEMMA SignalEffect ==
  ASSUME TypeOK, Signal
  PROVE  /\ TypeOK' /\ ctx = "up" /\ ctx' = "cancelled" /\ Is' = Is
         /\ UNCHANGED <<env, file, cur>>
         /\ \E c : Becomes(Main, c) /\ c.pc = "close" /\ c.made = thr[Main].made /\ c.gone = thr[Main].gone
         /\ \A j \in Is : /\ relays'[j].env = relays[j].env /\ relays'[j].tok = relays[j].tok
                          /\ relays'[j].run = relays[j].run /\ relays'[j].owned = relays[j].owned
<1> DEFINE c == [thr[Main] EXCEPT !.pc = "close"]
           s(q) == [q EXCEPT !.cancelled = @ \/ q.run # "off"]
<1>1. /\ ctx = "up" /\ ctx' = "cancelled" /\ UNCHANGED <<outside, file, mu, cur, group, conn>>
      /\ relays' = [i \in DOMAIN relays |-> s(relays[i])]
      /\ Goto(Main, "close")
  BY DEF Signal
<1>2. RelaysOK /\ DOMAIN relays = Is /\ Main \in Callers
  BY DEF TypeOK, RelaysOK, Is, Callers
<1>3. ASSUME NEW j \in Is
      PROVE  /\ relays'[j] \in Relay /\ (relays'[j].run = "report" => relays'[j].result # "none")
             /\ relays'[j].env = relays[j].env /\ relays'[j].tok = relays[j].tok
             /\ relays'[j].run = relays[j].run /\ relays'[j].owned = relays[j].owned
  <2> DEFINE q == relays[j]
             b == q.cancelled \/ q.run # "off"
             r == [q EXCEPT !.cancelled = b]
  <2>1. q \in Relay /\ (q.run = "report" => q.result # "none")
    BY <1>2, RelayOf
  <2>2. relays'[j] = r
    BY <1>1, <1>2
  <2>3. b \in BOOLEAN
    OBVIOUS
  <2> HIDE DEF q, b
  <2>4. r \in Relay /\ r.run = q.run /\ r.result = q.result /\ r.env = q.env /\ r.tok = q.tok /\ r.owned = q.owned
    BY <2>1, <2>3 DEF Relay
  <2> HIDE DEF r
  <2>5. QED BY <2>1, <2>2, <2>4 DEF q
<1>4. /\ RelaysOK' /\ Len(relays') = Len(relays) /\ Len(relays') \in Nat /\ Len(relays') >= Len(relays) /\ Is' = Is
  <2>1. relays' = [i \in DOMAIN relays |-> relays'[i]]
    BY <1>1
  <2>2. QED BY <1>1, <1>2, <1>3, <2>1, RelaysMap
<1>5. OutsideOK' /\ ConnsOK'
  <2>1. OutsideOK'
    BY <1>1 DEF TypeOK, OutsideOK, outside
  <2>2. QED BY <1>1, <1>4, <2>1, ConnsStay DEF TypeOK
<1>6. thr' = [thr EXCEPT ![Main] = c]
  BY <1>1 DEF Goto, TypeOK, CallersOK
<1>7. thr[Main] \in Caller /\ CallerOK(Main)
  BY <1>2, CallerOf
<1>8. c \in Caller /\ c.pc = "close" /\ c.made = thr[Main].made /\ c.gone = thr[Main].gone
  BY <1>7 DEF Caller
<1> HIDE DEF c
<1>9. Becomes(Main, c)
  BY <1>2, <1>6, <1>8, ThrSet
<1>10. /\ c.made \in 0..Len(relays') /\ c.gone \in 0..Len(relays')
       /\ c.pc \in {"save", "use"} => c.made # None /\ c.tok \in Saved
       /\ c.pc \in {"stop", "join", "forget"} => c.gone # None
  BY <1>4, <1>7, <1>8 DEF CallerOK
<1>11. CallersOK'
  <2>1. CallersOK
    BY DEF TypeOK
  <2>2. QED BY <1>2, <1>4, <1>6, <1>8, <1>10, <2>1, CallerSet
<1>12. QED BY <1>1, <1>3, <1>4, <1>5, <1>8, <1>9, <1>11 DEF TypeOK, outside

\* A step of Close that only main takes part in.
LEMMA MainStep ==
  ASSUME TypeOK, NEW pc \in {"drain", "stop", "done"}, NEW gone \in {cur, thr[Main].gone},
         pc = "stop" => gone # None,
         thr' = [thr EXCEPT ![Main].pc = pc, ![Main].gone = gone],
         UNCHANGED <<outside, ctx, file, mu, cur, group, relays, conn>>
  PROVE  /\ TypeOK'
         /\ \E c : Becomes(Main, c) /\ c.gone = gone /\ c.made = thr[Main].made /\ c.pc = pc
<1> DEFINE c == [thr[Main] EXCEPT !.pc = pc, !.gone = gone]
<1>1. Main \in Callers
  BY DEF Callers
<1>2. RelaysOK' /\ Len(relays') = Len(relays) /\ Len(relays') >= Len(relays) /\ Len(relays') \in Nat
  BY <1>1, RelaysStay
<1>3. OutsideOK' /\ ConnsOK'
  BY <1>1, <1>2, OutsideStay, ConnsStay DEF TypeOK
<1>4. thr' = [thr EXCEPT ![Main] = c]
  BY <1>1 DEF TypeOK, CallersOK
<1>5. thr[Main] \in Caller /\ CallerOK(Main) /\ thr[Main].gone \in Nat
  BY <1>1, CallerOf
<1>6. gone \in Nat /\ gone \in 0..Len(relays)
  BY <1>5 DEF TypeOK, RelaysOK, CallerOK
<1>8. c \in Caller /\ c.pc = pc /\ c.made = thr[Main].made /\ c.gone = gone
  BY <1>5, <1>6 DEF Caller
<1> HIDE DEF c
<1>9. Becomes(Main, c)
  BY <1>1, <1>4, <1>8, ThrSet
<1>10. /\ c.made \in 0..Len(relays') /\ c.gone \in 0..Len(relays')
       /\ c.pc \in {"save", "use"} => c.made # None /\ c.tok \in Saved
       /\ c.pc \in {"stop", "join", "forget"} => c.gone # None
  BY <1>2, <1>5, <1>6, <1>8 DEF CallerOK
<1>11. CallersOK'
  <2>1. CallersOK /\ RelaysOK
    BY DEF TypeOK
  <2>2. QED BY <1>1, <1>2, <1>4, <1>8, <1>10, <2>1, CallerSet
<1>12. QED BY <1>2, <1>3, <1>8, <1>9, <1>11 DEF TypeOK

LEMMA CloseEffect ==
  ASSUME TypeOK, Close
  PROVE  /\ TypeOK' /\ at(Main, "close")
         /\ UNCHANGED <<env, ctx, file, cur, relays>>
         /\ \E c : Becomes(Main, c) /\ c.gone = cur /\ c.made = thr[Main].made /\ c.pc = "drain"
<1>1. /\ at(Main, "close") /\ UNCHANGED <<outside, ctx, file, mu, cur, group, relays, conn>>
      /\ thr' = [thr EXCEPT ![Main].pc = "drain", ![Main].gone = cur]
  BY DEF Close
<1>2. QED BY <1>1, MainStep DEF outside

LEMMA DrainEffect ==
  ASSUME TypeOK, Drain
  PROVE  /\ TypeOK' /\ at(Main, "drain")
         /\ UNCHANGED <<env, ctx, file, cur, relays>>
         /\ \E c : /\ Becomes(Main, c) /\ c.gone = thr[Main].gone /\ c.made = thr[Main].made
                   /\ c.pc = IF thr[Main].gone = None THEN "done" ELSE "stop"
<1> DEFINE gone == thr[Main].gone
           pc == IF gone = None THEN "done" ELSE "stop"
<1>1. /\ at(Main, "drain") /\ UNCHANGED <<outside, ctx, file, mu, cur, group, relays, conn>>
      /\ thr' = [thr EXCEPT ![Main].pc = pc]
  BY DEF Drain, Goto
<1>2. thr' = [thr EXCEPT ![Main].pc = pc, ![Main].gone = gone]
  BY <1>1 DEF TypeOK, CallersOK, Caller
<1>3. pc \in {"drain", "stop", "done"} /\ (pc = "stop" => gone # None) /\ gone \in {cur, thr[Main].gone}
  OBVIOUS
<1>4. PICK p, g : /\ p = pc /\ g = gone
                  /\ p \in {"drain", "stop", "done"} /\ (p = "stop" => g # None) /\ g \in {cur, thr[Main].gone}
  BY <1>3
<1> HIDE DEF pc, gone
<1>5. thr' = [thr EXCEPT ![Main].pc = p, ![Main].gone = g]
  BY <1>2, <1>4
<1>6. TypeOK' /\ \E c : Becomes(Main, c) /\ c.gone = g /\ c.made = thr[Main].made /\ c.pc = p
  BY <1>1, <1>4, <1>5, MainStep
<1>7. QED BY <1>1, <1>4, <1>6 DEF outside, pc, gone

LEMMA ChangeEffect ==
  ASSUME TypeOK, Change
  PROVE  TypeOK' /\ UNCHANGED <<env, ctx, file, cur, relays, thr>>
<1>1. UNCHANGED <<env, ctx, file, mu, cur, group, relays, thr, conn>>
  BY DEF Change
<1>2. changes' \in Nat
  BY DEF Change, TypeOK, OutsideOK
<1>3. accepts' \in [Addrs -> Tokens \union {Down}] /\ tailnet' \in BOOLEAN
  BY DEF Change, TypeOK, OutsideOK
<1>4. OutsideOK'
  BY <1>1, <1>2, <1>3 DEF TypeOK, OutsideOK
<1>5. RelaysOK' /\ Len(relays') \in Nat /\ Len(relays') >= Len(relays)
  BY <1>1, RelaysStay
<1>6. QED BY <1>1, <1>4, <1>5, CallersStay, ConnsStay DEF TypeOK

-----------------------------------------------------------------------------
(* The invariant.                                                          *)

\* Nothing happens before Start.
Early == ctx = "none" => /\ \A i \in Is : i = cur
                         /\ \A t \in Callers : thr[t].pc = "idle"

\* What a request knows it needs: the relays it made and removed are forgotten
\* when it returns.
Ends ==
  \A t \in Requests :
    /\ thr[t].pc \notin {"close", "drain"}
    /\ thr[t].gone # None => thr[t].pc \in {"start", "stop", "join", "forget"}
    /\ thr[t].made # None => thr[t].pc \in {"save", "use", "start", "stop", "join", "forget"}

InTurn == env.serial => \A t, u \in Requests : Busy(t) /\ Busy(u) => t = u

\* Main stops what there is once the context has ended.
MainPlace ==
  /\ thr[Main].pc \in {"idle", "close", "drain", "stop", "join", "forget", "done"}
  /\ thr[Main].pc # "idle" <=> ctx = "cancelled"

\* A relay that was removed never comes back.
GoneIsGone == \A t \in Requests : thr[t].gone # None => thr[t].gone # cur

\* A loop that runs has an owner, or someone waits for it to end.
LiveOwned == \A i \in Is : Live(i) /\ ~relays[i].owned => \E t \in Callers : thr[t].pc = "join" /\ thr[t].gone = i

MainStops ==
  thr[Main].pc \in {"drain", "stop", "join", "forget", "done"} /\ cur # None =>
    ~Live(cur) \/ (thr[Main].pc \in {"drain", "stop", "join"} /\ thr[Main].gone = cur)

\* Someone will stop a removed relay, or waits for it.
Waited(i) == \E t \in Callers : thr[t].gone = i /\ thr[t].pc \in {"start", "stop", "join"}
RemovedWaited == env.serial => \A i \in Is : i # cur /\ Live(i) => Waited(i)

\* In turns, what a request has read stays true until it returns, ...
RequestOK(t) ==
  /\ thr[t].pc \in {"save", "use"} => thr[t].made = cur /\ cur # None /\ ~relays[cur].env
  /\ thr[t].pc = "use" => file = thr[t].tok
  /\ thr[t].pc = "configure" => thr[t].tok \in loadToken(thr[t].cfg.env)
  /\ thr[t].pc = "start" /\ thr[t].made # None => thr[t].made = cur
  /\ thr[t].gone # None => cur = None

\* ... and only a request on its way keeps memory and file apart.
TokenOK ==
  /\ cur # None /\ ~relays[cur].env =>
       \/ relays[cur].tok = Usable(file)
       \/ "read" \in env.faults /\ relays[cur].tok = NoToken
       \/ \E t \in Requests : thr[t].pc = "use"
  /\ cur = None /\ Is # {} =>
       file = NoToken \/ "remove" \in env.faults \/ \E t \in Requests : thr[t].gone # None

SerialOK == env.serial => TokenOK /\ \A t \in Requests : RequestOK(t)

IInv == Early /\ Ends /\ InTurn /\ MainPlace /\ GoneIsGone /\ LiveOwned /\ MainStops /\ RemovedWaited /\ SerialOK

LEMMA Who ==
  /\ Main \in Callers /\ \A t \in Requests : t \in Callers /\ t # Main
  /\ \A t \in Callers : t \in Requests \/ t = Main
BY RelayAssumption DEF Callers

\* A step of a loop, of a connection or of the outside.
LEMMA QuietInv ==
  ASSUME IInv, UNCHANGED <<env, ctx, file, cur, thr>>, Is' = Is, cur \in Is \union {0},
         \A j \in Is : /\ relays'[j].env = relays[j].env /\ relays'[j].tok = relays[j].tok
                       /\ relays'[j].owned = relays[j].owned
                       /\ Live(j)' => Live(j)
  PROVE  IInv'
<1>1. (Early /\ Ends /\ InTurn /\ MainPlace /\ GoneIsGone)'
  BY DEF IInv, Early, Ends, InTurn, MainPlace, GoneIsGone, Busy
<1>2. LiveOwned'
  BY DEF IInv, LiveOwned
<1>3. MainStops'
  BY DEF IInv, MainStops, None
<1>4. RemovedWaited'
  BY DEF IInv, RemovedWaited, Waited
<1>5. TokenOK => TokenOK'
  BY DEF TokenOK, None
<1>6. ASSUME NEW t \in Requests, RequestOK(t) PROVE RequestOK(t)'
  BY <1>6 DEF RequestOK, loadToken, None
<1>7. SerialOK'
  BY <1>5, <1>6 DEF IInv, SerialOK
<1>8. QED BY <1>1, <1>2, <1>3, <1>4, <1>7 DEF IInv

\* Requests that take turns: while t is on its way, or begins, no other is.
LEMMA Alone ==
  ASSUME IInv, env.serial, NEW t \in Requests, Busy(t) \/ MayBegin(t), NEW u \in Requests, u # t
  PROVE  ~Busy(u) /\ thr[u].pc \in {"idle", "done"} /\ thr[u].gone = None /\ thr[u].made = None
<1>1. ~Busy(u)
  BY DEF IInv, InTurn, MayBegin
<1>2. QED BY <1>1 DEF Busy, IInv, Ends

\* A request that begins.
LEMMA BeginInv ==
  ASSUME TypeOK, TypeOK', IInv, NEW t \in Requests, MayBegin(t), UNCHANGED <<env, ctx, file, cur, relays>>,
         NEW c, Becomes(t, c), c.gone = 0,
         \/ c.pc = "done" /\ c.made = 0
         \/ c.pc = "save" /\ c.made = cur /\ cur # None /\ ~relays[cur].env
         \/ c.pc = "configure" /\ c.made = 0 /\ c.tok \in loadToken(c.cfg.env)
  PROVE  IInv'
<1>1. /\ t \in Callers /\ t # Main /\ thr'[t] = c /\ Is' = Is
      /\ thr[t].pc = "idle" /\ ctx # "none"
      /\ \A u \in Callers : u # t => thr'[u] = thr[u]
      /\ \A i \in Is : Live(i)' <=> Live(i)
  BY Who DEF Becomes, Others, MayBegin, at, Is, Live
<1>2. Early' /\ Ends'
  BY <1>1, Who DEF IInv, Early, Ends, None
<1>3. InTurn'
  BY <1>1, Who DEF IInv, InTurn, MayBegin, Busy
<1>4. MainPlace' /\ MainStops'
  BY <1>1, Who DEF IInv, MainPlace, MainStops, Live
<1>5. GoneIsGone'
  BY <1>1, Who DEF IInv, GoneIsGone, None
<1>6. LiveOwned'
  BY <1>1, Who DEF IInv, LiveOwned
<1>7. RemovedWaited'
  BY <1>1, Who DEF IInv, RemovedWaited, Waited
<1>8. SerialOK'
  <2>1. SUFFICES ASSUME env.serial PROVE TokenOK' /\ \A u \in Requests : RequestOK(u)'
    BY <1>1 DEF SerialOK
  <2>2. \A u \in Requests : u # t => thr[u].pc \in {"idle", "done"} /\ thr[u].gone = None /\ thr[u].made = None
    BY <2>1, Alone
  <2>3. TokenOK'
    <3>1. TokenOK /\ thr[t].gone = None
      BY <1>1, <2>1 DEF IInv, SerialOK, Ends
    <3>2. QED BY <1>1, <2>2, <3>1, Who DEF TokenOK
  <2>4. RequestOK(t)'
    BY <1>1 DEF RequestOK, loadToken, None
  <2>5. ASSUME NEW u \in Requests, u # t PROVE RequestOK(u)'
    BY <1>1, <2>2, <2>5, Who DEF RequestOK, None
  <2>6. QED BY <2>3, <2>4, <2>5
<1>9. QED BY <1>2, <1>3, <1>4, <1>5, <1>6, <1>7, <1>8 DEF IInv

\* A caller goes on, and leaves the relays alone but for the token it uses.
LEMMA SaveTokenInv ==
  ASSUME TypeOK, IInv, NEW t \in Callers, SaveToken(t)
  PROVE  IInv'
<1> DEFINE Saves(c) == /\ file' = thr[t].tok /\ c.pc = "use"
                       /\ c.made = thr[t].made /\ c.gone = thr[t].gone /\ c.tok = thr[t].tok
           Fails(c) == file' = file /\ c.pc = "done" /\ c.made = 0 /\ c.gone = 0
<1>1. /\ thr[t].pc = "save" /\ UNCHANGED <<env, ctx, cur, relays>>
  BY SaveTokenEffect DEF at
<1>2. PICK c : Becomes(t, c) /\ (Saves(c) \/ Fails(c))
  BY SaveTokenEffect
<1>3. /\ t \in Requests /\ t # Main /\ thr'[t] = c /\ Is' = Is
      /\ \A u \in Callers : u # t => thr'[u] = thr[u]
      /\ \A i \in Is : Live(i)' <=> Live(i)
  BY <1>1, <1>2, Who DEF Becomes, Others, Is, Live, IInv, MainPlace
<1>4. c.gone = None
  BY <1>1, <1>2, <1>3 DEF IInv, Ends, None
<1>5. Early' /\ Ends'
  BY <1>1, <1>2, <1>3, <1>4, Who DEF IInv, Early, Ends, None
<1>6. InTurn'
  BY <1>1, <1>3, Who DEF IInv, InTurn, Busy
<1>7. MainPlace' /\ MainStops'
  BY <1>1, <1>3, Who DEF IInv, MainPlace, MainStops, Live
<1>8. GoneIsGone'
  BY <1>1, <1>3, <1>4, Who DEF IInv, GoneIsGone
<1>9. LiveOwned'
  BY <1>1, <1>3, Who DEF IInv, LiveOwned
<1>10. RemovedWaited'
  BY <1>1, <1>3, Who DEF IInv, RemovedWaited, Waited
<1>11. SerialOK'
  <2>1. SUFFICES ASSUME env.serial PROVE TokenOK' /\ \A u \in Requests : RequestOK(u)'
    BY <1>1 DEF SerialOK
  <2>2. \A u \in Requests : u # t => thr[u].pc \in {"idle", "done"} /\ thr[u].gone = None /\ thr[u].made = None
    BY <1>1, <1>3, <2>1, Alone DEF Busy
  <2>3. cur # None /\ RequestOK(t)
    BY <1>1, <1>3, <2>1 DEF IInv, SerialOK, RequestOK
  <2>4. TokenOK'
    <3>1. CASE Saves(c)
      BY <1>1, <1>3, <2>3, <3>1 DEF TokenOK
    <3>2. CASE Fails(c)
      <4>1. TokenOK /\ \A u \in Requests : thr[u].pc # "use"
        BY <1>1, <2>1, <2>2 DEF IInv, SerialOK
      <4>2. QED BY <1>1, <1>3, <2>3, <3>2, <4>1 DEF TokenOK
    <3>3. QED BY <1>2, <3>1, <3>2
  <2>5. RequestOK(t)'
    BY <1>1, <1>2, <1>3, <1>4, <2>3 DEF RequestOK, None
  <2>6. ASSUME NEW u \in Requests, u # t PROVE RequestOK(u)'
    BY <1>1, <1>3, <2>2, <2>6, Who DEF RequestOK, None
  <2>7. QED BY <2>4, <2>5, <2>6
<1>12. QED BY <1>5, <1>6, <1>7, <1>8, <1>9, <1>10, <1>11 DEF IInv

LEMMA UseTokenInv ==
  ASSUME TypeOK, IInv, NEW t \in Callers, UseToken(t)
  PROVE  IInv'
<1>1. /\ thr[t].pc = "use" /\ thr[t].made \in Is /\ Is' = Is /\ UNCHANGED <<env, ctx, file, cur>>
      /\ relays'[thr[t].made].tok = thr[t].tok
      /\ \A j \in Is : /\ relays'[j].run = relays[j].run /\ relays'[j].owned = relays[j].owned
                       /\ relays'[j].env = relays[j].env
                       /\ j # thr[t].made => relays'[j].tok = relays[j].tok
  BY UseTokenEffect DEF at
<1>2. PICK c : Becomes(t, c) /\ c.pc = "done" /\ c.made = 0 /\ c.gone = 0
  BY UseTokenEffect
<1>3. /\ t \in Requests /\ t # Main /\ thr'[t] = c
      /\ \A u \in Callers : u # t => thr'[u] = thr[u]
      /\ \A i \in Is : Live(i)' <=> Live(i)
  BY <1>1, <1>2, Who DEF Becomes, Others, Live, IInv, MainPlace
<1>4. thr[t].gone = None /\ cur \in Is \union {0}
  BY <1>1, <1>3, LenNat DEF IInv, Ends, TypeOK, RelaysOK, Is
<1>5. Early' /\ Ends'
  BY <1>1, <1>2, <1>3, Who DEF IInv, Early, Ends, None
<1>6. InTurn'
  BY <1>1, <1>2, <1>3, Who DEF IInv, InTurn, Busy
<1>7. MainPlace' /\ MainStops'
  BY <1>1, <1>3, <1>4, Who DEF IInv, MainPlace, MainStops, None
<1>8. GoneIsGone'
  BY <1>1, <1>2, <1>3, Who DEF IInv, GoneIsGone, None
<1>9. LiveOwned'
  BY <1>1, <1>3, Who DEF IInv, LiveOwned
<1>10. RemovedWaited'
  BY <1>1, <1>3, Who DEF IInv, RemovedWaited, Waited
<1>11. SerialOK'
  <2>1. SUFFICES ASSUME env.serial PROVE TokenOK' /\ \A u \in Requests : RequestOK(u)'
    BY <1>1 DEF SerialOK
  <2>2. \A u \in Requests : u # t => thr[u].pc \in {"idle", "done"} /\ thr[u].gone = None /\ thr[u].made = None
    BY <1>1, <1>3, <2>1, Alone DEF Busy
  <2>3. thr[t].made = cur /\ cur # None /\ file = thr[t].tok
    BY <1>1, <1>3, <2>1 DEF IInv, SerialOK, RequestOK
  <2>4. TokenOK'
    <3>1. thr[t].tok \in Saved
      BY <1>1, CallerOf DEF CallerOK
    <3>2. Usable(file) = thr[t].tok
      BY <2>3, <3>1, RelayAssumption DEF Usable, Saved
    <3>3. QED BY <1>1, <2>3, <3>2 DEF TokenOK
  <2>5. RequestOK(t)'
    BY <1>2, <1>3 DEF RequestOK, None
  <2>6. ASSUME NEW u \in Requests, u # t PROVE RequestOK(u)'
    BY <1>1, <1>3, <2>2, <2>6, Who DEF RequestOK, None
  <2>7. QED BY <2>4, <2>5, <2>6
<1>12. QED BY <1>5, <1>6, <1>7, <1>8, <1>9, <1>10, <1>11 DEF IInv

LEMMA ConfigureInv ==
  ASSUME TypeOK, IInv, NEW t \in Callers, Configure(t)
  PROVE  IInv'
<1> DEFINE Dropped == relays' = relays /\ cur' = 0 /\ Is' = Is
           Made == /\ cur = 0 /\ cur' \notin Is /\ cur' # 0 /\ Is' = Is \union {cur'}
                   /\ \A j \in Is : relays'[j] = relays[j]
                   /\ relays'[cur'].run = "off" /\ NewToken(t)
           Changed == /\ cur \in Is /\ cur' = cur /\ Is' = Is
                      /\ \A j \in Is : j # cur => relays'[j] = relays[j]
                      /\ relays'[cur].run = relays[cur].run /\ relays'[cur].owned = relays[cur].owned /\ NewToken(t)
<1>1. thr[t].pc = "configure" /\ UNCHANGED <<env, ctx, file>>
  BY ConfigureEffect DEF at
<1>2. PICK c : /\ Becomes(t, c) /\ c.pc = "start"
               /\ c.made = IF cur = None THEN cur' ELSE None
               /\ c.gone = IF cur' = None THEN cur ELSE None
  BY ConfigureEffect
<1>3. Dropped \/ Made \/ Changed
  <2>1. relays' = relays => Is' = Is
    BY DEF Is
  <2>2. cur' = Len(relays) + 1 => cur' # 0
    BY LenNat DEF TypeOK
  <2>3. QED BY <2>1, <2>2, ConfigureEffect
<1>4. /\ t \in Requests /\ t # Main /\ thr'[t] = c
      /\ \A u \in Callers : u # t => thr'[u] = thr[u]
  BY <1>1, <1>2, Who DEF Becomes, Others, IInv, MainPlace
<1>5. /\ thr[t].gone = None /\ ctx # "none" /\ cur \in Is \union {0} /\ 0 \notin Is
      /\ \A u \in Callers : thr[u].gone # None => thr[u].gone \in Is
  <2>1. cur \in Is \union {0} /\ 0 \notin Is
    BY LenNat DEF TypeOK, RelaysOK, Is
  <2>2. QED BY <1>1, <1>4, <2>1, CallerOf DEF IInv, Ends, Early
<1>6. \A i \in Is' : Live(i)' => i \in Is /\ Live(i) /\ (relays'[i].owned <=> relays[i].owned)
  BY <1>3 DEF Live
<1>7. Early' /\ Ends'
  BY <1>1, <1>2, <1>4, <1>5, Who DEF IInv, Early, Ends
<1>8. InTurn' /\ MainPlace'
  BY <1>1, <1>4, Who DEF IInv, InTurn, MainPlace, Busy
<1>9. GoneIsGone'
  <2>1. ASSUME NEW u \in Requests, (thr[u].gone # None)' PROVE (thr[u].gone # cur)'
    BY <1>2, <1>3, <1>4, <1>5, <2>1, Who DEF IInv, GoneIsGone, None
  <2>2. QED BY <2>1 DEF GoneIsGone
<1>10. LiveOwned'
  <2>1. ASSUME NEW i \in Is', Live(i)', (~relays[i].owned)'
        PROVE  \E u \in Callers : (thr[u].pc = "join" /\ thr[u].gone = i)'
    BY <1>1, <1>4, <1>6, <2>1 DEF IInv, LiveOwned
  <2>2. QED BY <2>1 DEF LiveOwned
<1>11. MainStops'
  <2>1. CASE Dropped
    BY <2>1 DEF MainStops, None
  <2>2. CASE Made
    BY <2>2 DEF MainStops, Live
  <2>3. CASE Changed
    BY <1>4, <1>5, <2>3, Who DEF IInv, MainStops, Live, None
  <2>4. QED BY <1>3, <2>1, <2>2, <2>3
<1>12. RemovedWaited'
  <2>1. ASSUME env.serial, NEW i \in Is', (i # cur)', Live(i)' PROVE Waited(i)'
    <3>1. i \in Is /\ Live(i)
      BY <1>6, <2>1
    <3>2. CASE i = cur
      <4>1. cur' = 0 /\ c.gone = i
        BY <1>2, <1>3, <1>5, <2>1, <3>1, <3>2 DEF None
      <4>2. QED BY <1>2, <1>4, <4>1 DEF Waited
    <3>3. CASE i # cur
      <4>1. PICK u \in Callers : thr[u].gone = i /\ thr[u].pc \in {"start", "stop", "join"}
        BY <2>1, <3>1, <3>3 DEF IInv, RemovedWaited, Waited
      <4>2. u # t
        BY <1>1, <4>1
      <4>3. QED BY <1>4, <4>1, <4>2 DEF Waited
    <3>4. QED BY <3>2, <3>3
  <2>2. QED BY <1>1, <2>1 DEF RemovedWaited
<1>13. SerialOK'
  <2>1. SUFFICES ASSUME env.serial PROVE TokenOK' /\ \A u \in Requests : RequestOK(u)'
    BY <1>1 DEF SerialOK
  <2>2. \A u \in Requests : u # t => thr[u].pc \in {"idle", "done"} /\ thr[u].gone = None /\ thr[u].made = None
    BY <1>1, <1>4, <2>1, Alone DEF Busy
  <2>3. TokenOK /\ thr[t].tok \in loadToken(thr[t].cfg.env)
    BY <1>1, <1>4, <2>1 DEF IInv, SerialOK, RequestOK
  <2>4. TokenOK'
    <3>1. CASE Dropped
      BY <1>1, <1>2, <1>4, <1>5, <2>2, <2>3, <3>1 DEF TokenOK, None
    <3>2. CASE Made \/ Changed
      <4>1. cur' # None /\ NewToken(t)
        BY <1>5, <3>2 DEF None
      <4>2. ~thr[t].cfg.env => thr[t].tok = file \/ ("read" \in env.faults /\ thr[t].tok = BadToken)
        BY <2>3 DEF loadToken
      <4>3. QED BY <1>1, <4>1, <4>2 DEF TokenOK, NewToken, Usable
    <3>3. QED BY <1>3, <3>1, <3>2
  <2>5. RequestOK(t)'
    BY <1>2, <1>4 DEF RequestOK, None
  <2>6. ASSUME NEW u \in Requests, u # t PROVE RequestOK(u)'
    BY <1>1, <1>4, <2>2, <2>6, Who DEF RequestOK, None
  <2>7. QED BY <2>4, <2>5, <2>6
<1>14. QED BY <1>7, <1>8, <1>9, <1>10, <1>11, <1>12, <1>13 DEF IInv

LEMMA StartMadeInv ==
  ASSUME TypeOK, IInv, NEW t \in Callers, StartMade(t)
  PROVE  IInv'
<1>1. /\ thr[t].pc = "start" /\ Is' = Is /\ UNCHANGED <<env, ctx, file, cur>>
      /\ \A j \in Is : /\ relays'[j].env = relays[j].env /\ relays'[j].tok = relays[j].tok
                       /\ \/ relays'[j].run = relays[j].run /\ relays'[j].owned = relays[j].owned
                          \/ j = thr[t].made /\ relays'[j].owned /\ ctx # "cancelled"
  BY StartMadeEffect DEF at
<1>2. PICK c : /\ Becomes(t, c)
               /\ \/ thr[t].gone = None /\ c.pc = "done" /\ c.made = 0 /\ c.gone = 0
                  \/ thr[t].gone # None /\ c.pc = "stop" /\ c.made = thr[t].made /\ c.gone = thr[t].gone
  BY StartMadeEffect
<1>3. /\ t \in Requests /\ t # Main /\ thr'[t] = c /\ c.gone = thr[t].gone
      /\ \A u \in Callers : u # t => thr'[u] = thr[u]
  BY <1>1, <1>2, Who DEF Becomes, Others, IInv, MainPlace, None
<1>4. cur \in Is \union {0} /\ 0 \notin Is
  BY LenNat DEF TypeOK, RelaysOK, Is
<1>5. Early' /\ Ends'
  BY <1>1, <1>2, <1>3, Who DEF IInv, Early, Ends, None
<1>6. InTurn' /\ MainPlace'
  BY <1>1, <1>3, Who DEF IInv, InTurn, MainPlace, Busy
<1>7. GoneIsGone'
  BY <1>1, <1>3, Who DEF IInv, GoneIsGone
<1>8. LiveOwned'
  <2>1. ASSUME NEW i \in Is, Live(i)', (~relays[i].owned)'
        PROVE  \E u \in Callers : (thr[u].pc = "join" /\ thr[u].gone = i)'
    BY <1>1, <1>3, <2>1 DEF IInv, LiveOwned, Live
  <2>2. QED BY <1>1, <2>1 DEF LiveOwned
<1>9. MainStops'
  <2>1. ASSUME thr[Main].pc \in {"drain", "stop", "join", "forget", "done"}, cur # None
        PROVE  (~Live(cur) \/ (thr[Main].pc \in {"drain", "stop", "join"} /\ thr[Main].gone = cur))'
    <3>1. ctx = "cancelled"
      BY <2>1 DEF IInv, MainPlace
    <3>2. relays'[cur].run = relays[cur].run
      BY <1>1, <1>4, <2>1, <3>1 DEF None
    <3>3. QED BY <1>1, <1>3, <2>1, <3>2, Who DEF IInv, MainStops, Live
  <2>2. QED BY <1>1, <1>3, <2>1, Who DEF MainStops
<1>10. RemovedWaited'
  <2>1. ASSUME env.serial, NEW i \in Is, i # cur, Live(i)' PROVE Waited(i)'
    <3>1. thr[t].made # None => thr[t].made = cur
      BY <1>1, <1>3, <2>1 DEF IInv, SerialOK, RequestOK
    <3>2. Live(i)
      BY <1>1, <1>4, <2>1, <3>1 DEF Live, None
    <3>3. PICK u \in Callers : thr[u].gone = i /\ thr[u].pc \in {"start", "stop", "join"}
      BY <2>1, <3>2 DEF IInv, RemovedWaited, Waited
    <3>4. CASE u = t
      BY <1>2, <1>3, <1>4, <3>3, <3>4 DEF Waited, None
    <3>5. CASE u # t
      BY <1>3, <3>3, <3>5 DEF Waited
    <3>6. QED BY <3>4, <3>5
  <2>2. QED BY <1>1, <2>1 DEF RemovedWaited
<1>11. SerialOK'
  <2>1. SUFFICES ASSUME env.serial PROVE TokenOK' /\ \A u \in Requests : RequestOK(u)'
    BY <1>1 DEF SerialOK
  <2>2. \A u \in Requests : u # t => thr[u].pc \in {"idle", "done"} /\ thr[u].gone = None /\ thr[u].made = None
    BY <1>1, <1>3, <2>1, Alone DEF Busy
  <2>3. TokenOK /\ RequestOK(t)
    BY <1>3, <2>1 DEF IInv, SerialOK
  <2>4. TokenOK'
    BY <1>1, <1>3, <1>4, <2>2, <2>3, Who DEF TokenOK, None
  <2>5. RequestOK(t)'
    BY <1>1, <1>2, <1>3, <2>3 DEF RequestOK, None
  <2>6. ASSUME NEW u \in Requests, u # t PROVE RequestOK(u)'
    BY <1>1, <1>3, <2>2, <2>6, Who DEF RequestOK, None
  <2>7. QED BY <2>4, <2>5, <2>6
<1>12. QED BY <1>5, <1>6, <1>7, <1>8, <1>9, <1>10, <1>11 DEF IInv

LEMMA StopInv ==
  ASSUME TypeOK, IInv, NEW t \in Callers, Stop(t)
  PROVE  IInv'
<1> DEFINE k == thr[t].gone
<1>1. /\ thr[t].pc = "stop" /\ k \in Is /\ Is' = Is /\ UNCHANGED <<env, ctx, file, cur>>
      /\ ~relays'[k].owned
      /\ \A j \in Is : /\ relays'[j].env = relays[j].env /\ relays'[j].tok = relays[j].tok
                       /\ relays'[j].run = relays[j].run
                       /\ j # k => relays'[j] = relays[j]
  BY StopEffect DEF at
<1>2. PICK c : /\ Becomes(t, c) /\ c.made = thr[t].made /\ c.gone = k
               /\ c.pc = IF relays[k].owned THEN "join" ELSE "forget"
  BY StopEffect
<1>3. /\ thr'[t] = c /\ c.pc \in {"join", "forget"}
      /\ \A u \in Callers : u # t => thr'[u] = thr[u]
      /\ \A i \in Is : Live(i)' <=> Live(i)
  BY <1>1, <1>2 DEF Becomes, Others, Live
<1>4. cur \in Is \union {0} /\ 0 \notin Is
  BY LenNat DEF TypeOK, RelaysOK, Is
<1> HIDE DEF k
\* Where the loop still runs, someone is there to wait for it.
<1>5. Live(k) => \E u \in Callers : thr'[u].pc = "join" /\ thr'[u].gone = k
  <2>1. CASE relays[k].owned
    BY <1>2, <1>3, <2>1
  <2>2. CASE ~relays[k].owned
    <3>1. Live(k) => \E u \in Callers : u # t /\ thr[u].pc = "join" /\ thr[u].gone = k
      BY <1>1, <2>2 DEF IInv, LiveOwned
    <3>2. QED BY <1>3, <3>1
  <2>3. QED BY <2>1, <2>2
<1>6. Early' /\ Ends'
  BY <1>1, <1>2, <1>3, Who DEF IInv, Early, Ends
<1>7. InTurn'
  BY <1>1, <1>3, Who DEF IInv, InTurn, Busy
<1>8. MainPlace'
  BY <1>1, <1>3, Who DEF IInv, MainPlace
<1>9. GoneIsGone'
  BY <1>1, <1>2, <1>3, Who DEF IInv, GoneIsGone, k
<1>10. LiveOwned'
  <2>1. ASSUME NEW i \in Is, Live(i)', (~relays[i].owned)'
        PROVE  \E u \in Callers : (thr[u].pc = "join" /\ thr[u].gone = i)'
    <3>1. CASE i = k
      BY <1>3, <1>5, <2>1, <3>1
    <3>2. CASE i # k
      BY <1>1, <1>3, <2>1, <3>2 DEF IInv, LiveOwned
    <3>3. QED BY <3>1, <3>2
  <2>2. QED BY <1>1, <2>1 DEF LiveOwned
<1>11. MainStops'
  <2>1. CASE t # Main
    BY <1>1, <1>3, <1>4, <2>1, Who DEF IInv, MainStops, None
  <2>2. CASE t = Main
    <3>1. ASSUME cur # None, Live(cur), c.pc # "join" PROVE FALSE
      <4>1. cur = k
        BY <1>1, <2>2, <3>1 DEF IInv, MainStops, k
      <4>2. PICK u \in Callers : thr'[u].pc = "join" /\ thr'[u].gone = k
        BY <1>5, <3>1, <4>1
      <4>3. u # t /\ thr[u].gone = cur
        BY <1>3, <3>1, <4>1, <4>2
      <4>4. QED BY <2>2, <3>1, <4>3, Who DEF IInv, GoneIsGone
    <3>2. cur # None /\ Live(cur) => c.gone = cur
      BY <1>1, <1>2, <2>2 DEF IInv, MainStops, k
    <3>3. QED BY <1>1, <1>3, <1>4, <2>2, <3>1, <3>2 DEF MainStops, None
  <2>3. QED BY <2>1, <2>2
<1>12. RemovedWaited'
  <2>1. ASSUME env.serial, NEW i \in Is, i # cur, Live(i) PROVE Waited(i)'
    <3>1. PICK u \in Callers : thr[u].gone = i /\ thr[u].pc \in {"start", "stop", "join"}
      BY <2>1 DEF IInv, RemovedWaited, Waited
    <3>2. CASE u = t
      <4>1. i = k
        BY <3>1, <3>2 DEF k
      <4>2. QED BY <1>5, <2>1, <4>1 DEF Waited
    <3>3. CASE u # t
      BY <1>3, <3>1, <3>3 DEF Waited
    <3>4. QED BY <3>2, <3>3
  <2>2. QED BY <1>1, <1>3, <2>1 DEF RemovedWaited
<1>13. SerialOK'
  <2>1. ASSUME env.serial, NEW u \in Requests, RequestOK(u) PROVE RequestOK(u)'
    BY <1>1, <1>2, <1>3, <1>4, <2>1, Who DEF RequestOK, loadToken, None, k
  <2>2. ASSUME TokenOK PROVE TokenOK'
    <3>1. \A u \in Requests : /\ thr[u].pc = "use" => thr'[u].pc = "use"
                              /\ thr'[u].gone = thr[u].gone
      BY <1>1, <1>2, <1>3, Who DEF k
    <3>2. QED BY <1>1, <1>4, <2>2, <3>1 DEF TokenOK, None
  <2>3. QED BY <1>1, <2>1, <2>2 DEF IInv, SerialOK
<1>14. QED BY <1>6, <1>7, <1>8, <1>9, <1>10, <1>11, <1>12, <1>13 DEF IInv

LEMMA JoinInv ==
  ASSUME TypeOK, IInv, NEW t \in Callers, Join(t)
  PROVE  IInv'
<1> DEFINE k == thr[t].gone
<1>1. /\ thr[t].pc = "join" /\ k \in Is /\ Is' = Is /\ UNCHANGED <<env, ctx, file, cur>>
      /\ ~Live(k)
      /\ \A j \in Is : /\ relays'[j].env = relays[j].env /\ relays'[j].tok = relays[j].tok
                       /\ relays'[j].run = relays[j].run /\ relays'[j].owned = relays[j].owned
  BY JoinEffect DEF at, Live
<1>2. PICK c : Becomes(t, c) /\ c.pc = "forget" /\ c.made = thr[t].made /\ c.gone = k
  BY JoinEffect
<1>3. /\ thr'[t] = c
      /\ \A u \in Callers : u # t => thr'[u] = thr[u]
      /\ \A i \in Is : Live(i)' <=> Live(i)
  BY <1>1, <1>2 DEF Becomes, Others, Live
<1>4. cur \in Is \union {0} /\ 0 \notin Is
  BY LenNat DEF TypeOK, RelaysOK, Is
<1>5. Early' /\ Ends'
  BY <1>1, <1>2, <1>3, Who DEF IInv, Early, Ends
<1>6. InTurn' /\ MainPlace'
  BY <1>1, <1>2, <1>3, Who DEF IInv, InTurn, MainPlace, Busy
<1>7. GoneIsGone'
  BY <1>1, <1>2, <1>3, Who DEF IInv, GoneIsGone
<1>8. LiveOwned'
  <2>1. ASSUME NEW i \in Is, Live(i)', (~relays[i].owned)'
        PROVE  \E u \in Callers : (thr[u].pc = "join" /\ thr[u].gone = i)'
    <3>1. PICK u \in Callers : thr[u].pc = "join" /\ thr[u].gone = i
      BY <1>1, <1>3, <2>1 DEF IInv, LiveOwned
    <3>2. u # t
      BY <1>1, <1>3, <2>1, <3>1
    <3>3. QED BY <1>3, <3>1, <3>2
  <2>2. QED BY <1>1, <2>1 DEF LiveOwned
<1>9. MainStops'
  <2>1. CASE t # Main
    BY <1>1, <1>3, <1>4, <2>1, Who DEF IInv, MainStops, None
  <2>2. CASE t = Main
    BY <1>1, <1>3, <1>4, <2>2 DEF IInv, MainStops, None
  <2>3. QED BY <2>1, <2>2
<1>10. RemovedWaited'
  <2>1. ASSUME env.serial, NEW i \in Is, i # cur, Live(i) PROVE Waited(i)'
    <3>1. PICK u \in Callers : thr[u].gone = i /\ thr[u].pc \in {"start", "stop", "join"}
      BY <2>1 DEF IInv, RemovedWaited, Waited
    <3>2. u # t
      BY <1>1, <2>1, <3>1
    <3>3. QED BY <1>3, <3>1, <3>2 DEF Waited
  <2>2. QED BY <1>1, <1>3, <2>1 DEF RemovedWaited
<1>11. SerialOK'
  <2>1. ASSUME env.serial, NEW u \in Requests, RequestOK(u) PROVE RequestOK(u)'
    BY <1>1, <1>2, <1>3, <1>4, <2>1, Who DEF RequestOK, loadToken, None
  <2>2. ASSUME TokenOK PROVE TokenOK'
    <3>1. \A u \in Requests : /\ thr[u].pc = "use" => thr'[u].pc = "use"
                              /\ thr'[u].gone = thr[u].gone
      BY <1>1, <1>2, <1>3, Who
    <3>2. QED BY <1>1, <1>4, <2>2, <3>1 DEF TokenOK, None
  <2>3. QED BY <1>1, <2>1, <2>2 DEF IInv, SerialOK
<1>12. QED BY <1>5, <1>6, <1>7, <1>8, <1>9, <1>10, <1>11 DEF IInv

LEMMA ForgetInv ==
  ASSUME TypeOK, IInv, NEW t \in Callers, Forget(t)
  PROVE  IInv'
<1>1. /\ thr[t].pc = "forget" /\ UNCHANGED <<env, ctx, cur, relays>>
      /\ \/ t # Main /\ file' = NoToken
         \/ (t = Main \/ "remove" \in env.faults) /\ file' = file
  BY ForgetEffect DEF at
<1>2. PICK c : Becomes(t, c) /\ c.pc = "done" /\ c.made = 0 /\ c.gone = 0
  BY ForgetEffect
<1>3. /\ thr'[t] = c /\ Is' = Is
      /\ \A u \in Callers : u # t => thr'[u] = thr[u]
      /\ \A i \in Is : Live(i)' <=> Live(i)
  BY <1>1, <1>2 DEF Becomes, Others, Live, Is
<1>4. thr[t].gone # None
  BY <1>1, CallerOf DEF CallerOK
<1>5. Early' /\ Ends'
  BY <1>1, <1>2, <1>3, Who DEF IInv, Early, Ends, None
<1>6. InTurn' /\ MainPlace'
  BY <1>1, <1>2, <1>3, Who DEF IInv, InTurn, MainPlace, Busy
<1>7. GoneIsGone'
  BY <1>1, <1>2, <1>3, Who DEF IInv, GoneIsGone, None
<1>8. LiveOwned'
  BY <1>1, <1>3, Who DEF IInv, LiveOwned
<1>9. MainStops'
  BY <1>1, <1>2, <1>3, Who DEF IInv, MainStops, Live
<1>10. RemovedWaited'
  BY <1>1, <1>3, Who DEF IInv, RemovedWaited, Waited
<1>11. SerialOK'
  <2>1. SUFFICES ASSUME env.serial PROVE TokenOK' /\ \A u \in Requests : RequestOK(u)'
    BY <1>1 DEF SerialOK
  <2>2. TokenOK /\ \A u \in Requests : RequestOK(u)
    BY <2>1 DEF IInv, SerialOK
  <2>3. CASE t = Main
    <3>1. file' = file /\ \A u \in Requests : thr'[u] = thr[u]
      BY <1>1, <1>3, <2>3, Who
    <3>2. TokenOK'
      BY <1>1, <1>3, <2>2, <3>1 DEF TokenOK
    <3>3. \A u \in Requests : RequestOK(u)'
      BY <1>1, <2>2, <3>1 DEF RequestOK, loadToken
    <3>4. QED BY <3>2, <3>3
  <2>4. CASE t # Main
    <3>1. t \in Requests /\ cur = None /\ (file' = NoToken \/ "remove" \in env.faults)
      BY <1>1, <1>4, <2>2, <2>4, Who DEF RequestOK
    <3>2. \A u \in Requests : u # t => thr[u].pc \in {"idle", "done"} /\ thr[u].gone = None /\ thr[u].made = None
      BY <1>1, <2>1, <3>1, Alone DEF Busy
    <3>3. TokenOK'
      BY <1>1, <3>1 DEF TokenOK
    <3>4. RequestOK(t)'
      BY <1>2, <1>3 DEF RequestOK, None
    <3>5. ASSUME NEW u \in Requests, u # t PROVE RequestOK(u)'
      BY <1>1, <1>3, <3>2, <3>5, Who DEF RequestOK, None
    <3>6. QED BY <3>3, <3>4, <3>5
  <2>5. QED BY <2>3, <2>4
<1>12. QED BY <1>5, <1>6, <1>7, <1>8, <1>9, <1>10, <1>11 DEF IInv

LEMMA StartInv == ASSUME TypeOK, IInv, Start PROVE IInv'
<1>1. /\ ctx = "none" /\ ctx' = "up" /\ Is' = Is /\ UNCHANGED <<env, file, cur, thr>>
      /\ \A j \in Is : /\ relays'[j].env = relays[j].env /\ relays'[j].tok = relays[j].tok
                       /\ \/ relays'[j].run = relays[j].run /\ relays'[j].owned = relays[j].owned
                          \/ relays'[j].owned
  BY StartEffect
<1>2. /\ \A i \in Is : i = cur
      /\ \A t \in Callers : thr[t].pc = "idle"
      /\ cur \in Is \union {0} /\ 0 \notin Is
  BY <1>1, LenNat DEF IInv, Early, TypeOK, RelaysOK, Is
<1>3. (Early /\ Ends /\ InTurn /\ GoneIsGone)'
  BY <1>1 DEF IInv, Early, Ends, InTurn, GoneIsGone, Busy
<1>4. MainPlace' /\ MainStops'
  BY <1>1, <1>2, Who DEF IInv, MainPlace, MainStops
<1>5. LiveOwned'
  BY <1>1 DEF IInv, LiveOwned, Live
<1>6. RemovedWaited'
  BY <1>1, <1>2 DEF RemovedWaited
<1>7. SerialOK'
  <2>1. TokenOK => TokenOK'
    BY <1>1, <1>2 DEF TokenOK, None
  <2>2. \A t \in Requests : RequestOK(t) => RequestOK(t)'
    BY <1>1, <1>2, Who DEF RequestOK, None
  <2>3. QED BY <1>1, <2>1, <2>2 DEF IInv, SerialOK
<1>8. QED BY <1>3, <1>4, <1>5, <1>6, <1>7 DEF IInv

LEMMA SignalInv == ASSUME TypeOK, IInv, Signal PROVE IInv'
<1>1. /\ ctx = "up" /\ ctx' = "cancelled" /\ Is' = Is /\ UNCHANGED <<env, file, cur>>
      /\ \A j \in Is : /\ relays'[j].env = relays[j].env /\ relays'[j].tok = relays[j].tok
                       /\ relays'[j].run = relays[j].run /\ relays'[j].owned = relays[j].owned
  BY SignalEffect
<1>2. PICK c : Becomes(Main, c) /\ c.pc = "close" /\ c.made = thr[Main].made /\ c.gone = thr[Main].gone
  BY SignalEffect
<1>3. /\ thr'[Main] = c /\ thr[Main].pc = "idle"
      /\ \A u \in Callers : u # Main => thr'[u] = thr[u]
      /\ \A i \in Is : Live(i)' <=> Live(i)
  BY <1>1, <1>2 DEF Becomes, Others, Live, IInv, MainPlace
<1>4. cur \in Is \union {0} /\ 0 \notin Is
  BY LenNat DEF TypeOK, RelaysOK, Is
<1>5. (Early /\ Ends /\ InTurn /\ GoneIsGone)'
  BY <1>1, <1>3, Who DEF IInv, Early, Ends, InTurn, GoneIsGone, Busy
<1>6. MainPlace' /\ MainStops'
  BY <1>1, <1>2, <1>3 DEF MainPlace, MainStops
<1>7. LiveOwned'
  BY <1>1, <1>3 DEF IInv, LiveOwned
<1>8. RemovedWaited'
  BY <1>1, <1>3 DEF IInv, RemovedWaited, Waited
<1>9. SerialOK'
  <2>1. \A u \in Requests : thr'[u] = thr[u]
    BY <1>3, Who
  <2>2. TokenOK => TokenOK'
    BY <1>1, <1>4, <2>1 DEF TokenOK, None
  <2>3. \A t \in Requests : RequestOK(t) => RequestOK(t)'
    BY <1>1, <1>4, <2>1 DEF RequestOK, loadToken, None
  <2>4. QED BY <1>1, <2>2, <2>3 DEF IInv, SerialOK
<1>10. QED BY <1>5, <1>6, <1>7, <1>8, <1>9 DEF IInv

LEMMA CloseInv == ASSUME TypeOK, IInv, Close PROVE IInv'
<1>1. thr[Main].pc = "close" /\ UNCHANGED <<env, ctx, file, cur, relays>>
  BY CloseEffect DEF at
<1>2. PICK c : /\ Becomes(Main, c) /\ c.gone = cur /\ c.made = thr[Main].made
               /\ c.pc = "drain"
  BY CloseEffect
<1>3. /\ thr'[Main] = c /\ c.pc \in {"drain"} /\ Is' = Is
      /\ \A u \in Callers : u # Main => thr'[u] = thr[u]
      /\ \A i \in Is : Live(i)' <=> Live(i)
  BY <1>1, <1>2 DEF Becomes, Others, Live, Is
<1>4. (Early /\ Ends /\ InTurn /\ GoneIsGone)'
  BY <1>1, <1>3, Who DEF IInv, Early, Ends, InTurn, GoneIsGone, Busy
<1>5. MainPlace' /\ MainStops'
  BY <1>1, <1>2, <1>3 DEF IInv, MainPlace, MainStops
<1>6. LiveOwned'
  BY <1>1, <1>3 DEF IInv, LiveOwned
<1>7. RemovedWaited'
  BY <1>1, <1>3 DEF IInv, RemovedWaited, Waited
<1>8. SerialOK'
  <2>1. \A u \in Requests : thr'[u] = thr[u]
    BY <1>3, Who
  <2>2. TokenOK => TokenOK'
    BY <1>1, <1>3, <2>1 DEF TokenOK
  <2>3. \A t \in Requests : RequestOK(t) => RequestOK(t)'
    BY <1>1, <2>1 DEF RequestOK, loadToken
  <2>4. QED BY <1>1, <2>2, <2>3 DEF IInv, SerialOK
<1>9. QED BY <1>4, <1>5, <1>6, <1>7, <1>8 DEF IInv

LEMMA DrainInv == ASSUME TypeOK, IInv, Drain PROVE IInv'
<1>1. thr[Main].pc = "drain" /\ UNCHANGED <<env, ctx, file, cur, relays>>
  BY DrainEffect DEF at
<1>2. PICK c : /\ Becomes(Main, c) /\ c.gone = thr[Main].gone /\ c.made = thr[Main].made
               /\ c.pc = IF thr[Main].gone = None THEN "done" ELSE "stop"
  BY DrainEffect
<1>3. /\ thr'[Main] = c /\ c.pc \in {"done", "stop"} /\ Is' = Is
      /\ \A u \in Callers : u # Main => thr'[u] = thr[u]
      /\ \A i \in Is : Live(i)' <=> Live(i)
  BY <1>1, <1>2 DEF Becomes, Others, Live, Is
<1>4. (Early /\ Ends /\ InTurn /\ GoneIsGone)'
  BY <1>1, <1>3, Who DEF IInv, Early, Ends, InTurn, GoneIsGone, Busy
<1>5. MainPlace' /\ MainStops'
  <2>1. MainPlace'
    BY <1>1, <1>3 DEF IInv, MainPlace
  <2>2. cur # None => ~Live(cur) \/ thr[Main].gone = cur
    BY <1>1 DEF IInv, MainStops
  <2>3. cur \in Is \union {0}
    BY LenNat DEF TypeOK, RelaysOK, Is
  <2>4. QED BY <1>1, <1>2, <1>3, <2>1, <2>2, <2>3 DEF MainStops, None
<1>6. LiveOwned'
  BY <1>1, <1>3 DEF IInv, LiveOwned
<1>7. RemovedWaited'
  BY <1>1, <1>3 DEF IInv, RemovedWaited, Waited
<1>8. SerialOK'
  <2>1. \A u \in Requests : thr'[u] = thr[u]
    BY <1>3, Who
  <2>2. TokenOK => TokenOK'
    BY <1>1, <1>3, <2>1 DEF TokenOK
  <2>3. \A t \in Requests : RequestOK(t) => RequestOK(t)'
    BY <1>1, <2>1 DEF RequestOK, loadToken
  <2>4. QED BY <1>1, <2>2, <2>3 DEF IInv, SerialOK
<1>9. QED BY <1>4, <1>5, <1>6, <1>7, <1>8 DEF IInv

LEMMA InitInv == ASSUME Init PROVE IInv
<1>1. TypeOK /\ \A i \in Is : i = cur /\ ~Live(i)
  BY InitType DEF Live
<1>2. /\ ctx = "none" /\ file = env.file
      /\ \A t \in Callers : thr[t].pc = "idle" /\ thr[t].made = None /\ thr[t].gone = None
  BY DEF Init, idle
<1>3. (Early /\ Ends /\ InTurn /\ MainPlace /\ GoneIsGone)
  BY <1>1, <1>2, Who DEF Early, Ends, InTurn, MainPlace, GoneIsGone, Busy
<1>4. LiveOwned /\ MainStops /\ RemovedWaited
  BY <1>1, <1>2, Who DEF LiveOwned, MainStops, RemovedWaited
<1>5. TokenOK
  <2> PICK loaded \in loadToken(env.first.env) :
        relays = IF env.first.relay THEN <<newRelay(env.first, loaded)>> ELSE <<>>
    BY DEF Init
  <2> DEFINE s == newRelay(env.first, loaded)
  <2>1. env.first \in Config /\ env.first.env \in BOOLEAN
    BY <1>1 DEF TypeOK, OutsideOK, Env, Config
  <2>2. loaded \in Saved \union {BadToken}
    BY <1>1, <2>1, LoadType DEF TypeOK
  <2>3. s.env = env.first.env /\ s.tok = IF loaded = BadToken THEN NoToken ELSE loaded
    BY <2>1, <2>2, NewType
  <2> HIDE DEF s
  <2>4. /\ cur # None => cur = 1 /\ relays = <<s>>
        /\ cur = None => relays = <<>>
    BY DEF Init, None, s
  <2>5. cur # None => relays[cur] = s
    BY <2>4
  <2>6. cur = None => Is = {}
    BY <2>4 DEF Is
  <2>7. ~env.first.env => loaded = file \/ ("read" \in env.faults /\ loaded = BadToken)
    BY DEF loadToken
  <2>8. QED BY <2>3, <2>5, <2>6, <2>7 DEF TokenOK, Usable
<1>6. SerialOK
  BY <1>2, <1>5, Who DEF SerialOK, RequestOK
<1>7. QED BY <1>3, <1>4, <1>6 DEF IInv

-----------------------------------------------------------------------------
(* The theorems.                                                           *)

LEMMA StepOK ==
  ASSUME TypeOK, [Next]_vars
  PROVE  TypeOK' /\ (IInv => IInv')
<1>0. cur \in Is \union {0}
  BY LenNat DEF TypeOK, RelaysOK, Is
<1>1. ASSUME TypeOK', UNCHANGED <<env, ctx, file, cur, thr, relays>> PROVE IInv => IInv'
  <2>1. Is' = Is /\ \A j \in Is : Live(j)' => Live(j)
    BY <1>1 DEF Is, Live
  <2>2. QED BY <1>0, <1>1, <2>1, QuietInv
<1>2. ASSUME UNCHANGED <<outside, ctx, file, mu, cur, group, thr>>, \E i, r : Calm(i, r) PROVE IInv => IInv'
  <2>1. PICK i, r : Calm(i, r)
    BY <1>2
  <2>2. /\ Is' = Is /\ relays'[i] = r
        /\ \A j \in Is : j # i => relays'[j] = relays[j]
    BY <2>1, RelaySet DEF TypeOK, Calm
  <2>3. \A j \in Is : /\ relays'[j].env = relays[j].env /\ relays'[j].tok = relays[j].tok
                      /\ relays'[j].owned = relays[j].owned
                      /\ Live(j)' => Live(j)
    BY <2>1, <2>2 DEF Calm, Live
  <2>4. UNCHANGED <<env, ctx, file, cur, thr>>
    BY <1>2 DEF outside
  <2>5. QED BY <1>0, <2>2, <2>3, <2>4, QuietInv
<1>3. ASSUME NEW t \in Requests, NEW tok \in Tokens, SetToken(t, tok) PROVE TypeOK' /\ (IInv => IInv')
  <2>1. TypeOK' /\ MayBegin(t) /\ cur # None /\ UNCHANGED <<env, ctx, file, cur, relays>>
    BY <1>3, SetTokenEffect
  <2>2. PICK c : /\ Becomes(t, c)
                 /\ \/ c.pc = "done" /\ c.made = 0 /\ c.gone = 0
                    \/ c.pc = "save" /\ c.made = cur /\ c.gone = thr[t].gone /\ ~relays[cur].env
    BY <1>3, SetTokenEffect
  <2>3. IInv => thr[t].gone = 0
    BY <2>1 DEF IInv, Ends, MayBegin, at, None
  <2>4. QED BY <2>1, <2>2, <2>3, BeginInv
<1>4. ASSUME NEW t \in Requests, NEW cfg \in Config, Apply(t, cfg) PROVE TypeOK' /\ (IInv => IInv')
  <2>1. TypeOK' /\ MayBegin(t) /\ UNCHANGED <<env, ctx, file, cur, relays>>
    BY <1>4, ApplyEffect
  <2>2. PICK c : /\ Becomes(t, c) /\ c.pc = "configure" /\ c.made = thr[t].made /\ c.gone = thr[t].gone
                 /\ c.tok \in loadToken(c.cfg.env)
    BY <1>4, ApplyEffect
  <2>3. IInv => thr[t].gone = 0 /\ thr[t].made = 0
    BY <2>1 DEF IInv, Ends, MayBegin, at, None
  <2>4. QED BY <2>1, <2>2, <2>3, BeginInv
<1>5. ASSUME NEW t \in Callers, Step(t) PROVE TypeOK' /\ (IInv => IInv')
  <2>1. CASE SaveToken(t)
    BY <2>1, SaveTokenEffect, SaveTokenInv
  <2>2. CASE UseToken(t)
    BY <2>2, UseTokenEffect, UseTokenInv
  <2>3. CASE Configure(t)
    BY <2>3, ConfigureEffect, ConfigureInv
  <2>4. CASE StartMade(t)
    BY <2>4, StartMadeEffect, StartMadeInv
  <2>5. CASE Stop(t)
    BY <2>5, StopEffect, StopInv
  <2>6. CASE Join(t)
    BY <2>6, JoinEffect, JoinInv
  <2>7. CASE Forget(t)
    BY <2>7, ForgetEffect, ForgetInv
  <2>8. QED BY <1>5, <2>1, <2>2, <2>3, <2>4, <2>5, <2>6, <2>7 DEF Step
<1>6. ASSUME NEW i \in Is, run(i) PROVE TypeOK' /\ (IInv => IInv')
  <2>1. UNCHANGED <<outside, ctx, file, mu, cur, group, thr, conn>> /\ \E r : Calm(i, r)
    BY <1>6, LoopStep
  <2>2. QED BY <1>2, <2>1, CalmType DEF TypeOK
<1>7. ASSUME NEW d \in Dialers, Dial(d) PROVE TypeOK' /\ (IInv => IInv')
  <2>1. TypeOK'
    BY <1>7, ConnectionType
  <2>2. UNCHANGED <<env, ctx, file, cur, thr, relays>>
    BY <1>7 DEF Dial, outside
  <2>3. QED BY <1>1, <2>1, <2>2
<1>8. ASSUME CheckHealth PROVE TypeOK' /\ (IInv => IInv')
  <2>1. TypeOK'
    BY <1>8, ConnectionType
  <2>2. UNCHANGED <<outside, ctx, file, mu, cur, group, thr>> /\ (UNCHANGED relays \/ \E i, r : Calm(i, r))
    BY <1>8, HealthStep
  <2>3. UNCHANGED <<env, ctx, file, cur, thr>>
    BY <2>2 DEF outside
  <2>4. QED BY <1>1, <1>2, <2>1, <2>2, <2>3
<1>9. ASSUME NEW d \in Conns, AskConn(d) PROVE TypeOK' /\ (IInv => IInv')
  <2>1. TypeOK'
    BY <1>9, ConnectionType
  <2>2. UNCHANGED <<env, ctx, file, cur, thr, relays>>
    BY <1>9 DEF AskConn
  <2>3. QED BY <1>1, <2>1, <2>2
<1>10. ASSUME NEW d \in Conns, ReportConn(d) PROVE TypeOK' /\ (IInv => IInv')
  <2>1. TypeOK'
    BY <1>10, ConnectionType
  <2>2. UNCHANGED <<outside, ctx, file, mu, cur, group, thr>> /\ \E i, r : Calm(i, r)
    BY <1>10, ReportStep
  <2>3. QED BY <1>2, <2>1, <2>2
<1>11. ASSUME Start PROVE TypeOK' /\ (IInv => IInv')
  BY <1>11, StartEffect, StartInv
<1>12. ASSUME Signal PROVE TypeOK' /\ (IInv => IInv')
  BY <1>12, SignalEffect, SignalInv
<1>13. /\ Close => TypeOK' /\ (IInv => IInv')
       /\ Drain => TypeOK' /\ (IInv => IInv')
  BY CloseEffect, CloseInv, DrainEffect, DrainInv
<1>14. ASSUME Change PROVE TypeOK' /\ (IInv => IInv')
  BY <1>1, <1>14, ChangeEffect
<1>15. ASSUME UNCHANGED vars PROVE TypeOK' /\ (IInv => IInv')
  <2>1. UNCHANGED <<outside, ctx, file, mu, cur, group, thr, conn, relays>>
    BY <1>15 DEF vars, outside
  <2>2. OutsideOK' /\ RelaysOK' /\ CallersOK' /\ ConnsOK'
    BY <2>1, OutsideStay, RelaysStay, CallersStay, ConnsStay DEF TypeOK
  <2>3. UNCHANGED <<env, ctx, file, cur, thr, relays>>
    BY <2>1 DEF outside
  <2>4. QED BY <1>1, <2>2, <2>3 DEF TypeOK
<1>16. QED
  <2>1. DOMAIN relays = Is
    BY DEF TypeOK, RelaysOK, Is
  <2>2. QED
    BY <1>3, <1>4, <1>5, <1>6, <1>7, <1>8, <1>9, <1>10, <1>11, <1>12, <1>13, <1>14, <1>15, <2>1
       DEF Next, Request

\* Every variable has its type, and every index that a caller, a connection or
\* the group keeps leads to a relay that was made (manager.go:138, relay.go:48).
THEOREM RelayTypeOK == Spec => []TypeOK
<1>1. Init => TypeOK
  BY InitType
<1>2. TypeOK /\ [Next]_vars => TypeOK'
  BY StepOK
<1>3. QED BY <1>1, <1>2, PTL DEF Spec

LEMMA RelayInv == Spec => []IInv
<1>1. Init => IInv
  BY InitInv
<1>2. TypeOK /\ IInv /\ [Next]_vars => IInv'
  BY StepOK
<1>3. QED BY <1>1, <1>2, RelayTypeOK, PTL DEF Spec

\* After requests that took turns, the relay uses the token that is saved, or
\* none where the file is not one that loadToken accepts, or could not be read
\* when the relay was configured; a removed relay has left none, but where its
\* file could not be removed.  So setToken and configure keep memory and file
\* together also when a token cannot be saved (relay.go:80, 139, 160;
\* manager.go:241).
THEOREM RelaySavedTokenIsUsed == Spec => []SavedTokenIsUsed
<1>1. TypeOK /\ IInv => SavedTokenIsUsed
  <2>1. SUFFICES ASSUME TypeOK, IInv, env.serial, Quiet
                 PROVE  /\ cur # None /\ ~relays[cur].env =>
                             \/ relays[cur].tok = Usable(file)
                             \/ "read" \in env.faults /\ relays[cur].tok = NoToken
                        /\ cur = None /\ relays # <<>> => file = NoToken \/ "remove" \in env.faults
    BY DEF SavedTokenIsUsed
  <2>2. \A t \in Requests : thr[t].pc # "use" /\ thr[t].gone = None
    BY <2>1 DEF Quiet, Busy, IInv, Ends
  <2>3. relays # <<>> => Is # {}
    BY <2>1, EmptySeq DEF TypeOK, RelaysOK, Is
  <2>4. QED BY <2>1, <2>2, <2>3 DEF IInv, SerialOK, TokenOK
<1>2. QED BY <1>1, RelayTypeOK, RelayInv, PTL

\* A relay that was removed is not probed any more once the requests, taken in
\* turns, have returned: stop cancels every loop that start began, and waits
\* for it; and Close leaves no loop behind (relay.go:173, 187; manager.go:241,
\* 355).
THEOREM RelayRemovedAreStopped == Spec => []RemovedAreStopped
<1>1. TypeOK /\ IInv => RemovedAreStopped
  <2>1. ASSUME TypeOK, IInv, env.serial, Quiet, NEW i \in DOMAIN relays, i # cur
        PROVE  relays[i].run \in {"off", "ended"} \/ Busy(Main)
    <3>1. i \in Is
      BY <2>1 DEF TypeOK, RelaysOK, Is
    <3>2. Live(i) => \E t \in Callers : Busy(t)
      BY <2>1, <3>1 DEF IInv, RemovedWaited, Waited, Busy
    <3>3. \A t \in Requests : ~Busy(t)
      BY <2>1 DEF Quiet
    <3>4. QED BY <3>2, <3>3, Who DEF Live
  <2>2. ASSUME IInv, at(Main, "done"), cur # None
        PROVE  relays[cur].run \in {"off", "ended"}
    BY <2>2 DEF IInv, MainStops, at, Live
  <2>3. QED BY <2>1, <2>2 DEF RemovedAreStopped
<1>2. QED BY <1>1, RelayTypeOK, RelayInv, PTL

-----------------------------------------------------------------------------
(* pick, for groups of any length.                                          *)

\* A set of natural numbers has a least element: how what a loop computes is
\* shown for every number of rounds.
LEMMA Least ==
  ASSUME NEW T, T \subseteq Nat, T # {}
  PROVE  \E x \in T : \A y \in T : ~(y < x)
  <1> DEFINE R == OpToRel(<, Nat)
  <1>1. IsWellFoundedOn(R, Nat)
    BY NatLessThanWellFounded
  <1>2. \A x, y \in Nat : x < y => <<x, y>> \in R
    BY DEF OpToRel
  <1> HIDE DEF R
  <1>3. PICK x \in T : \A y \in T : ~(<<y, x>> \in R)
    BY <1>1, WFMin
  <1>4. \A y \in T : ~(y < x)
    BY <1>2, <1>3, Zenon
  <1> QED
    BY <1>4

\* The loop of pick, as far as member m: the best so far after each round.
Rounds(kind, members, m, g) ==
  g = [n \in 0..m |-> IF n = 0 THEN Nobody ELSE IF Preferred(kind, members, g[n - 1], n) THEN n ELSE g[n - 1]]

LEMMA LoopRuns ==
  ASSUME NEW kind, NEW members, NEW m \in Nat
  PROVE  \E g : Rounds(kind, members, m, g)
  <1> DEFINE T == {n \in Nat : ~\E g : Rounds(kind, members, n, g)}
  <1> SUFFICES ASSUME T # {} PROVE FALSE
    OBVIOUS
  <1>1. PICK n \in T : \A i \in T : ~(i < n)
    BY Least
  <1>2. n \in Nat /\ ~\E g : Rounds(kind, members, n, g)
    BY <1>1
  <1>3. CASE n = 0
    <2> DEFINE g == [i \in 0..0 |-> Nobody]
    <2>1. g = [i \in 0..0 |-> IF i = 0 THEN Nobody ELSE IF Preferred(kind, members, g[i - 1], i) THEN i ELSE g[i - 1]]
      OBVIOUS
    <2>2. Rounds(kind, members, 0, g)
      BY <2>1 DEF Rounds
    <2> QED
      BY <1>2, <1>3, <2>2
  <1>4. CASE n # 0
    <2>1. n - 1 \in Nat /\ n - 1 < n
      BY <1>2, <1>4
    <2>2. n - 1 \notin T
      BY <1>1, <2>1
    <2>3. PICK g : Rounds(kind, members, n - 1, g)
      BY <2>1, <2>2
    <2> DEFINE last == IF Preferred(kind, members, g[n - 1], n) THEN n ELSE g[n - 1]
               h == [i \in 0..n |-> IF i = n THEN last ELSE g[i]]
    <2>4. \A i \in 0..(n - 1) : g[i] = IF i = 0 THEN Nobody ELSE IF Preferred(kind, members, g[i - 1], i) THEN i ELSE g[i - 1]
      BY <2>3 DEF Rounds
    <2>5. \A i \in 0..n : i # n => i \in 0..(n - 1) /\ h[i] = g[i]
      BY <1>2
    <2>6. h[n] = last
      BY <1>2
    <2>7. \A i \in 0..n : h[i] = IF i = 0 THEN Nobody ELSE IF Preferred(kind, members, h[i - 1], i) THEN i ELSE h[i - 1]
      <3> SUFFICES ASSUME NEW i \in 0..n
                   PROVE  h[i] = IF i = 0 THEN Nobody ELSE IF Preferred(kind, members, h[i - 1], i) THEN i ELSE h[i - 1]
        OBVIOUS
      <3>1. i # 0 => i - 1 \in 0..n /\ i - 1 # n
        BY <1>2
      <3>2. i # 0 => h[i - 1] = g[i - 1]
        BY <2>5, <3>1
      <3> HIDE DEF h
      <3>3. CASE i = n
        BY <1>4, <2>6, <3>2, <3>3
      <3>4. CASE i # n
        BY <2>4, <2>5, <3>2, <3>4
      <3> QED
        BY <3>3, <3>4
    <2>8. h = [i \in 0..n |-> h[i]]
      OBVIOUS
    <2> HIDE DEF h
    <2>9. h = [i \in 0..n |-> IF i = 0 THEN Nobody ELSE IF Preferred(kind, members, h[i - 1], i) THEN i ELSE h[i - 1]]
      BY <2>7, <2>8
    <2> QED
      BY <1>2, <2>9 DEF Rounds
  <1> QED
    BY <1>3, <1>4

LEMMA PickRuns ==
  ASSUME NEW kind, NEW members, Len(members) \in Nat
  PROVE  \E g : Rounds(kind, members, Len(members), g) /\ pick(kind, members) = g[Len(members)]
  <1> DEFINE best == CHOOSE g : Rounds(kind, members, Len(members), g)
  <1>1. Rounds(kind, members, Len(members), best)
    BY LoopRuns
  <1>2. pick(kind, members) = best[Len(members)]
    BY DEF pick, Rounds
  <1> QED
    BY <1>1, <1>2

\* b is what the group promises of its first n members.
Promised(kind, members, n, b) ==
  LET Chosen(i) == i \in 1..n /\ Candidate(members[i]) IN
  \/ b = Nobody /\ \A i \in 1..n : ~Chosen(i)
  \/ /\ Chosen(b)
     /\ \/ kind # "latency" /\ \A i \in 1..n : Chosen(i) => b <= i
        \/ /\ kind = "latency" /\ measured(members[b])
           /\ \A i \in 1..n : Chosen(i) /\ measured(members[i]) => members[b].health <= members[i].health
        \/ /\ kind = "latency" /\ ~measured(members[b])
           /\ \A i \in 1..n : Chosen(i) => ~measured(members[i]) /\ b <= i

\* One more round keeps the promise.
LEMMA RoundPromised ==
  ASSUME NEW kind, NEW members, NEW n \in Nat, NEW b,
         \A i \in 1..(n + 1) : members[i].health \in Int /\ members[i].health # 0,
         Promised(kind, members, n, b)
  PROVE  Promised(kind, members, n + 1, IF Preferred(kind, members, b, n + 1) THEN n + 1 ELSE b)
  <1> DEFINE k == n + 1
  <1>1. /\ k \in 1..(n + 1) /\ k # 0
        /\ \A i \in 1..k : (i \in 1..n \/ i = k) /\ i <= k
        /\ \A i \in 1..n : i \in 1..k /\ i < k
    OBVIOUS
  <1> HIDE DEF k
  <1>2. CASE ~Candidate(members[k])
    BY <1>1, <1>2 DEF Promised, Preferred, k
  <1>3. CASE Candidate(members[k]) /\ b = Nobody
    BY <1>1, <1>3 DEF Promised, Preferred, Nobody, k
  <1>4. CASE Candidate(members[k]) /\ b # Nobody /\ kind # "latency"
    BY <1>1, <1>4 DEF Promised, Preferred, Nobody, k
  <1>5. CASE Candidate(members[k]) /\ b # Nobody /\ kind = "latency"
    <2>1. b \in 1..n /\ Candidate(members[b])
      BY <1>5 DEF Promised
    <2>2. members[b].health \in Int /\ members[k].health \in Int /\ members[b].health # 0
      BY <1>1, <2>1
    <2>3. CASE ~measured(members[k])
      BY <1>1, <1>5, <2>1, <2>2, <2>3 DEF Promised, Preferred, k
    <2>4. CASE measured(members[k]) /\ ~measured(members[b])
      BY <1>1, <1>5, <2>1, <2>2, <2>4 DEF Promised, Preferred, k
    <2>5. CASE measured(members[k]) /\ measured(members[b])
      BY <1>1, <1>5, <2>1, <2>2, <2>5 DEF Promised, Preferred, k
    <2> QED
      BY <2>3, <2>4, <2>5
  <1> QED
    BY <1>2, <1>3, <1>4, <1>5

LEMMA LoopPromised ==
  ASSUME NEW kind, NEW members, NEW m \in Nat, NEW g, Rounds(kind, members, m, g),
         \A i \in 1..m : members[i].health \in Int /\ members[i].health # 0
  PROVE  \A n \in 0..m : Promised(kind, members, n, g[n])
  <1> DEFINE T == {n \in 0..m : ~Promised(kind, members, n, g[n])}
  <1> SUFFICES ASSUME T # {} PROVE FALSE
    OBVIOUS
  <1>1. T \subseteq Nat
    OBVIOUS
  <1>2. PICK n \in T : \A i \in T : ~(i < n)
    BY <1>1, Least
  <1>3. n \in 0..m /\ ~Promised(kind, members, n, g[n])
    BY <1>2
  <1>4. \A i \in 0..m : g[i] = IF i = 0 THEN Nobody ELSE IF Preferred(kind, members, g[i - 1], i) THEN i ELSE g[i - 1]
    BY DEF Rounds
  <1>5. CASE n = 0
    <2>1. g[n] = Nobody
      BY <1>3, <1>4, <1>5
    <2> QED
      BY <1>3, <1>5, <2>1 DEF Promised
  <1>6. CASE n # 0
    <2> DEFINE p == n - 1
    <2>1. p \in Nat /\ p \in 0..m /\ p < n /\ p + 1 = n
      BY <1>3, <1>6
    <2>2. Promised(kind, members, p, g[p])
      BY <1>2, <2>1
    <2>3. \A i \in 1..(p + 1) : members[i].health \in Int /\ members[i].health # 0
      BY <1>3, <2>1
    <2>4. g[n] = IF Preferred(kind, members, g[p], n) THEN n ELSE g[p]
      BY <1>3, <1>4, <1>6
    <2> HIDE DEF p
    <2>5. Promised(kind, members, p + 1, IF Preferred(kind, members, g[p], p + 1) THEN p + 1 ELSE g[p])
      BY <2>1, <2>2, <2>3, RoundPromised
    <2> QED
      BY <1>3, <2>1, <2>4, <2>5
  <1> QED
    BY <1>5, <1>6

\* pick keeps the promise of its group: for any number of members, in any
\* state, whose measured times are positive (manager.go:442).
THEOREM PickKeepsPromise ==
  ASSUME NEW kind, NEW members, Len(members) \in Nat,
         \A i \in 1..Len(members) : members[i].health \in Int /\ members[i].health # 0
  PROVE  Best(kind, members, pick(kind, members))
  <1> DEFINE m == Len(members)
             b == pick(kind, members)
  <1>1. PICK g : Rounds(kind, members, m, g) /\ b = g[m]
    BY PickRuns
  <1>2. Promised(kind, members, m, b)
    <2>1. \A n \in 0..m : Promised(kind, members, n, g[n])
      BY <1>1, LoopPromised
    <2>2. m \in 0..m
      OBVIOUS
    <2> QED
      BY <1>1, <2>1, <2>2
  <1> HIDE DEF b, m
  <1>3. Best(kind, members, b)
    BY <1>2 DEF Promised, Best, m
  <1> QED
    BY <1>3 DEF b

\* It does so at every moment, for the groups of up to three members the model
\* evaluates too.
THEOREM RelayPickIsBest == Spec => []PickIsBest
  <1>1. PicksAreBest
    <2> SUFFICES ASSUME NEW kind \in {"fallback", "latency"}, NEW members \in Groups
                 PROVE  Best(kind, members, pick(kind, members))
      BY DEF PicksAreBest
    <2>1. PICK n \in 0..3 : members \in [1..n -> Members]
      BY DEF Groups
    <2>2. Len(members) = n
      BY <2>1
    <2>3. \A i \in 1..n : members[i].health \in Int /\ members[i].health # 0
      BY <2>1 DEF Members, Unmeasured, Failed
    <2> QED
      BY <2>2, <2>3, PickKeepsPromise
  <1>2. PickIsBest
    BY <1>1 DEF PickIsBest
  <1> QED
    BY <1>2, PTL

=============================================================================
