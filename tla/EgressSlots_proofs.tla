-------------------------- MODULE EgressSlots_proofs --------------------------
(***************************************************************************)
(* For any number of exit nodes and callers, whatever fails: the types;    *)
(* stop closes only servers whose Start has succeeded (CloseOnlyStarted);  *)
(* while requests take turns a node is given up only by removing its       *)
(* egress (KeepsDevice); and unless two callers stop one slot at a time,   *)
(* a directory has one server at most (OneServer), and a slot that was     *)
(* stopped leaves none behind (StopsAreFinal).                             *)
(***************************************************************************)
EXTENDS EgressSlots, SequenceTheorems, FiniteSetTheorems, TLAPS

Pcs == {"idle", "start", "stop", "wait", "close", "logout", "rmdir",
        "snapshot", "running", "needsLogin", "done"}
Thread == [pc : Pcs, slot : Nat, srv : Nat]
Ks == 1..Len(servers)
Os == 1..Len(slots)

\* A server that is about to be marked has been started.
ServersOK ==
  /\ servers \in Seq(Server)
  /\ \A k \in Ks : /\ servers[k].slot \in Os
                   /\ servers[k].run = "mark" => servers[k].backend \in Started

\* A slot is marked as started only if its server is.
SlotsOK ==
  /\ slots \in Seq(Slot)
  /\ \A o \in Os : /\ slots[o].srv \in 0..Len(servers)
                   /\ slots[o].started => slots[o].srv \in Ks /\ servers[slots[o].srv].backend \in Started

\* A caller works on a slot there is, and closes a server that has started.
CallerOK(t) ==
  /\ thr[t].pc \notin {"idle", "snapshot", "done"} => thr[t].slot \in Os
  /\ at(t, "wait") => thr[t].srv \in Ks
  /\ at(t, "close") => thr[t].srv \in Ks /\ servers[thr[t].srv].backend \in Started

CallersOK ==
  /\ thr \in [Threads -> Thread]
  /\ \A t \in Threads : CallerOK(t)

RestOK ==
  /\ env \in Envs
  /\ ctx \in {"none", "up", "cancelled"}
  /\ key \in BOOLEAN
  /\ cur \in 0..Len(slots)
  /\ dir \in [kind : {"none", "empty", "node"}, exit : Exits \union {NoExit}]

IInv == RestOK /\ SlotsOK /\ ServersOK /\ CallersOK

\* What no step undoes: slots and servers stay, and a started server has been.
Kept ==
  /\ Len(slots') \in Nat /\ Len(slots') >= Len(slots)
  /\ Len(servers') \in Nat /\ Len(servers') >= Len(servers)
  /\ \A k \in Ks : servers[k].backend \in Started => servers'[k].backend \in Started

LEMMA EnvIsEnv == ASSUME env \in Envs PROVE env \in Env
BY EnvsAssumption

LEMMA ServerSet ==
  ASSUME IInv, NEW k \in Ks, NEW r \in Server,
         r.slot = servers[k].slot,
         servers[k].backend \in Started => r.backend \in Started,
         r.run = "mark" => r.backend \in Started,
         servers' = [servers EXCEPT ![k] = r],
         Len(slots') \in Nat, Len(slots') >= Len(slots)
  PROVE  ServersOK' /\ Kept
<1>1. servers' \in Seq(Server) /\ Len(servers') = Len(servers)
  BY ExceptSeq DEF IInv, ServersOK, Ks
<1>2. \A j \in Ks : servers'[j] = IF j = k THEN r ELSE servers[j]
  BY ExceptSeq DEF IInv, ServersOK, Ks
<1>3. QED
  BY <1>1, <1>2 DEF IInv, ServersOK, SlotsOK, Kept, Ks, Os

LEMMA ServersSame ==
  ASSUME IInv, servers' = servers, Len(slots') \in Nat, Len(slots') >= Len(slots)
  PROVE  ServersOK' /\ Kept
BY DEF IInv, ServersOK, SlotsOK, Kept, Ks, Os

LEMMA SlotSet ==
  ASSUME IInv, Len(servers') \in Nat, Len(servers') >= Len(servers),
         \A k \in Ks : servers[k].backend \in Started => servers'[k].backend \in Started,
         NEW o \in Os, NEW r \in Slot,
         r.srv \in 0..Len(servers'),
         r.started => r.srv \in 1..Len(servers') /\ servers'[r.srv].backend \in Started,
         slots' = [slots EXCEPT ![o] = r]
  PROVE  SlotsOK' /\ Len(slots') = Len(slots)
<1>1. slots' \in Seq(Slot) /\ Len(slots') = Len(slots)
  BY ExceptSeq DEF IInv, SlotsOK, Os
<1>2. \A j \in Os : slots'[j] = IF j = o THEN r ELSE slots[j]
  BY ExceptSeq DEF IInv, SlotsOK, Os
<1>3. QED
  BY <1>1, <1>2 DEF IInv, ServersOK, SlotsOK, Ks, Os

LEMMA SlotsSame ==
  ASSUME IInv, slots' = slots, Kept
  PROVE  SlotsOK'
BY DEF IInv, SlotsOK, Kept, Ks, Os

\* A caller that a step leaves alone stays where it was.
LEMMA CallersKept ==
  ASSUME IInv, Kept, NEW t \in Threads, thr'[t] = thr[t]
  PROVE  CallerOK(t)'
BY SMTT(60) DEF IInv, CallersOK, CallerOK, Kept, Ks, Os, at, ServersOK, SlotsOK

\* The step of one caller.
LEMMA CallerSet ==
  ASSUME IInv, Kept, NEW t \in Threads, NEW c \in Thread,
         thr' = [thr EXCEPT ![t] = c],
         c.pc \notin {"idle", "snapshot", "done"} => c.slot \in 1..Len(slots'),
         c.pc = "wait" => c.srv \in 1..Len(servers'),
         c.pc = "close" => c.srv \in 1..Len(servers') /\ servers'[c.srv].backend \in Started
  PROVE  CallersOK'
<1>1. thr' \in [Threads -> Thread] /\ thr'[t] = c
  BY DEF IInv, CallersOK
<1>2. ASSUME NEW u \in Threads PROVE CallerOK(u)'
  <2>1. CASE u = t
    BY <1>1, <2>1 DEF CallerOK, Kept, Ks, Os, at
  <2>2. CASE u # t
    BY <2>2, CallersKept DEF IInv, CallersOK
  <2>3. QED BY <2>1, <2>2
<1>3. QED BY <1>1, <1>2 DEF CallersOK

LEMMA CallersSame ==
  ASSUME IInv, Kept, thr' = thr
  PROVE  CallersOK'
BY CallersKept DEF IInv, CallersOK

\* A step that changes neither slots nor servers.
LEMMA NothingMoved ==
  ASSUME IInv, slots' = slots, servers' = servers
  PROVE  SlotsOK' /\ ServersOK' /\ Kept
<1>1. Len(slots') \in Nat /\ Len(slots') >= Len(slots)
  BY DEF IInv, SlotsOK
<1>2. QED
  BY <1>1, ServersSame, SlotsSame

LEMMA Inits == Init => IInv
<1>1. ASSUME Init PROVE IInv
  <2>1. RestOK
    <3>1. env \in Env /\ env \in Envs
      BY <1>1, EnvsAssumption DEF Init
    <3>2. key \in BOOLEAN
      BY <1>1, <3>1 DEF Init, Env
    <3>3. cur \in 0..Len(slots)
      BY <1>1 DEF Init, None
    <3>4. dir \in [kind : {"none", "empty", "node"}, exit : Exits \union {NoExit}]
      BY <1>1 DEF Init
    <3>5. QED BY <1>1, <3>1, <3>2, <3>3, <3>4 DEF Init, RestOK
  <2>2. servers = <<>> /\ servers \in Seq(Server) /\ Len(servers) = 0
    BY <1>1 DEF Init
  <2>3. SlotsOK
    <3>1. CASE slots = <<>>
      BY <3>1, <2>2 DEF SlotsOK, Os
    <3>2. CASE \E x \in Exits : slots = <<newSlot(x)>>
      <4>1. PICK x \in Exits : slots = <<newSlot(x)>>
        BY <3>2
      <4>2. newSlot(x) \in Slot /\ newSlot(x).srv = 0 /\ newSlot(x).started = FALSE
        BY DEF newSlot, Slot, None
      <4>3. QED BY <4>1, <4>2, <2>2 DEF SlotsOK, Os
    <3>3. QED BY <1>1, <3>1, <3>2 DEF Init
  <2>4. CallersOK
    BY <1>1, <2>2 DEF Init, CallersOK, CallerOK, Thread, Pcs, idle, None, at
  <2>5. QED BY <2>1, <2>2, <2>3, <2>4 DEF IInv, ServersOK, Ks
<1>2. QED BY <1>1

-----------------------------------------------------------------------------
(* Slot.start.                                                             *)

LEMMA StartStep ==
  ASSUME IInv, NEW o \in Os, start(o)
  PROVE  SlotsOK' /\ ServersOK' /\ Kept /\ Len(slots') = Len(slots)
<1>1. CASE UNCHANGED <<slots, servers>>
  BY <1>1, NothingMoved
<1>2. CASE /\ servers' = Append(servers, newServer(o))
           /\ slots' = [slots EXCEPT ![o].srv = Len(servers) + 1, ![o].started = FALSE, ![o].state = "starting"]
  <2> DEFINE n == newServer(o)
             r == [slots[o] EXCEPT !.srv = Len(servers) + 1, !.started = FALSE, !.state = "starting"]
  <2>1. n \in Server /\ n.slot = o /\ n.run = "start"
    BY DEF newServer, Server, Os, IInv, RestOK, SlotsOK
  <2>2. /\ servers' \in Seq(Server)
        /\ Len(servers') = Len(servers) + 1
        /\ \A k \in Ks : servers'[k] = servers[k]
        /\ servers'[Len(servers) + 1] = n
    <3>1. servers \in Seq(Server) /\ servers' = Append(servers, n)
      BY <1>2 DEF IInv, ServersOK
    <3> HIDE DEF n
    <3>2. QED BY <3>1, <2>1, AppendProperties DEF Ks
  <2> HIDE DEF n
  <2>0. slots[o] \in Slot /\ Len(servers) \in Nat
    BY DEF IInv, SlotsOK, ServersOK, Os
  <2>3. r \in Slot /\ r.srv = Len(servers) + 1 /\ r.started = FALSE
    <3> DEFINE m == Len(servers) + 1
               z == [slots[o] EXCEPT !.srv = m, !.started = FALSE, !.state = "starting"]
    <3>1. m \in Nat
      BY <2>0
    <3> HIDE DEF m
    <3>2. z \in Slot /\ z.srv = m /\ z.started = FALSE
      BY <2>0, <3>1 DEF Slot
    <3>3. QED BY <3>2 DEF m
  <2>4. slots' = [slots EXCEPT ![o] = r]
    BY <1>2 DEF IInv, SlotsOK
  <2> HIDE DEF r
  <2>5. SlotsOK' /\ Len(slots') = Len(slots)
    <3>1. Len(servers') \in Nat /\ Len(servers') >= Len(servers)
      BY <2>0, <2>2
    <3>2. r.srv \in 0..Len(servers')
      BY <2>0, <2>2, <2>3
    <3>3. \A k \in Ks : servers[k].backend \in Started => servers'[k].backend \in Started
      BY <2>2
    <3>4. QED BY <2>3, <2>4, <3>1, <3>2, <3>3, SlotSet
  <2>6. ServersOK'
    <3>1. ASSUME NEW k \in Ks' PROVE servers'[k].slot \in Os' /\ (servers'[k].run = "mark" => servers'[k].backend \in Started)
      <4>1. CASE k = Len(servers) + 1
        BY <2>1, <2>2, <2>5, <4>1 DEF Os
      <4>2. CASE k # Len(servers) + 1
        <5>1. k \in Ks
          BY <2>0, <2>2, <4>2 DEF Ks
        <5>2. QED BY <2>2, <2>5, <5>1 DEF IInv, ServersOK, Os
      <4>3. QED BY <4>1, <4>2
    <3>2. QED BY <2>2, <3>1 DEF ServersOK
  <2>7. Kept
    BY <2>2, <2>5 DEF Kept, Ks, IInv, ServersOK, SlotsOK
  <2>8. QED BY <2>5, <2>6, <2>7
<1>3. QED
  BY <1>1, <1>2, NothingMoved DEF start

-----------------------------------------------------------------------------
(* The goroutine Slot.run and what the user does to its node.              *)

\* A goroutine's step changes no more than its own server, its slot's flags,
\* and the directory.
LEMMA RunStep ==
  ASSUME IInv, NEW k \in Ks, NEW r \in Server, NEW q \in Slot,
         r.slot = servers[k].slot,
         servers[k].backend \in Started => r.backend \in Started,
         r.run = "mark" => r.backend \in Started,
         servers' = [servers EXCEPT ![k] = r],
         q.srv = slots[servers[k].slot].srv,
         q.started => slots[servers[k].slot].started \/ (q.srv = k /\ r.backend \in Started),
         slots' = slots \/ slots' = [slots EXCEPT ![servers[k].slot] = q],
         dir' \in [kind : {"none", "empty", "node"}, exit : Exits \union {NoExit}],
         UNCHANGED <<env, ctx, key, cur, thr>>
  PROVE  IInv'
<1> DEFINE o == servers[k].slot
<1>1. o \in Os /\ servers \in Seq(Server) /\ slots \in Seq(Slot)
  BY DEF IInv, ServersOK, SlotsOK
<1>2. Len(slots') = Len(slots) /\ Len(slots) \in Nat
  BY <1>1, ExceptSeq DEF Os
<1>3. ServersOK' /\ Kept
  <2>1. Len(slots') \in Nat /\ Len(slots') >= Len(slots)
    BY <1>2
  <2> HIDE DEF o
  <2>2. QED BY <2>1, ServerSet
<1>4. /\ Len(servers') \in Nat /\ Len(servers') >= Len(servers) /\ Len(servers') = Len(servers)
      /\ \A j \in Ks : servers[j].backend \in Started => servers'[j].backend \in Started
      /\ servers'[k] = r
  BY <1>1, <1>3, ExceptSeq DEF Kept, Ks
<1>5. SlotsOK'
  <2>1. CASE slots' = slots
    BY <2>1, <1>3, SlotsSame
  <2>2. CASE slots' = [slots EXCEPT ![o] = q]
    <3>1. q.srv \in 0..Len(servers')
      BY <1>1, <1>4 DEF IInv, SlotsOK
    <3>2. q.started => q.srv \in 1..Len(servers') /\ servers'[q.srv].backend \in Started
      BY <1>1, <1>4 DEF IInv, SlotsOK, Ks
    <3>3. QED BY <1>1, <1>4, <2>2, <3>1, <3>2, SlotSet
  <2>3. QED BY <2>1, <2>2
<1>6. CallersOK'
  BY <1>3, CallersSame
<1>7. RestOK'
  BY <1>2 DEF IInv, RestOK
<1>8. QED BY <1>3, <1>5, <1>6, <1>7 DEF IInv

\* What is known of a server and its slot.
LEMMA OwnSlot ==
  ASSUME IInv, NEW k \in Ks
  PROVE  /\ servers[k] \in Server /\ servers[k].slot \in Os /\ slots[servers[k].slot] \in Slot
         /\ servers \in Seq(Server) /\ slots \in Seq(Slot)
         /\ env \in Env
         /\ dir \in [kind : {"none", "empty", "node"}, exit : Exits \union {NoExit}]
         /\ servers[k].run = "mark" => servers[k].backend \in Started
BY EnvsAssumption DEF IInv, RestOK, SlotsOK, ServersOK, Ks, Os

\* A step of its own that leaves the directory alone.
LEMMA QuietStep ==
  ASSUME IInv, NEW k \in Ks, NEW r \in Server, NEW q \in Slot,
         r.slot = servers[k].slot, r.backend = servers[k].backend, r.run # "mark",
         servers' = [servers EXCEPT ![k] = r],
         q.srv = slots[servers[k].slot].srv, q.started = slots[servers[k].slot].started,
         slots' = slots \/ slots' = [slots EXCEPT ![servers[k].slot] = q],
         UNCHANGED <<env, ctx, key, cur, dir, thr>>
  PROVE  IInv'
BY OwnSlot, RunStep

LEMMA RunWaitKeeps == ASSUME IInv, NEW k \in Ks, RunWait(k) PROVE IInv'
<1> DEFINE o == servers[k].slot
<1>1. servers[k] \in Server /\ o \in Os /\ slots[o] \in Slot /\ servers \in Seq(Server) /\ slots \in Seq(Slot)
  BY OwnSlot
<1>2. CASE /\ servers' = [servers EXCEPT ![k] = [servers[k] EXCEPT !.run = IF Over(k) THEN "done" ELSE "status"]]
            /\ slots' = slots
  <2> DEFINE r == [servers[k] EXCEPT !.run = IF Over(k) THEN "done" ELSE "status"]
             q == slots[o]
  <2>1. r \in Server /\ r.slot = o /\ r.backend = servers[k].backend /\ r.run # "mark"
    BY <1>1 DEF Server, Slot
  <2>2. q \in Slot /\ q.srv = slots[o].srv /\ q.started = slots[o].started
    BY <1>1 DEF Server, Slot
  <2>3. UNCHANGED <<env, ctx, key, cur, dir, thr>>
    BY DEF RunWait
  <2>4. servers' = [servers EXCEPT ![k] = r] /\ (slots' = slots \/ slots' = [slots EXCEPT ![o] = q])
    BY <1>2
  <2> HIDE DEF r, q
  <2>5. QED BY <2>1, <2>2, <2>3, <2>4, QuietStep
<1>3. QED BY <1>1, <1>2 DEF RunWait, run, on

LEMMA RefreshStatusKeeps == ASSUME IInv, NEW k \in Ks, RefreshStatus(k) PROVE IInv'
<1> DEFINE o == servers[k].slot
<1>1. servers[k] \in Server /\ o \in Os /\ slots[o] \in Slot /\ servers \in Seq(Server) /\ slots \in Seq(Slot)
  BY OwnSlot
<1>2. CASE /\ servers' = [servers EXCEPT ![k] = [servers[k] EXCEPT !.run = "wait", !.spec = NoExit]]
            /\ slots' = slots
  <2> DEFINE r == [servers[k] EXCEPT !.run = "wait", !.spec = NoExit]
             q == slots[o]
  <2>1. r \in Server /\ r.slot = o /\ r.backend = servers[k].backend /\ r.run # "mark"
    BY <1>1 DEF Server, Slot
  <2>2. q \in Slot /\ q.srv = slots[o].srv /\ q.started = slots[o].started
    BY <1>1 DEF Server, Slot
  <2>3. UNCHANGED <<env, ctx, key, cur, dir, thr>>
    BY DEF RefreshStatus
  <2>4. servers' = [servers EXCEPT ![k] = r] /\ (slots' = slots \/ slots' = [slots EXCEPT ![o] = q])
    BY <1>2
  <2> HIDE DEF r, q
  <2>5. QED BY <2>1, <2>2, <2>3, <2>4, QuietStep
<1>3. CASE /\ servers' = [servers EXCEPT ![k] = [servers[k] EXCEPT !.run = "wait", !.spec = NoExit]]
            /\ slots' = [slots EXCEPT ![o] = [slots[o] EXCEPT !.state = "error"]]
  <2> DEFINE r == [servers[k] EXCEPT !.run = "wait", !.spec = NoExit]
             q == [slots[o] EXCEPT !.state = "error"]
  <2>1. r \in Server /\ r.slot = o /\ r.backend = servers[k].backend /\ r.run # "mark"
    BY <1>1 DEF Server, Slot
  <2>2. q \in Slot /\ q.srv = slots[o].srv /\ q.started = slots[o].started
    BY <1>1 DEF Server, Slot
  <2>3. UNCHANGED <<env, ctx, key, cur, dir, thr>>
    BY DEF RefreshStatus
  <2>4. servers' = [servers EXCEPT ![k] = r] /\ (slots' = slots \/ slots' = [slots EXCEPT ![o] = q])
    BY <1>3
  <2> HIDE DEF r, q
  <2>5. QED BY <2>1, <2>2, <2>3, <2>4, QuietStep
<1>4. CASE /\ servers' = [servers EXCEPT ![k] = [servers[k] EXCEPT !.run = "login"]]
            /\ slots' = slots
  <2> DEFINE r == [servers[k] EXCEPT !.run = "login"]
             q == slots[o]
  <2>1. r \in Server /\ r.slot = o /\ r.backend = servers[k].backend /\ r.run # "mark"
    BY <1>1 DEF Server, Slot
  <2>2. q \in Slot /\ q.srv = slots[o].srv /\ q.started = slots[o].started
    BY <1>1 DEF Server, Slot
  <2>3. UNCHANGED <<env, ctx, key, cur, dir, thr>>
    BY DEF RefreshStatus
  <2>4. servers' = [servers EXCEPT ![k] = r] /\ (slots' = slots \/ slots' = [slots EXCEPT ![o] = q])
    BY <1>4
  <2> HIDE DEF r, q
  <2>5. QED BY <2>1, <2>2, <2>3, <2>4, QuietStep
<1>5. CASE /\ servers' = [servers EXCEPT ![k] = [servers[k] EXCEPT !.run = "spec", !.seen = servers[k].exit]]
            /\ slots' = slots
  <2> DEFINE r == [servers[k] EXCEPT !.run = "spec", !.seen = servers[k].exit]
             q == slots[o]
  <2>1. r \in Server /\ r.slot = o /\ r.backend = servers[k].backend /\ r.run # "mark"
    BY <1>1 DEF Server, Slot
  <2>2. q \in Slot /\ q.srv = slots[o].srv /\ q.started = slots[o].started
    BY <1>1 DEF Server, Slot
  <2>3. UNCHANGED <<env, ctx, key, cur, dir, thr>>
    BY DEF RefreshStatus
  <2>4. servers' = [servers EXCEPT ![k] = r] /\ (slots' = slots \/ slots' = [slots EXCEPT ![o] = q])
    BY <1>5
  <2> HIDE DEF r, q
  <2>5. QED BY <2>1, <2>2, <2>3, <2>4, QuietStep
<1>6. QED BY <1>1, <1>2, <1>3, <1>4, <1>5 DEF RefreshStatus, Wait, run, state, on

LEMMA RefreshLoginKeeps == ASSUME IInv, NEW k \in Ks, RefreshLogin(k) PROVE IInv'
<1> DEFINE o == servers[k].slot
<1>1. servers[k] \in Server /\ o \in Os /\ slots[o] \in Slot /\ servers \in Seq(Server) /\ slots \in Seq(Slot)
  BY OwnSlot
<1>2. CASE /\ servers' = [servers EXCEPT ![k] = [servers[k] EXCEPT !.run = "wait", !.spec = NoExit]]
            /\ slots' = [slots EXCEPT ![o] = [slots[o] EXCEPT !.state = "needs_login"]]
  <2> DEFINE r == [servers[k] EXCEPT !.run = "wait", !.spec = NoExit]
             q == [slots[o] EXCEPT !.state = "needs_login"]
  <2>1. r \in Server /\ r.slot = o /\ r.backend = servers[k].backend /\ r.run # "mark"
    BY <1>1 DEF Server, Slot
  <2>2. q \in Slot /\ q.srv = slots[o].srv /\ q.started = slots[o].started
    BY <1>1 DEF Server, Slot
  <2>3. UNCHANGED <<env, ctx, key, cur, dir, thr>>
    BY DEF RefreshLogin
  <2>4. servers' = [servers EXCEPT ![k] = r] /\ (slots' = slots \/ slots' = [slots EXCEPT ![o] = q])
    BY <1>2
  <2> HIDE DEF r, q
  <2>5. QED BY <2>1, <2>2, <2>3, <2>4, QuietStep
<1>3. QED BY <1>1, <1>2 DEF RefreshLogin, Wait, state, on

LEMMA RefreshSpecKeeps == ASSUME IInv, NEW k \in Ks, RefreshSpec(k) PROVE IInv'
<1> DEFINE o == servers[k].slot
<1>1. servers[k] \in Server /\ o \in Os /\ slots[o] \in Slot /\ servers \in Seq(Server) /\ slots \in Seq(Slot)
  BY OwnSlot
<1>2. CASE /\ servers' = [servers EXCEPT ![k] = [servers[k] EXCEPT !.run = IF slots[o].exitID # NoExit /\ servers[k].seen = slots[o].exitID THEN "publish" ELSE "edit", !.seen = NoExit, !.spec = slots[o].spec]]
            /\ slots' = slots
  <2> DEFINE r == [servers[k] EXCEPT !.run = IF slots[o].exitID # NoExit /\ servers[k].seen = slots[o].exitID THEN "publish" ELSE "edit", !.seen = NoExit, !.spec = slots[o].spec]
             q == slots[o]
  <2>1. r \in Server /\ r.slot = o /\ r.backend = servers[k].backend /\ r.run # "mark"
    <3>1. slots[o].spec \in Exits
      BY <1>1 DEF Slot
    <3>2. ASSUME NEW next \in {"publish", "edit"}, NEW e \in Exits
          PROVE  LET m == [servers[k] EXCEPT !.run = next, !.seen = NoExit, !.spec = e]
                 IN  m \in Server /\ m.slot = o /\ m.backend = servers[k].backend /\ m.run # "mark"
      BY <1>1 DEF Server
    <3>3. CASE slots[o].exitID # NoExit /\ servers[k].seen = slots[o].exitID
      BY <3>1, <3>2, <3>3
    <3>4. CASE ~(slots[o].exitID # NoExit /\ servers[k].seen = slots[o].exitID)
      BY <3>1, <3>2, <3>4
    <3>5. QED BY <3>3, <3>4
  <2>2. q \in Slot /\ q.srv = slots[o].srv /\ q.started = slots[o].started
    BY <1>1 DEF Server, Slot
  <2>3. UNCHANGED <<env, ctx, key, cur, dir, thr>>
    BY DEF RefreshSpec
  <2>4. servers' = [servers EXCEPT ![k] = r] /\ (slots' = slots \/ slots' = [slots EXCEPT ![o] = q])
    BY <1>2
  <2> HIDE DEF r, q
  <2>5. QED BY <2>1, <2>2, <2>3, <2>4, QuietStep
<1>3. QED BY <1>1, <1>2 DEF RefreshSpec, on

LEMMA RefreshPublishKeeps == ASSUME IInv, NEW k \in Ks, RefreshPublish(k) PROVE IInv'
<1> DEFINE o == servers[k].slot
<1>1. servers[k] \in Server /\ o \in Os /\ slots[o] \in Slot /\ servers \in Seq(Server) /\ slots \in Seq(Slot)
  BY OwnSlot
<1>2. CASE /\ servers' = [servers EXCEPT ![k] = [servers[k] EXCEPT !.run = "wait", !.spec = NoExit]]
            /\ slots' = [slots EXCEPT ![o] = [slots[o] EXCEPT !.state = "ready"]]
  <2> DEFINE r == [servers[k] EXCEPT !.run = "wait", !.spec = NoExit]
             q == [slots[o] EXCEPT !.state = "ready"]
  <2>1. r \in Server /\ r.slot = o /\ r.backend = servers[k].backend /\ r.run # "mark"
    BY <1>1 DEF Server, Slot
  <2>2. q \in Slot /\ q.srv = slots[o].srv /\ q.started = slots[o].started
    BY <1>1 DEF Server, Slot
  <2>3. UNCHANGED <<env, ctx, key, cur, dir, thr>>
    BY DEF RefreshPublish
  <2>4. servers' = [servers EXCEPT ![k] = r] /\ (slots' = slots \/ slots' = [slots EXCEPT ![o] = q])
    BY <1>2
  <2> HIDE DEF r, q
  <2>5. QED BY <2>1, <2>2, <2>3, <2>4, QuietStep
<1>3. CASE /\ servers' = [servers EXCEPT ![k] = [servers[k] EXCEPT !.run = "wait", !.spec = NoExit]]
            /\ slots' = [slots EXCEPT ![o] = [slots[o] EXCEPT !.state = "offline"]]
  <2> DEFINE r == [servers[k] EXCEPT !.run = "wait", !.spec = NoExit]
             q == [slots[o] EXCEPT !.state = "offline"]
  <2>1. r \in Server /\ r.slot = o /\ r.backend = servers[k].backend /\ r.run # "mark"
    BY <1>1 DEF Server, Slot
  <2>2. q \in Slot /\ q.srv = slots[o].srv /\ q.started = slots[o].started
    BY <1>1 DEF Server, Slot
  <2>3. UNCHANGED <<env, ctx, key, cur, dir, thr>>
    BY DEF RefreshPublish
  <2>4. servers' = [servers EXCEPT ![k] = r] /\ (slots' = slots \/ slots' = [slots EXCEPT ![o] = q])
    BY <1>3
  <2> HIDE DEF r, q
  <2>5. QED BY <2>1, <2>2, <2>3, <2>4, QuietStep
<1>4. QED BY <1>1, <1>2, <1>3 DEF RefreshPublish, Wait, state, on

LEMMA RefreshRecordKeeps == ASSUME IInv, NEW k \in Ks, RefreshRecord(k) PROVE IInv'
<1> DEFINE o == servers[k].slot
<1>1. servers[k] \in Server /\ o \in Os /\ slots[o] \in Slot /\ servers \in Seq(Server) /\ slots \in Seq(Slot)
  BY OwnSlot
<1>2. CASE /\ servers' = [servers EXCEPT ![k] = [servers[k] EXCEPT !.run = "pending"]]
            /\ slots' = [slots EXCEPT ![o] = [slots[o] EXCEPT !.exitID = IF slots[o].spec = servers[k].spec THEN slots[o].spec ELSE slots[o].exitID]]
  <2> DEFINE r == [servers[k] EXCEPT !.run = "pending"]
             q == [slots[o] EXCEPT !.exitID = IF slots[o].spec = servers[k].spec THEN slots[o].spec ELSE slots[o].exitID]
  <2>1. r \in Server /\ r.slot = o /\ r.backend = servers[k].backend /\ r.run # "mark"
    BY <1>1 DEF Server, Slot
  <2>2. q \in Slot /\ q.srv = slots[o].srv /\ q.started = slots[o].started
    BY <1>1 DEF Server, Slot
  <2>3. UNCHANGED <<env, ctx, key, cur, dir, thr>>
    BY DEF RefreshRecord
  <2>4. servers' = [servers EXCEPT ![k] = r] /\ (slots' = slots \/ slots' = [slots EXCEPT ![o] = q])
    BY <1>2
  <2> HIDE DEF r, q
  <2>5. QED BY <2>1, <2>2, <2>3, <2>4, QuietStep
<1>3. QED BY <1>1, <1>2 DEF RefreshRecord, run, on

LEMMA RefreshPendingKeeps == ASSUME IInv, NEW k \in Ks, RefreshPending(k) PROVE IInv'
<1> DEFINE o == servers[k].slot
<1>1. servers[k] \in Server /\ o \in Os /\ slots[o] \in Slot /\ servers \in Seq(Server) /\ slots \in Seq(Slot)
  BY OwnSlot
<1>2. CASE /\ servers' = [servers EXCEPT ![k] = [servers[k] EXCEPT !.run = "wait", !.spec = NoExit]]
            /\ slots' = [slots EXCEPT ![o] = [slots[o] EXCEPT !.state = "pending"]]
  <2> DEFINE r == [servers[k] EXCEPT !.run = "wait", !.spec = NoExit]
             q == [slots[o] EXCEPT !.state = "pending"]
  <2>1. r \in Server /\ r.slot = o /\ r.backend = servers[k].backend /\ r.run # "mark"
    BY <1>1 DEF Server, Slot
  <2>2. q \in Slot /\ q.srv = slots[o].srv /\ q.started = slots[o].started
    BY <1>1 DEF Server, Slot
  <2>3. UNCHANGED <<env, ctx, key, cur, dir, thr>>
    BY DEF RefreshPending
  <2>4. servers' = [servers EXCEPT ![k] = r] /\ (slots' = slots \/ slots' = [slots EXCEPT ![o] = q])
    BY <1>2
  <2> HIDE DEF r, q
  <2>5. QED BY <2>1, <2>2, <2>3, <2>4, QuietStep
<1>3. QED BY <1>1, <1>2 DEF RefreshPending, Wait, state, on

LEMMA RunStartKeeps == ASSUME IInv, NEW k \in Ks, RunStart(k) PROVE IInv'
<1> DEFINE o == servers[k].slot
<1>1. /\ servers[k] \in Server /\ o \in Os /\ slots[o] \in Slot /\ servers \in Seq(Server) /\ slots \in Seq(Slot)
      /\ dir \in [kind : {"none", "empty", "node"}, exit : Exits \union {NoExit}]
      /\ servers[k].run = "mark" => servers[k].backend \in Started
  BY OwnSlot
<1>2. CASE /\ servers' = [servers EXCEPT ![k] = [servers[k] EXCEPT !.run = "mark", !.backend = IF dir.kind = "node" \/ servers[k].keyed THEN "on" ELSE "login", !.exit = IF dir.kind = "node" THEN dir.exit ELSE NoExit]]
            /\ slots' = slots
  <2> DEFINE r == [servers[k] EXCEPT !.run = "mark", !.backend = IF dir.kind = "node" \/ servers[k].keyed THEN "on" ELSE "login", !.exit = IF dir.kind = "node" THEN dir.exit ELSE NoExit]
             q == slots[o]
  <2>1. /\ r \in Server /\ r.slot = o
        /\ r.run = "mark" => r.backend \in Started
        /\ servers[k].backend \in Started => r.backend \in Started
    BY ZenonT(60), <1>1 DEF Server, Slot, Started
  <2>2. q \in Slot /\ q.srv = slots[o].srv /\ (q.started => slots[o].started \/ (q.srv = k /\ r.backend \in Started))
    BY <1>1 DEF Server, Slot
  <2>3. UNCHANGED <<env, ctx, key, cur, thr>> /\ dir' \in [kind : {"none", "empty", "node"}, exit : Exits \union {NoExit}]
    <3>1. dir' \in {[kind |-> "node", exit |-> NoExit], [dir EXCEPT !.kind = "empty"], dir}
      BY DEF RunStart
    <3>2. QED BY SMTT(60), <1>1, <3>1 DEF RunStart
  <2>4. servers' = [servers EXCEPT ![k] = r] /\ (slots' = slots \/ slots' = [slots EXCEPT ![o] = q])
    BY <1>2
  <2> HIDE DEF r, q
  <2>5. QED BY <2>1, <2>2, <2>3, <2>4, RunStep
<1>3. CASE /\ servers' = [servers EXCEPT ![k] = [servers[k] EXCEPT !.run = "done"]]
            /\ slots' = [slots EXCEPT ![o] = [slots[o] EXCEPT !.state = "error"]]
  <2> DEFINE r == [servers[k] EXCEPT !.run = "done"]
             q == [slots[o] EXCEPT !.state = "error"]
  <2>1. /\ r \in Server /\ r.slot = o
        /\ r.run = "mark" => r.backend \in Started
        /\ servers[k].backend \in Started => r.backend \in Started
    BY <1>1 DEF Server, Slot, Started
  <2>2. q \in Slot /\ q.srv = slots[o].srv /\ (q.started => slots[o].started \/ (q.srv = k /\ r.backend \in Started))
    BY <1>1 DEF Server, Slot
  <2>3. UNCHANGED <<env, ctx, key, cur, thr>> /\ dir' \in [kind : {"none", "empty", "node"}, exit : Exits \union {NoExit}]
    <3>1. dir' \in {[kind |-> "node", exit |-> NoExit], [dir EXCEPT !.kind = "empty"], dir}
      BY DEF RunStart
    <3>2. QED BY SMTT(60), <1>1, <3>1 DEF RunStart
  <2>4. servers' = [servers EXCEPT ![k] = r] /\ (slots' = slots \/ slots' = [slots EXCEPT ![o] = q])
    BY <1>3
  <2> HIDE DEF r, q
  <2>5. QED BY <2>1, <2>2, <2>3, <2>4, RunStep
<1>4. QED BY <1>1, <1>2, <1>3 DEF RunStart, run, state, on

LEMMA RunMarkKeeps == ASSUME IInv, NEW k \in Ks, RunMark(k) PROVE IInv'
<1> DEFINE o == servers[k].slot
<1>1. /\ servers[k] \in Server /\ o \in Os /\ slots[o] \in Slot /\ servers \in Seq(Server) /\ slots \in Seq(Slot)
      /\ dir \in [kind : {"none", "empty", "node"}, exit : Exits \union {NoExit}]
      /\ servers[k].run = "mark" => servers[k].backend \in Started
  BY OwnSlot
<1>2. CASE /\ servers' = [servers EXCEPT ![k] = [servers[k] EXCEPT !.run = "status"]]
            /\ slots' = [slots EXCEPT ![o] = [slots[o] EXCEPT !.started = slots[o].started \/ slots[o].srv = k]]
  <2> DEFINE r == [servers[k] EXCEPT !.run = "status"]
             q == [slots[o] EXCEPT !.started = slots[o].started \/ slots[o].srv = k]
  <2>1. /\ r \in Server /\ r.slot = o
        /\ r.run = "mark" => r.backend \in Started
        /\ servers[k].backend \in Started => r.backend \in Started
    BY <1>1 DEF Server, Slot, Started
  <2>2. q \in Slot /\ q.srv = slots[o].srv /\ (q.started => slots[o].started \/ (q.srv = k /\ r.backend \in Started))
    BY <1>1 DEF Server, Slot, RunMark, on
  <2>3. UNCHANGED <<env, ctx, key, cur, thr>> /\ dir' \in [kind : {"none", "empty", "node"}, exit : Exits \union {NoExit}]
    BY <1>1 DEF RunMark, Server
  <2>4. servers' = [servers EXCEPT ![k] = r] /\ (slots' = slots \/ slots' = [slots EXCEPT ![o] = q])
    BY <1>2
  <2> HIDE DEF r, q
  <2>5. QED BY <2>1, <2>2, <2>3, <2>4, RunStep
<1>3. QED BY <1>1, <1>2 DEF RunMark, run, on

LEMMA RefreshEditKeeps == ASSUME IInv, NEW k \in Ks, RefreshEdit(k) PROVE IInv'
<1> DEFINE o == servers[k].slot
<1>1. /\ servers[k] \in Server /\ o \in Os /\ slots[o] \in Slot /\ servers \in Seq(Server) /\ slots \in Seq(Slot)
      /\ dir \in [kind : {"none", "empty", "node"}, exit : Exits \union {NoExit}]
      /\ servers[k].run = "mark" => servers[k].backend \in Started
  BY OwnSlot
<1>2. CASE /\ servers' = [servers EXCEPT ![k] = [servers[k] EXCEPT !.run = "record", !.exit = servers[k].spec]]
            /\ slots' = slots
  <2> DEFINE r == [servers[k] EXCEPT !.run = "record", !.exit = servers[k].spec]
             q == slots[o]
  <2>1. /\ r \in Server /\ r.slot = o
        /\ r.run = "mark" => r.backend \in Started
        /\ servers[k].backend \in Started => r.backend \in Started
    BY <1>1 DEF Server, Slot, Started
  <2>2. q \in Slot /\ q.srv = slots[o].srv /\ (q.started => slots[o].started \/ (q.srv = k /\ r.backend \in Started))
    BY <1>1 DEF Server, Slot
  <2>3. UNCHANGED <<env, ctx, key, cur, thr>> /\ dir' \in [kind : {"none", "empty", "node"}, exit : Exits \union {NoExit}]
    BY <1>1 DEF RefreshEdit, Server
  <2>4. servers' = [servers EXCEPT ![k] = r] /\ (slots' = slots \/ slots' = [slots EXCEPT ![o] = q])
    BY <1>2
  <2> HIDE DEF r, q
  <2>5. QED BY <2>1, <2>2, <2>3, <2>4, RunStep
<1>3. CASE /\ servers' = [servers EXCEPT ![k] = [servers[k] EXCEPT !.run = "pending"]]
            /\ slots' = slots
  <2> DEFINE r == [servers[k] EXCEPT !.run = "pending"]
             q == slots[o]
  <2>1. /\ r \in Server /\ r.slot = o
        /\ r.run = "mark" => r.backend \in Started
        /\ servers[k].backend \in Started => r.backend \in Started
    BY <1>1 DEF Server, Slot, Started
  <2>2. q \in Slot /\ q.srv = slots[o].srv /\ (q.started => slots[o].started \/ (q.srv = k /\ r.backend \in Started))
    BY <1>1 DEF Server, Slot
  <2>3. UNCHANGED <<env, ctx, key, cur, thr>> /\ dir' \in [kind : {"none", "empty", "node"}, exit : Exits \union {NoExit}]
    BY <1>1 DEF RefreshEdit, Server
  <2>4. servers' = [servers EXCEPT ![k] = r] /\ (slots' = slots \/ slots' = [slots EXCEPT ![o] = q])
    BY <1>3
  <2> HIDE DEF r, q
  <2>5. QED BY <2>1, <2>2, <2>3, <2>4, RunStep
<1>4. QED BY <1>1, <1>2, <1>3 DEF RefreshEdit, run, on

LEMMA UserLoginKeeps == ASSUME IInv, NEW k \in Ks, UserLogin(k) PROVE IInv'
<1> DEFINE o == servers[k].slot
<1>1. /\ servers[k] \in Server /\ o \in Os /\ slots[o] \in Slot /\ servers \in Seq(Server) /\ slots \in Seq(Slot)
      /\ dir \in [kind : {"none", "empty", "node"}, exit : Exits \union {NoExit}]
      /\ servers[k].run = "mark" => servers[k].backend \in Started
  BY OwnSlot
<1>2. CASE /\ servers' = [servers EXCEPT ![k] = [servers[k] EXCEPT !.backend = "on"]]
            /\ slots' = slots
  <2> DEFINE r == [servers[k] EXCEPT !.backend = "on"]
             q == slots[o]
  <2>1. /\ r \in Server /\ r.slot = o
        /\ r.run = "mark" => r.backend \in Started
        /\ servers[k].backend \in Started => r.backend \in Started
    BY <1>1 DEF Server, Slot, Started
  <2>2. q \in Slot /\ q.srv = slots[o].srv /\ (q.started => slots[o].started \/ (q.srv = k /\ r.backend \in Started))
    BY <1>1 DEF Server, Slot
  <2>3. UNCHANGED <<env, ctx, key, cur, thr>> /\ dir' \in [kind : {"none", "empty", "node"}, exit : Exits \union {NoExit}]
    BY <1>1 DEF UserLogin, Server
  <2>4. servers' = [servers EXCEPT ![k] = r] /\ (slots' = slots \/ slots' = [slots EXCEPT ![o] = q])
    BY <1>2
  <2> HIDE DEF r, q
  <2>5. QED BY <2>1, <2>2, <2>3, <2>4, RunStep
<1>3. QED BY <1>1, <1>2 DEF UserLogin

LEMMA RunKeeps == ASSUME IInv, NEW k \in Ks, Run(k) PROVE IInv'
BY RunStartKeeps, RunMarkKeeps, RunWaitKeeps, RefreshStatusKeeps, RefreshLoginKeeps, RefreshSpecKeeps,
   RefreshPublishKeeps, RefreshEditKeeps, RefreshRecordKeeps, RefreshPendingKeeps DEF Run

-----------------------------------------------------------------------------
(* The callers.                                                            *)

\* What is known of a caller and of the slot it works on.
LEMMA OwnCall ==
  ASSUME IInv, NEW t \in Threads
  PROVE  /\ thr[t] \in Thread /\ CallerOK(t)
         /\ slots \in Seq(Slot) /\ servers \in Seq(Server)
         /\ cur \in 0..Len(slots)
         /\ After(t) \in {"rmdir", "start", "done"}
         /\ thr[t].slot \in Os => /\ slots[thr[t].slot] \in Slot
                                  /\ slots[thr[t].slot].srv \in 0..Len(servers)
                                  /\ slots[thr[t].slot].started =>
                                       /\ slots[thr[t].slot].srv \in Ks
                                       /\ servers[slots[thr[t].slot].srv].backend \in Started
         /\ env \in Env
         /\ dir \in [kind : {"none", "empty", "node"}, exit : Exits \union {NoExit}]
<1>1. After(t) \in {"rmdir", "start", "done"}
  BY DEF After
<1>2. QED
  BY <1>1, EnvsAssumption DEF IInv, RestOK, SlotsOK, ServersOK, CallersOK, Ks, Os

\* A caller that moves on and changes nothing but the directory and the key.
LEMMA MoveStep ==
  ASSUME IInv, NEW t \in Threads, NEW c \in Thread,
         thr' = [thr EXCEPT ![t] = c],
         c.pc \notin {"idle", "snapshot", "done"} => c.slot \in Os,
         c.pc \notin {"wait", "close"},
         dir' \in [kind : {"none", "empty", "node"}, exit : Exits \union {NoExit}],
         key' \in BOOLEAN,
         UNCHANGED <<env, ctx, cur, slots, servers>>
  PROVE  IInv'
<1>1. SlotsOK' /\ ServersOK' /\ Kept
  BY NothingMoved
<1>2. CallersOK'
  BY <1>1, CallerSet DEF Os
<1>3. RestOK'
  BY DEF IInv, RestOK
<1>4. QED BY <1>1, <1>2, <1>3 DEF IInv

LEMMA StopCancelKeeps == ASSUME IInv, NEW t \in Threads, StopCancel(t) PROVE IInv'
<1> DEFINE k == slots[thr[t].slot].srv
<1>1. thr[t].slot \in Os /\ thr[t] \in Thread /\ at(t, "stop")
  BY OwnCall DEF StopCancel, CallerOK, at
<1>2. CASE k = None
  <2> DEFINE c == [thr[t] EXCEPT !.pc = After(t)]
  <2>1. c \in Thread /\ c.pc \notin {"wait", "close"} /\ c.slot \in Os
    BY <1>1, OwnCall DEF Thread, Pcs
  <2>2. thr' = [thr EXCEPT ![t] = c] /\ UNCHANGED <<env, ctx, key, cur, dir, slots, servers>>
    BY <1>2 DEF StopCancel, Goto
  <2> HIDE DEF c
  <2>3. QED BY <2>1, <2>2, MoveStep, OwnCall DEF IInv, RestOK
<1>3. CASE k # None
  <2> DEFINE r == [servers[k] EXCEPT !.cancelled = TRUE]
             c == [thr[t] EXCEPT !.pc = "wait", !.srv = k]
  <2>1. k \in Ks
    BY <1>1, <1>3, OwnCall DEF Ks, None
  <2>2. r \in Server /\ r.slot = servers[k].slot /\ r.backend = servers[k].backend /\ r.run = servers[k].run
    BY <2>1, OwnSlot DEF Server
  <2>0. k \in Nat
    BY <2>1 DEF Ks, IInv, ServersOK
  <2>3. c \in Thread /\ c.pc = "wait" /\ c.slot = thr[t].slot /\ c.srv = k
    BY <1>1, <2>0 DEF Thread, Pcs
  <2>4. /\ servers' = [servers EXCEPT ![k] = r]
        /\ thr' = [thr EXCEPT ![t] = c]
        /\ UNCHANGED <<env, ctx, key, cur, dir, slots>>
    BY <1>3 DEF StopCancel
  <2> HIDE DEF r, c
  <2>5. Len(slots') \in Nat /\ Len(slots') >= Len(slots)
    BY <2>4 DEF IInv, SlotsOK
  <2>6. ServersOK' /\ Kept
    BY <2>1, <2>2, <2>4, <2>5, ServerSet, OwnSlot
  <2>7. SlotsOK'
    BY <2>4, <2>6, SlotsSame
  <2>8. Len(servers') >= Len(servers) /\ Len(servers') \in Nat
    BY <2>6 DEF Kept
  <2>9. CallersOK'
    <3>1. c.srv \in 1..Len(servers')
      BY <2>1, <2>3, <2>8 DEF Ks, IInv, ServersOK
    <3>2. c.slot \in 1..Len(slots')
      BY <1>1, <2>3, <2>4 DEF Os
    <3>3. QED BY <2>3, <2>4, <2>6, <3>1, <3>2, CallerSet
  <2>10. RestOK'
    BY <2>4 DEF IInv, RestOK
  <2>11. QED BY <2>6, <2>7, <2>9, <2>10 DEF IInv
<1>4. QED BY <1>2, <1>3

LEMMA StopClearKeeps == ASSUME IInv, NEW t \in Threads, StopClear(t) PROVE IInv'
<1> DEFINE o == thr[t].slot
           q == [slots[o] EXCEPT !.srv = None, !.started = FALSE, !.state = "stopped"]
           c == [thr[t] EXCEPT !.pc = IF slots[o].started THEN "close" ELSE After(t), !.srv = slots[o].srv]
<1>1. o \in Os /\ thr[t] \in Thread /\ slots[o] \in Slot
  BY OwnCall DEF StopClear, CallerOK, at
<1>2. q \in Slot /\ q.srv = 0 /\ q.started = FALSE
  BY <1>1 DEF Slot, None
<1>3. c \in Thread /\ c.slot = o /\ c.srv = slots[o].srv /\ c.pc # "wait" /\ (c.pc = "close" => slots[o].started)
  BY <1>1, OwnCall DEF Thread, Pcs, Slot
<1>4. /\ slots' = [slots EXCEPT ![o] = q]
      /\ thr' = [thr EXCEPT ![t] = c]
      /\ UNCHANGED <<env, ctx, key, cur, dir, servers>>
  BY DEF StopClear
<1> HIDE DEF q, c
<1>5. Len(servers) \in Nat
  BY DEF IInv, ServersOK
<1>6. SlotsOK' /\ Len(slots') = Len(slots)
  <2>1. /\ Len(servers') \in Nat /\ Len(servers') >= Len(servers) /\ q.srv \in 0..Len(servers')
        /\ \A k \in Ks : servers[k].backend \in Started => servers'[k].backend \in Started
    BY <1>2, <1>4, <1>5
  <2>2. QED BY <1>1, <1>2, <1>4, <2>1, SlotSet
<1>7. ServersOK' /\ Kept
  BY <1>4, <1>6, ServersSame DEF IInv, SlotsOK
<1>8. CallersOK'
  BY <1>1, <1>3, <1>4, <1>6, <1>7, OwnCall, CallerSet DEF Ks, Os
<1>9. RestOK'
  BY <1>4, <1>6 DEF IInv, RestOK
<1>10. QED BY <1>6, <1>7, <1>8, <1>9 DEF IInv

LEMMA StopCloseKeeps == ASSUME IInv, NEW t \in Threads, StopClose(t) PROVE IInv'
<1> DEFINE k == thr[t].srv
           r == [servers[k] EXCEPT !.backend = "closed"]
           c == [thr[t] EXCEPT !.pc = After(t)]
<1>1. k \in Ks /\ thr[t].slot \in Os /\ thr[t] \in Thread
  BY OwnCall DEF StopClose, CallerOK, at
<1>2. r \in Server /\ r.slot = servers[k].slot /\ r.backend \in Started
  <2> DEFINE q == servers[k]
  <2>1. q \in Server
    BY <1>1, OwnSlot
  <2> HIDE DEF q
  <2>2. [q EXCEPT !.backend = "closed"] \in Server
    BY <2>1 DEF Server
  <2> SUFFICES [q EXCEPT !.backend = "closed"].slot = q.slot /\ [q EXCEPT !.backend = "closed"].backend = "closed"
    BY <2>2 DEF q, Started
  <2> QED BY <2>1 DEF Server
<1>3. c \in Thread /\ c.pc \notin {"wait", "close"} /\ c.slot = thr[t].slot
  BY <1>1, OwnCall DEF Thread, Pcs
<1>4. /\ servers' = [servers EXCEPT ![k] = r]
      /\ thr' = [thr EXCEPT ![t] = c]
      /\ UNCHANGED <<env, ctx, key, cur, dir, slots>>
  BY DEF StopClose, Goto
<1> HIDE DEF k, r, c
<1>5. Len(slots') \in Nat /\ Len(slots') >= Len(slots)
  BY <1>4 DEF IInv, SlotsOK
<1>6. ServersOK' /\ Kept
  BY <1>1, <1>2, <1>4, <1>5, ServerSet
<1>7. SlotsOK'
  BY <1>4, <1>6, SlotsSame
<1>8. CallersOK'
  BY <1>1, <1>3, <1>4, <1>6, CallerSet DEF Os
<1>9. RestOK'
  BY <1>4 DEF IInv, RestOK
<1>10. QED BY <1>6, <1>7, <1>8, <1>9 DEF IInv

LEMMA StartSlotKeeps == ASSUME IInv, NEW t \in Threads, StartSlot(t) PROVE IInv'
<1> DEFINE c == [thr[t] EXCEPT !.pc = "done"]
<1>1. thr[t].slot \in Os /\ thr[t] \in Thread
  BY OwnCall DEF StartSlot, CallerOK, at
<1>2. SlotsOK' /\ ServersOK' /\ Kept /\ Len(slots') = Len(slots)
  BY <1>1, StartStep DEF StartSlot
<1>3. c \in Thread /\ c.pc = "done"
  BY <1>1 DEF Thread, Pcs
<1>4. thr' = [thr EXCEPT ![t] = c] /\ UNCHANGED <<env, ctx, key, cur, dir>>
  BY DEF StartSlot, Goto
<1> HIDE DEF c
<1>5. CallersOK'
  BY <1>2, <1>3, <1>4, CallerSet
<1>6. RestOK'
  BY <1>2, <1>4 DEF IInv, RestOK
<1>7. QED BY <1>2, <1>5, <1>6 DEF IInv

LEMMA StartKeeps == ASSUME IInv, Start PROVE IInv'
<1>1. SlotsOK' /\ ServersOK' /\ Kept /\ Len(slots') = Len(slots)
  <2>1. CASE cur = None
    BY <2>1, NothingMoved DEF Start
  <2>2. CASE cur # None
    <3>1. cur \in Os
      BY <2>2 DEF IInv, RestOK, Os, None
    <3>2. QED BY <2>2, <3>1, StartStep DEF Start
  <2>3. QED BY <2>1, <2>2
<1>2. CallersOK'
  BY <1>1, CallersSame DEF Start
<1>3. RestOK'
  BY <1>1 DEF IInv, RestOK, Start
<1>4. QED BY <1>1, <1>2, <1>3 DEF IInv

LEMMA LogoutKeeps == ASSUME IInv, NEW t \in Threads, Logout(t) PROVE IInv'
<1> DEFINE o == thr[t].slot
           k == slots[o].srv
           r == [servers[k] EXCEPT !.backend = "login"]
           c == [thr[t] EXCEPT !.pc = "stop"]
<1>1. o \in Os /\ thr[t] \in Thread
  BY OwnCall DEF Logout, CallerOK, at
<1>2. c \in Thread /\ c.pc = "stop" /\ c.slot = o
  BY <1>1 DEF Thread, Pcs
<1>3. /\ thr' = [thr EXCEPT ![t] = c] /\ UNCHANGED <<env, ctx, key, cur, slots>>
      /\ dir' \in [kind : {"none", "empty", "node"}, exit : Exits \union {NoExit}]
  <2>1. thr' = [thr EXCEPT ![t].pc = "stop"] /\ UNCHANGED <<env, ctx, key, cur, slots>>
    BY DEF Logout, Goto
  <2>2. dir' \in {dir, [kind |-> "empty", exit |-> NoExit]}
    BY DEF Logout
  <2>3. dir \in [kind : {"none", "empty", "node"}, exit : Exits \union {NoExit}]
    BY DEF IInv, RestOK
  <2>4. [kind |-> "empty", exit |-> NoExit]
          \in [kind : {"none", "empty", "node"}, exit : Exits \union {NoExit}]
    OBVIOUS
  <2> QED BY <2>1, <2>2, <2>3, <2>4
<1>4. \/ slots[o].started /\ servers' = [servers EXCEPT ![k] = r]
      \/ servers' = servers
  BY DEF Logout
<1>5. Len(slots') \in Nat /\ Len(slots') >= Len(slots)
  BY <1>3 DEF IInv, SlotsOK
<1>6. ServersOK' /\ Kept
  <2>1. CASE slots[o].started /\ servers' = [servers EXCEPT ![k] = r]
    <3>1. k \in Ks /\ servers[k].backend \in Started
      BY <1>1, <2>1, OwnCall
    <3>2. r \in Server /\ r.slot = servers[k].slot /\ r.backend \in Started
      BY ZenonT(60), <3>1, OwnSlot DEF Server, Started
    <3> HIDE DEF k, r
    <3>3. QED BY <1>5, <2>1, <3>1, <3>2, ServerSet
  <2>2. CASE servers' = servers
    BY <1>5, <2>2, ServersSame
  <2>3. QED BY <1>4, <2>1, <2>2
<1> HIDE DEF c
<1>7. SlotsOK'
  BY <1>3, <1>6, SlotsSame
<1>8. CallersOK'
  BY <1>1, <1>2, <1>3, <1>6, CallerSet DEF Os
<1>9. RestOK'
  BY <1>3 DEF IInv, RestOK
<1>10. QED BY <1>6, <1>7, <1>8, <1>9 DEF IInv

LEMMA RemoveDirKeeps == ASSUME IInv, NEW t \in Threads, RemoveDir(t) PROVE IInv'
<1> DEFINE c == [thr[t] EXCEPT !.pc = "done"]
<1>1. thr[t].slot \in Os /\ thr[t] \in Thread
  BY OwnCall DEF RemoveDir, CallerOK, at
<1>2. c \in Thread /\ c.pc \notin {"wait", "close"} /\ c.slot = thr[t].slot
  BY <1>1 DEF Thread, Pcs
<1>3. /\ thr' = [thr EXCEPT ![t] = c] /\ UNCHANGED <<env, ctx, cur, slots, servers>>
      /\ dir' \in [kind : {"none", "empty", "node"}, exit : Exits \union {NoExit}]
      /\ key' \in BOOLEAN
  BY OwnCall DEF RemoveDir, Goto, IInv, RestOK
<1> HIDE DEF c
<1>4. QED BY <1>1, <1>2, <1>3, MoveStep

LEMMA SaveKeyKeeps == ASSUME IInv, NEW t \in Threads, SaveKey(t) PROVE IInv'
<1>0. PICK x \in {"snapshot", "done"} : Goto(t, x)
  BY DEF SaveKey
<1> DEFINE c == [thr[t] EXCEPT !.pc = x]
<1>1. thr[t] \in Thread /\ cur \in 0..Len(slots) /\ Len(slots) \in Nat
  BY OwnCall
<1>2. c \in Thread /\ c.pc = x
  BY <1>1 DEF Thread, Pcs
<1>3. /\ thr' = [thr EXCEPT ![t] = c] /\ UNCHANGED <<env, ctx, cur, slots, servers>>
      /\ dir' \in [kind : {"none", "empty", "node"}, exit : Exits \union {NoExit}]
      /\ key' \in BOOLEAN
  BY <1>0, OwnCall DEF SaveKey, Goto, IInv, RestOK
<1> HIDE DEF c
<1>4. QED BY <1>0, <1>1, <1>2, <1>3, MoveStep

LEMMA runningKeeps == ASSUME IInv, NEW t \in Threads, running(t) PROVE IInv'
<1> DEFINE c == [thr[t] EXCEPT !.pc = IF slots[thr[t].slot].srv # None THEN "needsLogin" ELSE "done"]
<1>1. thr[t].slot \in Os /\ thr[t] \in Thread
  BY OwnCall DEF running, CallerOK, at
<1>2. c \in Thread /\ c.pc \notin {"wait", "close"} /\ c.slot = thr[t].slot
  BY <1>1 DEF Thread, Pcs
<1>3. /\ thr' = [thr EXCEPT ![t] = c] /\ UNCHANGED <<env, ctx, cur, slots, servers>>
      /\ dir' \in [kind : {"none", "empty", "node"}, exit : Exits \union {NoExit}]
      /\ key' \in BOOLEAN
  BY OwnCall DEF running, Goto, IInv, RestOK
<1> HIDE DEF c
<1>4. QED BY <1>1, <1>2, <1>3, MoveStep

LEMMA needsLoginKeeps == ASSUME IInv, NEW t \in Threads, needsLogin(t) PROVE IInv'
<1> DEFINE c == [thr[t] EXCEPT !.pc = IF slots[thr[t].slot].state = "needs_login" THEN "stop" ELSE "done"]
<1>1. thr[t].slot \in Os /\ thr[t] \in Thread
  BY OwnCall DEF needsLogin, CallerOK, at
<1>2. c \in Thread /\ c.pc \notin {"wait", "close"} /\ c.slot = thr[t].slot
  BY <1>1 DEF Thread, Pcs
<1>3. /\ thr' = [thr EXCEPT ![t] = c] /\ UNCHANGED <<env, ctx, cur, slots, servers>>
      /\ dir' \in [kind : {"none", "empty", "node"}, exit : Exits \union {NoExit}]
      /\ key' \in BOOLEAN
  BY OwnCall DEF needsLogin, Goto, IInv, RestOK
<1> HIDE DEF c
<1>4. QED BY <1>1, <1>2, <1>3, MoveStep

LEMMA RestartWaitingKeeps == ASSUME IInv, NEW t \in Threads, RestartWaiting(t) PROVE IInv'
<1> DEFINE c == IF cur = None THEN [thr[t] EXCEPT !.pc = "done"] ELSE [thr[t] EXCEPT !.pc = "running", !.slot = cur]
<1>1. thr[t] \in Thread /\ cur \in 0..Len(slots) /\ Len(slots) \in Nat
  BY OwnCall
<1>2. c \in Thread /\ c.pc \in {"done", "running"} /\ (c.pc = "running" => c.slot \in Os)
  <2>1. cur \in Nat /\ (cur # None => cur \in Os)
    BY <1>1 DEF Os, None
  <2>2. QED BY <1>1, <2>1 DEF Thread, Pcs
<1>3. /\ thr' = [thr EXCEPT ![t] = c] /\ UNCHANGED <<env, ctx, cur, slots, servers>>
      /\ dir' \in [kind : {"none", "empty", "node"}, exit : Exits \union {NoExit}]
      /\ key' \in BOOLEAN
  BY OwnCall DEF RestartWaiting, Goto, IInv, RestOK
<1> HIDE DEF c
<1>4. QED BY <1>1, <1>2, <1>3, MoveStep

LEMMA CloseKeeps == ASSUME IInv, Close PROVE IInv'
<1> DEFINE t == Closer
           c == [thr[t] EXCEPT !.pc = IF cur = None THEN "done" ELSE "stop", !.slot = cur]
<1>1. t \in Threads /\ thr[t] \in Thread /\ cur \in 0..Len(slots) /\ Len(slots) \in Nat
  BY OwnCall DEF Threads
<1>2. c \in Thread /\ c.pc \in {"done", "stop"} /\ (c.pc = "stop" => c.slot \in Os)
  <2>1. cur \in Nat /\ (cur # None => cur \in Os)
    BY <1>1 DEF Os, None
  <2>2. QED BY <1>1, <2>1 DEF Thread, Pcs
<1>3. /\ thr' = [thr EXCEPT ![t] = c] /\ UNCHANGED <<env, ctx, cur, slots, servers>>
      /\ dir' \in [kind : {"none", "empty", "node"}, exit : Exits \union {NoExit}]
      /\ key' \in BOOLEAN
  BY <1>1, OwnCall DEF Close, IInv, RestOK
<1> HIDE DEF c, t
<1>4. QED BY <1>1, <1>2, <1>3, MoveStep

LEMMA InterruptKeeps == ASSUME IInv, Interrupt PROVE IInv'
<1>1. SlotsOK' /\ ServersOK' /\ Kept
  BY NothingMoved DEF Interrupt
<1>2. CallersOK'
  BY <1>1, CallersSame DEF Interrupt
<1>3. RestOK'
  BY DEF Interrupt, IInv, RestOK
<1>4. QED BY <1>1, <1>2, <1>3 DEF IInv

LEMMA ApplyKeeps ==
  ASSUME IInv, NEW t \in Appliers, NEW spec \in Exits \union {NoExit}, Apply(t, spec)
  PROVE  IInv'
<1>0. /\ t \in Threads /\ thr[t] \in Thread /\ cur \in 0..Len(slots) /\ Len(slots) \in Nat
      /\ slots \in Seq(Slot)
      /\ dir \in [kind : {"none", "empty", "node"}, exit : Exits \union {NoExit}]
  BY OwnCall DEF Threads
<1>1. CASE spec = NoExit /\ cur = None
  <2> DEFINE c == [thr[t] EXCEPT !.pc = "done"]
  <2>1. c \in Thread /\ c.pc = "done"
    BY <1>0 DEF Thread, Pcs
  <2>2. thr' = [thr EXCEPT ![t] = c] /\ UNCHANGED <<env, ctx, key, cur, dir, slots, servers>>
    BY <1>1 DEF Apply, Goto
  <2> HIDE DEF c
  <2>3. QED BY <1>0, <2>1, <2>2, MoveStep DEF IInv, RestOK
<1>2. CASE spec = NoExit /\ cur # None
  <2> DEFINE c == [thr[t] EXCEPT !.pc = "logout", !.slot = cur]
  <2>1. c \in Thread /\ c.pc = "logout" /\ c.slot \in Os
    <3>1. cur \in Nat /\ cur \in Os
      BY <1>0, <1>2 DEF Os, None
    <3>2. QED BY <1>0, <3>1 DEF Thread, Pcs
  <2>2. thr' = [thr EXCEPT ![t] = c] /\ cur' = None /\ UNCHANGED <<env, ctx, key, dir, slots, servers>>
    BY <1>2 DEF Apply
  <2> HIDE DEF c
  <2>3. SlotsOK' /\ ServersOK' /\ Kept
    BY <2>2, NothingMoved
  <2>4. CallersOK'
    BY <1>0, <2>1, <2>2, <2>3, CallerSet DEF Os
  <2>5. RestOK'
    BY <1>0, <2>2 DEF IInv, RestOK, None
  <2>6. QED BY <2>3, <2>4, <2>5 DEF IInv
<1>3. CASE spec # NoExit /\ cur = None
  <2> DEFINE n == newSlot(spec)
             c == [thr[t] EXCEPT !.pc = "start", !.slot = Len(slots) + 1]
  <2>1. n \in Slot /\ n.srv = 0 /\ n.started = FALSE
    BY <1>3 DEF newSlot, Slot, None
  <2>0. Len(slots) + 1 \in Nat
    BY <1>0
  <2>2. c \in Thread /\ c.pc = "start" /\ c.slot = Len(slots) + 1
    BY <1>0, <2>0 DEF Thread, Pcs
  <2>3. /\ slots' = Append(slots, n)
        /\ thr' = [thr EXCEPT ![t] = c]
        /\ cur' = Len(slots) + 1
        /\ dir' \in [kind : {"none", "empty", "node"}, exit : Exits \union {NoExit}]
        /\ UNCHANGED <<env, ctx, key, servers>>
    BY <1>0, <1>3 DEF Apply
  <2> HIDE DEF n, c
  <2>4. /\ slots' \in Seq(Slot) /\ Len(slots') = Len(slots) + 1
        /\ \A o \in Os : slots'[o] = slots[o]
        /\ slots'[Len(slots) + 1] = n
    BY <1>0, <2>1, <2>3, AppendProperties DEF Os
  <2>5. ServersOK' /\ Kept
    BY <1>0, <2>3, <2>4, ServersSame
  <2>6. SlotsOK'
    BY <1>0, <2>1, <2>3, <2>4 DEF IInv, SlotsOK, ServersOK, Os, Ks
  <2>7. CallersOK'
    <3>1. c.slot \in 1..Len(slots')
      BY <1>0, <2>2, <2>4
    <3>2. QED BY <1>0, <2>2, <2>3, <2>5, <3>1, CallerSet
  <2>8. RestOK'
    BY <1>0, <2>3, <2>4 DEF IInv, RestOK
  <2>9. QED BY <2>5, <2>6, <2>7, <2>8 DEF IInv
<1>4. CASE spec # NoExit /\ cur # None
  <2> DEFINE q == setSpec(slots[cur], spec)
             c == [thr[t] EXCEPT !.pc = "done"]
  <2>1. cur \in Os /\ slots[cur] \in Slot
    BY <1>0, <1>4 DEF Os, None
  <2>2. q \in Slot /\ q.srv = slots[cur].srv /\ q.started = slots[cur].started
    BY <1>4, <2>1 DEF setSpec, Slot
  <2>3. c \in Thread /\ c.pc = "done"
    BY <1>0 DEF Thread, Pcs
  <2>4. /\ slots' = [slots EXCEPT ![cur] = q]
        /\ thr' = [thr EXCEPT ![t] = c]
        /\ UNCHANGED <<env, ctx, key, cur, dir, servers>>
    BY <1>4 DEF Apply, Goto
  <2> HIDE DEF q, c
  <2>5. Len(servers) \in Nat
    BY DEF IInv, ServersOK
  <2>6. SlotsOK' /\ Len(slots') = Len(slots)
    <3>1. /\ Len(servers') \in Nat /\ Len(servers') >= Len(servers)
          /\ \A k \in Ks : servers[k].backend \in Started => servers'[k].backend \in Started
      BY <2>4, <2>5
    <3>2. /\ q.srv \in 0..Len(servers')
          /\ q.started => q.srv \in 1..Len(servers') /\ servers'[q.srv].backend \in Started
      BY <2>1, <2>2, <2>4 DEF IInv, SlotsOK, Ks
    <3>3. QED BY <2>1, <2>2, <2>4, <3>1, <3>2, SlotSet
  <2>7. ServersOK' /\ Kept
    BY <1>0, <2>4, <2>6, ServersSame
  <2>8. CallersOK'
    BY <1>0, <2>3, <2>4, <2>7, CallerSet
  <2>9. RestOK'
    BY <2>4, <2>6 DEF IInv, RestOK
  <2>10. QED BY <2>6, <2>7, <2>8, <2>9 DEF IInv
<1>5. QED BY <1>1, <1>2, <1>3, <1>4

-----------------------------------------------------------------------------
(* The invariant and what it implies.                                      *)

LEMMA Steps == IInv /\ [Next]_vars => IInv'
<1> SUFFICES ASSUME IInv, [Next]_vars PROVE IInv'
  OBVIOUS
<1>1. CASE UNCHANGED vars
  <2>1. SlotsOK' /\ ServersOK' /\ Kept
    BY <1>1, NothingMoved DEF vars
  <2>2. CallersOK'
    BY <1>1, <2>1, CallersSame DEF vars
  <2>3. QED BY <1>1, <2>1, <2>2 DEF IInv, RestOK, vars
<1>2. CASE Start \/ Interrupt \/ Close
  BY <1>2, StartKeeps, InterruptKeeps, CloseKeeps
<1>3. ASSUME NEW t \in Threads, Continue(t) \/ SaveKey(t) PROVE IInv'
  BY <1>3, StopCancelKeeps, StopClearKeeps, StopCloseKeeps, StartSlotKeeps, LogoutKeeps, RemoveDirKeeps,
     RestartWaitingKeeps, runningKeeps, needsLoginKeeps, SaveKeyKeeps DEF Continue
<1>4. ASSUME NEW t \in Appliers, NEW spec \in Exits \union {NoExit}, Apply(t, spec) PROVE IInv'
  BY <1>4, ApplyKeeps
<1>5. ASSUME NEW k \in 1..Len(servers), Run(k) \/ UserLogin(k) PROVE IInv'
  BY <1>5, RunKeeps, UserLoginKeeps DEF Ks
<1>6. QED BY <1>1, <1>2, <1>3, <1>4, <1>5 DEF Next

\* The slots, servers and callers of one egress stay consistent: what is
\* marked as started has been started (Slot.started and its comment).
THEOREM SlotsInvariant == Spec => []IInv
<1>1. Init => IInv
  BY Inits
<1>2. IInv /\ [Next]_vars => IInv'
  BY Steps
<1>3. QED BY <1>1, <1>2, PTL DEF Spec

\* Only StartSlot has anything to observe.
LEMMA CrossedFacts == ASSUME [Next]_vars PROVE crossed' = crossed \/ Observe
BY ZenonT(60) DEF Next, vars, Start, Interrupt, Close, Continue, StopCancel, StopClear, StopClose, StartSlot, Logout,
   RemoveDir, RestartWaiting, running, needsLogin, SaveKey, Apply, Run, RunStart, RunMark, RunWait,
   RefreshStatus, RefreshLogin, RefreshSpec, RefreshPublish, RefreshEdit, RefreshRecord, RefreshPending,
   UserLogin

LEMMA Uncrossed == ASSUME [Next]_vars, ~crossed' PROVE ~crossed
BY CrossedFacts DEF Observe

\* Every variable of EgressSlots keeps its type, and every reference leads
\* somewhere.
THEOREM SlotsTypeOK == Spec => []TypeOK
<1>1. IInv /\ crossed \in BOOLEAN => TypeOK
  <2> SUFFICES ASSUME IInv, crossed \in BOOLEAN PROVE TypeOK
    OBVIOUS
  <2>1. DOMAIN slots = Os /\ DOMAIN servers = Ks
    BY DEF IInv, SlotsOK, ServersOK, Os, Ks
  <2>2. /\ \A o \in DOMAIN slots : slots[o].srv \in 0..Len(servers)
        /\ \A k \in DOMAIN servers : servers[k].slot \in DOMAIN slots
    BY <2>1 DEF IInv, SlotsOK, ServersOK
  <2>3. slots \in Seq(Slot) /\ servers \in Seq(Server)
    BY DEF IInv, SlotsOK, ServersOK
  <2>4. thr \in [Threads -> [pc : {"idle", "start", "stop", "wait", "close", "logout", "rmdir",
                                 "snapshot", "running", "needsLogin", "done"}, slot : Nat, srv : Nat]]
    BY DEF IInv, CallersOK, Thread, Pcs
  <2>5. QED BY <2>2, <2>3, <2>4 DEF TypeOK, IInv, RestOK
<1>2. Init => crossed \in BOOLEAN
  BY DEF Init
<1>3. crossed \in BOOLEAN /\ [Next]_vars => (crossed \in BOOLEAN)'
  BY Zenon, CrossedFacts DEF Observe
<1>4. QED BY <1>1, <1>2, <1>3, SlotsInvariant, PTL DEF Spec

\* stop closes only servers whose Start has returned nil: the panic that the
\* comment on Slot.started speaks of cannot come.
THEOREM SlotsCloseOnlyStarted == Spec => []CloseOnlyStarted
<1>1. IInv => CloseOnlyStarted
  BY DEF IInv, CloseOnlyStarted, CallersOK, CallerOK
<1>2. QED BY <1>1, SlotsInvariant, PTL

-----------------------------------------------------------------------------
(* A node's state goes only with a removal.                                *)

\* While a request removes the egress, and requests take turns, the name has
\* no slot: whoever adds it again waits for the removal to end.
Removes(t) == thr[t].pc \in {"logout", "rmdir"} \/ (t \in Appliers /\ thr[t].pc \in {"stop", "wait", "close"})
Removing ==
  env.serial => \A t \in Threads : Removes(t) => t \in env.appliers /\ cur = None

LEMMA AppliersAreThreads ==
  ASSUME IInv
  PROVE  /\ env.appliers \subseteq Appliers /\ Appliers \subseteq Threads
         /\ Closer \notin Appliers /\ Appliers \intersect Keyers = {}
BY EnvsAssumption, ThreadsAssumption DEF IInv, RestOK, Env, Threads

\* A caller starts a removal in Apply and nowhere else.
LEMMA RemovesOnly ==
  ASSUME IInv, NEW t \in Threads,
         \/ StopCancel(t) \/ StopClear(t) \/ StopClose(t) \/ StartSlot(t) \/ Logout(t) \/ RemoveDir(t)
         \/ RestartWaiting(t) \/ running(t) \/ needsLogin(t) \/ SaveKey(t),
         NEW u \in Threads, Removes(u)',
         t \in Keyers \/ at(t, "snapshot") \/ at(t, "running") \/ at(t, "needsLogin") => t \notin Appliers
  PROVE  Removes(u) /\ env' = env /\ cur' = cur
<1>1. t \in Appliers \union Keyers \union {Closer}
  BY DEF Threads
<1>2. Closer \notin Appliers /\ Appliers \intersect Keyers = {}
  BY AppliersAreThreads
<1>3. thr \in [Threads -> Thread]
  BY DEF IInv, CallersOK
<1>4. env' = env /\ cur' = cur
  BY ZenonT(60) DEF StopCancel, StopClear, StopClose, StartSlot, Logout, RemoveDir, RestartWaiting, running, needsLogin, SaveKey
<1>5. CASE u # t
  <2>1. thr'[u] = thr[u]
    BY ZenonT(60), <1>3, <1>5 DEF StopCancel, StopClear, StopClose, StartSlot, Logout, RemoveDir, RestartWaiting, running, needsLogin, SaveKey, Goto
  <2>2. QED BY <1>4, <2>1 DEF Removes
<1>6. CASE u = t
  <2>1. After(t) = IF t \in Appliers THEN "rmdir" ELSE IF t \in Keyers THEN "start" ELSE "done"
    BY <1>1, <1>2 DEF After
  <2>2. CASE StopCancel(t)
    BY <1>3, <1>6, <2>1, <2>2 DEF StopCancel, Removes, at, Goto, Thread
  <2>3. CASE StopClear(t)
    BY <1>3, <1>6, <2>1, <2>3 DEF StopClear, Removes, at, Goto, Thread
  <2>4. CASE StopClose(t)
    BY <1>3, <1>6, <2>1, <2>4 DEF StopClose, Removes, at, Goto, Thread
  <2>5. CASE StartSlot(t)
    BY <1>3, <1>6, <2>5 DEF StartSlot, Removes, at, Goto, Thread
  <2>6. CASE Logout(t)
    BY <1>3, <1>6, <2>6 DEF Logout, Removes, at, Goto, Thread
  <2>7. CASE RemoveDir(t)
    BY <1>3, <1>6, <2>7 DEF RemoveDir, Removes, at, Goto, Thread
  <2>8. CASE RestartWaiting(t) \/ running(t) \/ SaveKey(t)
    BY <1>3, <1>6, <2>8 DEF RestartWaiting, running, SaveKey, Removes, at, Goto, Thread
  <2>9. CASE needsLogin(t)
    BY <1>3, <1>6, <2>9 DEF needsLogin, Removes, at, Goto, Thread
  <2>10. QED BY <1>4, <2>2, <2>3, <2>4, <2>5, <2>6, <2>7, <2>8, <2>9
<1>7. QED BY <1>4, <1>5, <1>6

\* Only SetAuthKey looks for waiting slots.
Waiters == \A t \in Threads : thr[t].pc \in {"snapshot", "running", "needsLogin"} => t \in Keyers

LEMMA RemovingStep == IInv /\ Waiters /\ Removing /\ [Next]_vars => Waiters' /\ Removing'
<1> SUFFICES ASSUME IInv, Waiters, Removing, [Next]_vars PROVE Waiters' /\ Removing'
  OBVIOUS
<1>0. /\ env.appliers \subseteq Appliers /\ Appliers \subseteq Threads /\ Closer \notin Appliers
      /\ Appliers \intersect Keyers = {} /\ thr \in [Threads -> Thread]
      /\ env.keyers \subseteq Keyers
  BY AppliersAreThreads, EnvsAssumption DEF IInv, CallersOK, RestOK, Env
<1>1. CASE UNCHANGED vars
  BY <1>1 DEF vars, Waiters, Removing, Removes
<1>2. CASE Start \/ Interrupt
  BY <1>2 DEF Start, Interrupt, Waiters, Removing, Removes
<1>3. CASE Close
  <2>1. /\ UNCHANGED <<env, cur>>
        /\ \A u \in Threads : u # Closer => thr'[u] = thr[u]
        /\ thr'[Closer].pc \in {"done", "stop"}
    BY <1>0, <1>3 DEF Close, Threads, Thread
  <2>2. QED BY <1>0, <2>1 DEF Waiters, Removing, Removes
<1>4. ASSUME NEW k \in 1..Len(servers), Run(k) \/ UserLogin(k) PROVE Waiters' /\ Removing'
  BY <1>4 DEF Run, RunStart, RunMark, RunWait, RefreshStatus, RefreshLogin, RefreshSpec, RefreshPublish,
     RefreshEdit, RefreshRecord, RefreshPending, UserLogin, Waiters, Removing, Removes
<1>5. ASSUME NEW t \in Appliers, NEW spec \in Exits \union {NoExit}, Apply(t, spec) PROVE Waiters' /\ Removing'
  <2>1. /\ t \in env.appliers /\ env' = env
        /\ \A u \in Threads : u # t => thr'[u] = thr[u]
        /\ thr'[t].pc \in {"done", "start"} \/ (thr'[t].pc = "logout" /\ cur' = None)
    BY <1>0, <1>5 DEF Apply, Goto, Thread
  <2>2. ASSUME env.serial, NEW u \in Threads, u # t PROVE ~Removes(u)' \/ cur' = cur
    <3>1. CASE u \in Appliers
      BY <1>5, <2>1, <2>2, <3>1 DEF Apply, Busy, Removes
    <3>2. CASE u \notin Appliers
      BY <1>0, <2>1, <2>2, <3>2 DEF Removing, Removes
    <3>3. QED BY <3>1, <3>2
  <2>3. Waiters'
    BY <2>1 DEF Waiters
  <2>4. Removing'
    BY <1>0, <2>1, <2>2 DEF Removing, Removes
  <2>5. QED BY <2>3, <2>4
<1>6. ASSUME NEW t \in Threads, Continue(t) \/ SaveKey(t) PROVE Waiters' /\ Removing'
  <2>1. t \in Keyers \/ at(t, "snapshot") \/ at(t, "running") \/ at(t, "needsLogin") => t \notin Appliers
    BY <1>0 DEF Waiters, at
  <2>2. /\ \A u \in Threads : u # t => thr'[u] = thr[u]
        /\ thr'[t].pc \in {"snapshot", "running", "needsLogin"} => t \in Keyers
    <3>1. After(t) \in {"rmdir", "start", "done"}
      BY DEF After
    <3>2. CASE StopCancel(t) \/ StopClear(t) \/ StopClose(t)
      <4>1. CASE StopCancel(t)
        BY <1>0, <3>1, <4>1 DEF StopCancel, Goto, Waiters, at, Thread
      <4>2. CASE StopClear(t)
        BY <1>0, <3>1, <4>2 DEF StopClear, Waiters, at, Thread
      <4>3. CASE StopClose(t)
        BY <1>0, <3>1, <4>3 DEF StopClose, Goto, Waiters, at, Thread
      <4>4. QED BY <3>2, <4>1, <4>2, <4>3
    <3>3. CASE StartSlot(t) \/ Logout(t) \/ RemoveDir(t)
      BY <1>0, <3>3 DEF StartSlot, Logout, RemoveDir, Goto, Waiters, at, Thread
    <3>4. CASE RestartWaiting(t) \/ running(t) \/ needsLogin(t) \/ SaveKey(t)
      BY <1>0, <3>4 DEF RestartWaiting, running, needsLogin, SaveKey, Goto, Waiters, at, Thread
    <3>5. QED
      BY <1>6, <3>2, <3>3, <3>4 DEF Continue
  <2>3. Waiters'
    BY <2>2 DEF Waiters
  <2>4. env' = env /\ cur' = cur
    BY ZenonT(60), <1>6 DEF Continue, StopCancel, StopClear, StopClose, StartSlot, Logout, RemoveDir,
       RestartWaiting, running, needsLogin, SaveKey
  <2>5. ASSUME NEW u \in Threads, Removes(u)' PROVE Removes(u)
    BY <1>6, <2>1, <2>5, RemovesOnly DEF Continue
  <2>6. Removing'
    BY <2>4, <2>5 DEF Removing
  <2>7. QED BY <2>3, <2>6
<1>7. QED BY <1>1, <1>2, <1>3, <1>4, <1>5, <1>6 DEF Next

\* Slot state directories (manager.go:70): as long as requests take turns, the
\* node in one is given up only by a removal of the egress, in Logout or
\* RemoveDir, while no slot has the name.
THEOREM SlotsKeepDevice == Spec => KeepsDevice
<1>1. Init => Waiters /\ Removing
  BY DEF Init, Waiters, Removing, Removes, idle
<1>2. IInv /\ Waiters /\ Removing /\ [Next]_vars =>
        [Orderly /\ env.serial /\ dir.kind = "node" /\ dir'.kind # "node"
           => cur = None /\ \E t \in env.appliers : thr[t].pc \in {"logout", "rmdir"}]_vars
  <2> SUFFICES ASSUME IInv, Removing, Next, env.serial, dir.kind = "node", dir'.kind # "node"
               PROVE  cur = None /\ \E t \in env.appliers : thr[t].pc \in {"logout", "rmdir"}
    BY DEF vars
  <2>1. dir \in [kind : {"none", "empty", "node"}, exit : Exits \union {NoExit}]
    BY DEF IInv, RestOK
  <2>2. \E t \in Threads : Logout(t) \/ RemoveDir(t)
    <3>1. CASE Start \/ Interrupt \/ Close
      BY <3>1 DEF Start, Interrupt, Close
    <3>2. ASSUME NEW t \in Appliers, NEW spec \in Exits \union {NoExit}, Apply(t, spec) PROVE FALSE
      BY <2>1, <3>2 DEF Apply
    <3>3. ASSUME NEW k \in 1..Len(servers), Run(k) \/ UserLogin(k) PROVE FALSE
      BY <2>1, <3>3 DEF Run, RunStart, RunMark, RunWait, RefreshStatus, RefreshLogin, RefreshSpec, RefreshPublish,
         RefreshEdit, RefreshRecord, RefreshPending, UserLogin
    <3>4. ASSUME NEW t \in Threads, Continue(t) \/ SaveKey(t) PROVE Logout(t) \/ RemoveDir(t)
      BY ZenonT(60), <3>4 DEF Continue, StopCancel, StopClear, StopClose, StartSlot, RestartWaiting, running, needsLogin, SaveKey
    <3>5. QED BY <3>1, <3>2, <3>3, <3>4 DEF Next
  <2>3. PICK t \in Threads : thr[t].pc \in {"logout", "rmdir"}
    BY <2>2 DEF Logout, RemoveDir, at
  <2>4. QED BY <2>3 DEF Removing, Removes
<1>3. IInv /\ Waiters /\ Removing /\ [Next]_vars => Waiters' /\ Removing'
  BY RemovingStep
<1>4. QED BY <1>1, <1>2, <1>3, SlotsInvariant, PTL DEF Spec, KeepsDevice

-----------------------------------------------------------------------------
(* One server at a time, and no stop that leaves one behind.               *)

\* A caller that is going to clear its slot.
Stops(t) == thr[t].pc \in {"logout", "stop", "wait"}

\* A server serves the slot that names it, and is off until it is started.
Held ==
  /\ \A k \in Ks : servers[k].run = "start" => servers[k].backend = "off"
  /\ \A k \in Ks : /\ slots[servers[k].slot].srv = k
                   /\ servers[k].run \notin {"start", "mark"}
                   /\ servers[k].backend # "off"
                   => slots[servers[k].slot].started
  /\ \A o \in Os : slots[o].srv # None => servers[slots[o].srv].slot = o

\* Which callers work on which slots: a removal takes the slot from its name,
\* so no two removals meet, and Close comes after the signal.
Placed ==
  /\ \A t \in Keyers : /\ thr[t].pc # "idle" => t \in env.keyers
                       /\ thr[t].pc \notin {"logout", "rmdir"}
  /\ thr[Closer].pc \in {"idle", "stop", "wait", "close", "done"}
  /\ ctx # "cancelled" => at(Closer, "idle")
  /\ \A t \in Appliers : Removes(t) => NoExit \in env.wants
  /\ \A t \in Appliers : Stops(t) => thr[t].slot # cur
  /\ \A t, u \in Appliers : t # u /\ Stops(t) /\ Stops(u) => thr[t].slot # thr[u].slot
  /\ NoExit \notin env.wants => \A o \in Os : o = cur
  /\ env.serial => \A t \in Appliers : at(t, "start") => thr[t].slot = cur

\* The goroutine that stop waits for is that of the slot's server, or the slot
\* is clear.
Met ==
  \A t \in Threads : at(t, "wait") =>
    /\ servers[thr[t].srv].slot = thr[t].slot
    /\ slots[thr[t].slot].srv \in {thr[t].srv, None}

\* The goroutine that stop waits for is that of the slot's server, until
\* somebody else has cleared the slot, which only Close can bring about.
Waits ==
  \A t \in Threads : at(t, "wait") =>
    /\ servers[thr[t].srv].slot = thr[t].slot
    /\ \/ slots[thr[t].slot].srv = thr[t].srv
       \/ ctx = "cancelled" /\ slots[thr[t].slot].srv = None

\* A server that its slot no longer names has ended.
Ended(k) ==
  /\ servers[k].run = "done"
  /\ \/ servers[k].backend \in {"off", "closed"}
     \/ \E u \in Threads : at(u, "close") /\ thr[u].srv = k
Accounted == \A k \in Ks : slots[servers[k].slot].srv = k \/ Ended(k)

\* A slot without a name is empty or being emptied, and so is Close's slot.
Left ==
  /\ env.serial => \A o \in Os : o # cur => \/ slots[o].srv = None
                                            \/ \E t \in Appliers : Stops(t) /\ thr[t].slot = o
  /\ thr[Closer].pc \in {"close", "done"} /\ thr[Closer].slot # None =>
       thr[Closer].slot \in Os /\ slots[thr[Closer].slot].srv = None

\* What is restarted has been started before, and what Apply has made is started
\* by Apply.
Restarts(t) == thr[t].pc \in {"needsLogin", "stop", "wait", "close", "start"}
Fresh ==
  /\ ctx = "none" => \A t \in Threads : at(t, "idle")
  /\ \A t, u \in Appliers : t # u /\ at(t, "start") /\ at(u, "start") => thr[t].slot # thr[u].slot
  /\ \A t \in Appliers : at(t, "start") => \A k \in Ks : servers[k].slot # thr[t].slot
  /\ \A t \in Keyers : Restarts(t) => \E k \in Ks : servers[k].slot = thr[t].slot
  /\ env.serial => \A t, u \in Appliers : Busy(t) /\ Busy(u) => t = u

\* One server of all slots works.
Alone == \A j, k \in Ks : Works(j) /\ Works(k) => j = k

OInv == /\ Held /\ Placed /\ Fresh
        /\ ~crossed => Met /\ Accounted
        /\ Orderly => ~crossed /\ Waits /\ Left
        /\ Orderly /\ env.serial => Alone

\* What start does to each slot and server.
LEMMA StartFacts ==
  ASSUME IInv, NEW o \in Os, start(o)
  PROVE  \/ slots' = slots /\ servers' = servers
         \/ LET n == Len(servers) + 1 IN
            /\ slots[o].srv = None /\ ctx' # "cancelled"
            /\ Len(slots') = Len(slots) /\ Ks' = Ks \union {n} /\ n \notin Ks /\ n # None
            /\ \A k \in Ks : servers'[k] = servers[k]
            /\ servers'[n].slot = o /\ servers'[n].run = "start" /\ servers'[n].backend = "off"
            /\ \A p \in Os : p # o => slots'[p] = slots[p]
            /\ slots'[o].srv = n
<1> DEFINE n == Len(servers) + 1
           m == newServer(o)
<1>1. CASE slots[o].srv # None \/ ctx' = "cancelled"
  BY <1>1 DEF start
<1>2. CASE ~(slots[o].srv # None \/ ctx' = "cancelled")
  <2>1. /\ servers' = Append(servers, m)
        /\ slots' = [slots EXCEPT ![o].srv = n, ![o].started = FALSE, ![o].state = "starting"]
    BY <1>2 DEF start
  <2>2. m \in Server /\ m.slot = o /\ m.run = "start" /\ m.backend = "off"
    BY DEF newServer, Server, Os, IInv, RestOK, SlotsOK
  <2>3. servers \in Seq(Server) /\ slots \in Seq(Slot) /\ Len(servers) \in Nat /\ Len(slots) \in Nat
        /\ slots[o] \in Slot
    BY DEF IInv, ServersOK, SlotsOK, Os
  <2> HIDE DEF m
  <2>4. /\ Len(servers') = n /\ servers'[n] = m
        /\ \A k \in Ks : servers'[k] = servers[k]
    BY <2>1, <2>2, <2>3, AppendProperties DEF Ks
  <2>5. Len(slots') = Len(slots) /\ (\A p \in Os : p # o => slots'[p] = slots[p]) /\ slots'[o].srv = n
    <3> DEFINE q == [slots[o] EXCEPT !.srv = n, !.started = FALSE, !.state = "starting"]
    <3>1. slots' = [slots EXCEPT ![o] = q]
      BY <2>1, <2>3
    <3>2. q.srv = n
      BY <2>3 DEF Slot
    <3> HIDE DEF q
    <3>3. DOMAIN slots = Os
      BY <2>3 DEF Os
    <3>4. Len(slots') = Len(slots)
      BY StartStep
    <3>5. QED BY <3>1, <3>2, <3>3, <3>4
  <2>6. Ks' = Ks \union {n} /\ n \notin Ks /\ n # None
    BY <2>3, <2>4 DEF Ks, None
  <2>7. QED BY <1>2, <2>2, <2>4, <2>5, <2>6
<1>3. QED BY <1>1, <1>2

\* What a goroutine or the user does to each slot and server.
RunOf(k) ==
  /\ UNCHANGED <<env, ctx, cur, thr>>
  /\ Ks' = Ks /\ Os' = Os
  /\ \A o \in Os : slots'[o].srv = slots[o].srv /\ (slots[o].started => slots'[o].started)
  /\ \A j \in Ks : j # k => servers'[j] = servers[j]
  /\ servers'[k].slot = servers[k].slot
  /\ servers[k].run = "done" => servers'[k].run = "done"
  /\ servers[k].run = "done" /\ servers[k].backend \in {"off", "closed"} => servers'[k].backend = servers[k].backend
  /\ servers'[k].run = "start" => servers'[k].backend = "off"
  /\ /\ slots[servers[k].slot].srv = k
     /\ servers'[k].run \notin {"start", "mark"}
     /\ servers'[k].backend # "off"
     => slots'[servers[k].slot].started

LEMMA RunFacts ==
  ASSUME IInv, Held, NEW k \in Ks, Run(k) \/ UserLogin(k)
  PROVE  RunOf(k)
<1> DEFINE o == servers[k].slot
           s == servers[k]
<1>1. /\ servers[k] \in Server /\ o \in Os /\ slots[o] \in Slot
      /\ servers \in Seq(Server) /\ slots \in Seq(Slot)
      /\ DOMAIN servers = Ks /\ DOMAIN slots = Os
  BY OwnSlot DEF Ks, Os
<1>2. /\ s.run = "start" => s.backend = "off"
      /\ slots[o].srv = k /\ s.run \notin {"start", "mark"} /\ s.backend # "off" => slots[o].started
  BY DEF Held
<1>3. IInv'
  BY RunKeeps, UserLoginKeeps
<1>4. DOMAIN servers' = Ks' /\ DOMAIN slots' = Os'
  BY <1>3 DEF IInv, ServersOK, SlotsOK, Ks, Os
<1>0. ASSUME NEW x, slots' = [slots EXCEPT ![o].state = x]
      PROVE  /\ Os' = Os
             /\ \A p \in Os : slots'[p].srv = slots[p].srv /\ slots'[p].started = slots[p].started
  BY <1>0, <1>1, <1>4 DEF Slot
<1>5. CASE RunStart(k)
  <2>1. s.run = "start" /\ UNCHANGED <<env, ctx, cur, thr>>
    BY <1>5 DEF RunStart, on
  <2>2. CASE run(k, "done") /\ state(k, "error")
    BY <1>0, <1>1, <1>2, <1>4, <2>1, <2>2 DEF RunOf, run, state, Server
  <2>3. ASSUME NEW b, NEW x, slots' = slots,
               servers' = [servers EXCEPT ![k].run = "mark", ![k].backend = b, ![k].exit = x]
        PROVE  RunOf(k)
    BY <1>1, <1>4, <2>1, <2>3 DEF RunOf, Server
  <2>4. QED BY <1>5, <2>2, <2>3 DEF RunStart
<1>6. CASE RunMark(k)
  BY <1>1, <1>2, <1>4, <1>6 DEF RunMark, RunOf, on, run, state, Wait, Server, Slot
<1>7. CASE RunWait(k)
  BY <1>1, <1>2, <1>4, <1>7 DEF RunWait, RunOf, on, run, state, Wait, Server, Slot
<1>8. CASE RefreshStatus(k)
  <2>1. s.run = "status" /\ UNCHANGED <<env, ctx, cur, thr>>
    BY <1>8 DEF RefreshStatus, on
  <2>2. CASE Wait(k) /\ (slots' = slots \/ state(k, "error"))
    BY <1>0, <1>1, <1>2, <1>4, <2>1, <2>2 DEF RunOf, Wait, state, Server
  <2>3. CASE run(k, "login") /\ slots' = slots
    BY <1>1, <1>2, <1>4, <2>1, <2>3 DEF RunOf, run, Server
  <2>4. CASE servers' = [servers EXCEPT ![k].run = "spec", ![k].seen = s.exit] /\ slots' = slots
    BY <1>1, <1>2, <1>4, <2>1, <2>4 DEF RunOf, Server
  <2>5. QED BY <1>8, <2>2, <2>3, <2>4 DEF RefreshStatus
<1>9. CASE RefreshLogin(k)
  BY <1>1, <1>2, <1>4, <1>9 DEF RefreshLogin, RunOf, on, run, state, Wait, Server, Slot
<1>10. CASE RefreshSpec(k)
  BY <1>1, <1>2, <1>4, <1>10 DEF RefreshSpec, RunOf, on, run, state, Wait, Server, Slot
<1>11. CASE RefreshPublish(k)
  <2>1. s.run = "publish" /\ UNCHANGED <<env, ctx, cur, thr>> /\ Wait(k)
    BY <1>11 DEF RefreshPublish, on
  <2>2. ASSUME NEW x, state(k, x) PROVE RunOf(k)
    BY <1>0, <1>1, <1>2, <1>4, <2>1, <2>2 DEF RunOf, Wait, state, Server
  <2>3. QED BY <1>11, <2>2 DEF RefreshPublish
<1>12. CASE RefreshEdit(k)
  <2>1. s.run = "edit" /\ UNCHANGED <<env, ctx, cur, thr>> /\ slots' = slots
    BY <1>12 DEF RefreshEdit, on
  <2>2. ASSUME NEW x, servers' = [servers EXCEPT ![k].run = "record", ![k].exit = x] PROVE RunOf(k)
    BY <1>1, <1>2, <1>4, <2>1, <2>2 DEF RunOf, Server
  <2>3. CASE run(k, "pending")
    BY <1>1, <1>2, <1>4, <2>1, <2>3 DEF RunOf, run, Server
  <2>4. QED BY <1>12, <2>2, <2>3 DEF RefreshEdit
<1>13. CASE RefreshRecord(k)
  BY <1>1, <1>2, <1>4, <1>13 DEF RefreshRecord, RunOf, on, run, state, Wait, Server, Slot
<1>14. CASE RefreshPending(k)
  BY <1>1, <1>2, <1>4, <1>14 DEF RefreshPending, RunOf, on, run, state, Wait, Server, Slot
<1>15. CASE UserLogin(k)
  BY <1>1, <1>2, <1>4, <1>15 DEF UserLogin, RunOf, on, run, state, Wait, Server, Slot
<1>16. QED BY <1>5, <1>6, <1>7, <1>8, <1>9, <1>10, <1>11, <1>12, <1>13, <1>14, <1>15 DEF Run

\* What a caller that neither starts nor clears a slot does to each server.
MoveOf(t) ==
  /\ UNCHANGED <<env, ctx, cur, slots>>
  /\ Ks' = Ks
  /\ \A k \in Ks : /\ servers'[k].slot = servers[k].slot
                   /\ servers'[k].run = servers[k].run
                   /\ servers'[k].backend = "off" <=> servers[k].backend = "off"
                   /\ servers[k].backend = "closed" => servers'[k].backend = "closed"
  /\ \A u \in Threads : u # t => thr'[u] = thr[u]
  /\ at(t, "close") => servers'[thr[t].srv].backend = "closed"
  /\ thr'[t].pc = "wait" => /\ thr'[t].slot = thr[t].slot /\ thr'[t].slot \in Os
                            /\ thr'[t].srv = slots[thr[t].slot].srv /\ thr'[t].srv # None
  /\ thr'[t].pc # "close" /\ thr[t].pc # "done"
  /\ Stops(t) \/ at(t, "close") => thr'[t].slot = thr[t].slot
  /\ Stops(t) => Stops(t)' \/ slots[thr[t].slot].srv = None

LEMMA MoveFacts ==
  ASSUME IInv, NEW t \in Threads,
         \/ StopCancel(t) \/ StopClose(t) \/ Logout(t) \/ RemoveDir(t)
         \/ RestartWaiting(t) \/ running(t) \/ needsLogin(t) \/ SaveKey(t)
  PROVE  MoveOf(t)
<1> DEFINE o == thr[t].slot
           k == slots[o].srv
<1>1. /\ thr[t] \in Thread /\ thr \in [Threads -> Thread] /\ CallerOK(t)
      /\ servers \in Seq(Server) /\ DOMAIN servers = Ks /\ Len(servers) \in Nat
      /\ \A j \in Ks : servers[j] \in Server
      /\ After(t) \in {"rmdir", "start", "done"}
      /\ o \in Os => k \in 0..Len(servers) /\ (slots[o].started => k \in Ks)
  BY OwnCall, OwnSlot DEF Ks, IInv, CallersOK
<1>2. CASE servers' = servers /\ thr[t].pc \notin {"close", "wait", "done"}
           /\ UNCHANGED <<env, ctx, cur, slots>>
           /\ \E x \in Pcs \ {"wait", "close"} : Goto(t, x) /\ (thr[t].pc = "logout" => x = "stop")
                                                 /\ (thr[t].pc = "stop" => k = None)
  BY <1>1, <1>2 DEF MoveOf, Goto, Stops, at, Ks, Thread
<1>3. CASE StopCancel(t)
  <2>1. o \in Os /\ thr[t].pc = "stop"
    BY <1>1, <1>3 DEF StopCancel, CallerOK, at
  <2>2. CASE k = None
    <3>1. /\ servers' = servers /\ UNCHANGED <<env, ctx, cur, slots>>
          /\ Goto(t, After(t)) /\ After(t) \in Pcs \ {"wait", "close"}
      <4>1. servers' = servers /\ UNCHANGED <<env, ctx, cur, slots>> /\ Goto(t, After(t))
        BY <1>3, <2>2 DEF StopCancel
      <4>2. After(t) \in Pcs \ {"wait", "close"}
        BY <1>1 DEF Pcs
      <4>3. QED BY <4>1, <4>2
    <3>2. QED BY <1>2, <2>1, <2>2, <3>1
  <2>3. CASE k # None
    <3>1. k \in Ks /\ k \in Nat
      BY <1>1, <2>1, <2>3 DEF Ks, None
    <3>2. /\ servers' = [servers EXCEPT ![k].cancelled = TRUE]
          /\ thr' = [thr EXCEPT ![t].pc = "wait", ![t].srv = k]
          /\ UNCHANGED <<env, ctx, cur, slots>>
      BY <1>3, <2>3 DEF StopCancel
    <3>3. Ks' = Ks
      BY <1>1, <3>2, ExceptSeq DEF Ks
    <3>4. thr'[t].pc = "wait" /\ thr'[t].slot = o /\ thr'[t].srv = k
      BY <1>1, <3>2 DEF Thread
    <3>5. \A j \in Ks : /\ servers'[j].slot = servers[j].slot
                        /\ servers'[j].run = servers[j].run /\ servers'[j].backend = servers[j].backend
      BY <1>1, <3>1, <3>2 DEF Server
    <3>6. \A u \in Threads : u # t => thr'[u] = thr[u]
      BY <1>1, <3>2
    <3>7. o = thr[t].slot /\ k = slots[thr[t].slot].srv
      OBVIOUS
    <3> HIDE DEF o, k
    <3>8. /\ thr'[t].slot = thr[t].slot /\ thr'[t].slot \in Os
          /\ thr'[t].srv = slots[thr[t].slot].srv /\ thr'[t].srv # None
      BY <2>1, <2>3, <3>4, <3>7
    <3>9. QED BY ZenonT(60), <2>1, <3>2, <3>3, <3>4, <3>5, <3>6, <3>8 DEF MoveOf, Stops, at
  <2>4. QED BY <2>2, <2>3
<1>4. CASE StopClose(t)
  <2> DEFINE c == thr[t].srv
  <2>1. /\ thr[t].pc = "close" /\ c \in Ks /\ servers[c].backend \in Started
        /\ servers' = [servers EXCEPT ![c].backend = "closed"]
        /\ thr' = [thr EXCEPT ![t].pc = After(t)]
        /\ UNCHANGED <<env, ctx, cur, slots>>
    BY <1>1, <1>4 DEF StopClose, CallerOK, at, Goto
  <2>2. Ks' = Ks
    <3>1. servers' \in Seq(Server) /\ DOMAIN servers' = DOMAIN servers
      BY <1>4, <2>1, StopCloseKeeps DEF IInv, ServersOK
    <3>2. QED BY <1>1, <3>1 DEF Ks
  <2>3. \A j \in Ks : /\ servers'[j].slot = servers[j].slot /\ servers'[j].run = servers[j].run
                      /\ servers'[j].backend = IF j = c THEN "closed" ELSE servers[j].backend
    BY <1>1, <2>1 DEF Server
  <2>4. /\ \A u \in Threads : u # t => thr'[u] = thr[u]
        /\ thr'[t].pc \in {"rmdir", "start", "done"} /\ thr'[t].slot = thr[t].slot
    BY <1>1, <2>1 DEF Thread
  <2>5. QED BY <2>1, <2>2, <2>3, <2>4 DEF MoveOf, Stops, at, Started
<1>5. CASE Logout(t)
  <2>1. /\ o \in Os /\ thr[t].pc = "logout" /\ thr' = [thr EXCEPT ![t].pc = "stop"]
        /\ UNCHANGED <<env, ctx, cur, slots>>
    BY <1>1, <1>5 DEF Logout, CallerOK, at, Goto
  <2>2. CASE servers' = servers
    BY <1>2, <2>1, <2>2 DEF Goto, Pcs
  <2>3. CASE servers' # servers
    <3>1. /\ k \in Ks /\ servers[k].backend \in {"on", "login"}
          /\ servers' = [servers EXCEPT ![k].backend = "login"]
      BY <1>1, <1>5, <2>1, <2>3 DEF Logout
    <3>2. Ks' = Ks
      <4>1. servers' \in Seq(Server) /\ DOMAIN servers' = DOMAIN servers
        BY <1>5, <3>1, LogoutKeeps DEF IInv, ServersOK
      <4>2. QED BY <1>1, <4>1 DEF Ks
    <3>3. \A j \in Ks : /\ servers'[j].slot = servers[j].slot /\ servers'[j].run = servers[j].run
                        /\ servers'[j].backend = IF j = k THEN "login" ELSE servers[j].backend
      BY <1>1, <3>1 DEF Server
    <3>4. /\ \A u \in Threads : u # t => thr'[u] = thr[u]
          /\ thr'[t].pc = "stop" /\ thr'[t].slot = o
      BY <1>1, <2>1 DEF Thread
    <3>5. \A j \in Ks : /\ servers'[j].backend = "off" <=> servers[j].backend = "off"
                        /\ servers[j].backend = "closed" => servers'[j].backend = "closed"
      <4>1. servers[k].backend \in {"on", "login"}
        BY <3>1
      <4>2. QED BY <3>3, <4>1
    <3> HIDE DEF o, k
    <3>6. o = thr[t].slot
      BY DEF o
    <3>7. QED BY <2>1, <3>2, <3>3, <3>4, <3>5, <3>6 DEF MoveOf, Stops, at
  <2>4. QED BY <2>2, <2>3
<1>6. CASE RemoveDir(t) \/ running(t) \/ needsLogin(t) \/ SaveKey(t)
  BY <1>2, <1>6 DEF RemoveDir, running, needsLogin, SaveKey, at, Goto, Pcs
<1>7. CASE RestartWaiting(t)
  <2>1. CASE cur = None
    BY <1>2, <1>7, <2>1 DEF RestartWaiting, at, Goto, Pcs
  <2>2. CASE cur # None
    BY <1>1, <1>7, <2>2 DEF RestartWaiting, MoveOf, Stops, at, Ks, Thread
  <2>3. QED BY <2>1, <2>2
<1>8. QED BY <1>3, <1>4, <1>5, <1>6, <1>7

\* What stop does once the goroutine it waited for has ended.
ClearOf(t) ==
  LET o == thr[t].slot IN
  /\ UNCHANGED <<env, ctx, cur, servers>>
  /\ at(t, "wait") /\ o \in Os /\ thr[t].srv \in Ks /\ servers[thr[t].srv].run = "done"
  /\ Os' = Os
  /\ \A p \in Os : p # o => slots'[p] = slots[p]
  /\ slots'[o].srv = None
  /\ \A u \in Threads : u # t => thr'[u] = thr[u]
  /\ thr'[t].slot = o /\ thr'[t].srv = slots[o].srv
  /\ thr'[t].pc = IF slots[o].started THEN "close" ELSE After(t)
  /\ After(t) \in {"rmdir", "start", "done"}

LEMMA ClearFacts ==
  ASSUME IInv, NEW t \in Threads, StopClear(t)
  PROVE  ClearOf(t)
<1> DEFINE o == thr[t].slot
           q == [slots[o] EXCEPT !.srv = None, !.started = FALSE, !.state = "stopped"]
           c == [thr[t] EXCEPT !.pc = IF slots[o].started THEN "close" ELSE After(t), !.srv = slots[o].srv]
<1>1. /\ thr[t] \in Thread /\ thr \in [Threads -> Thread] /\ CallerOK(t)
      /\ slots \in Seq(Slot) /\ DOMAIN slots = Os
      /\ After(t) \in {"rmdir", "start", "done"}
  BY OwnCall DEF Os, IInv, CallersOK
<1>2. o \in Os /\ slots[o] \in Slot /\ at(t, "wait") /\ thr[t].srv \in Ks
  BY <1>1, OwnCall DEF StopClear, CallerOK, at
<1>3. /\ slots' = [slots EXCEPT ![o] = q] /\ thr' = [thr EXCEPT ![t] = c]
      /\ servers[thr[t].srv].run = "done" /\ UNCHANGED <<env, ctx, cur, servers>>
  BY DEF StopClear
<1>4. q.srv = None
  BY <1>2 DEF Slot
<1>5. c.slot = o /\ c.srv = slots[o].srv /\ c.pc = IF slots[o].started THEN "close" ELSE After(t)
  BY <1>1 DEF Thread
<1> HIDE DEF q, c
<1>6. Os' = Os
  <2>1. DOMAIN slots' = DOMAIN slots
    BY <1>3
  <2>2. slots' \in Seq(Slot)
    BY StopClearKeeps DEF IInv, SlotsOK
  <2>3. QED BY <1>1, <2>1, <2>2 DEF Os
<1>7. QED BY <1>1, <1>2, <1>3, <1>4, <1>5, <1>6 DEF ClearOf

\* What a request to Apply does to the slots and their callers.
ApplyOf(t) ==
  /\ UNCHANGED <<env, ctx, servers>>
  /\ Os \subseteq Os'
  /\ \A o \in Os : slots'[o].srv = slots[o].srv /\ slots'[o].started = slots[o].started
  /\ \A u \in Threads : u # t => thr'[u] = thr[u]
  /\ thr[t].pc = "idle" /\ ctx # "none"
  /\ env.serial => \A u \in Appliers : ~Busy(u)
  /\ \/ thr'[t].pc = "done" /\ cur' = cur /\ Os' = Os
     \/ /\ NoExit \in env.wants /\ Os' = Os
        /\ cur \in Os /\ cur' = None
        /\ thr'[t].pc = "logout" /\ thr'[t].slot = cur
     \/ /\ cur = None /\ cur' \notin Os /\ Os' = Os \union {cur'} /\ slots'[cur'].srv = None
        /\ thr'[t].pc = "start" /\ thr'[t].slot = cur'

LEMMA ApplyFacts ==
  ASSUME IInv, NEW t \in Appliers, NEW spec \in Exits \union {NoExit}, Apply(t, spec)
  PROVE  ApplyOf(t)
<1>1. /\ t \in Threads /\ thr[t] \in Thread /\ thr \in [Threads -> Thread]
      /\ cur \in 0..Len(slots) /\ Len(slots) \in Nat
      /\ slots \in Seq(Slot) /\ DOMAIN slots = Os
  BY OwnCall DEF Threads, Os, IInv, CallersOK
<1>2. /\ UNCHANGED <<env, ctx, servers>>
      /\ thr[t].pc = "idle" /\ ctx # "none" /\ spec \in env.wants
      /\ env.serial => \A u \in Appliers : ~Busy(u)
  BY DEF Apply, at
<1>3. CASE spec = NoExit /\ cur = None
  BY <1>1, <1>2, <1>3 DEF Apply, ApplyOf, Goto, Os, Thread
<1>4. CASE spec = NoExit /\ cur # None
  <2>1. /\ UNCHANGED slots /\ cur' = None
        /\ thr' = [thr EXCEPT ![t].pc = "logout", ![t].slot = cur]
    BY <1>4 DEF Apply
  <2>2. cur \in Os
    BY <1>1, <1>4 DEF Os, None
  <2>3. QED BY <1>1, <1>2, <1>4, <2>1, <2>2 DEF ApplyOf, Os, Thread
<1>5. CASE spec # NoExit /\ cur = None
  <2> DEFINE n == newSlot(spec)
             m == Len(slots) + 1
  <2>1. /\ slots' = Append(slots, n) /\ cur' = m
        /\ thr' = [thr EXCEPT ![t].pc = "start", ![t].slot = m]
    BY <1>1, <1>5 DEF Apply
  <2>2. n \in Slot /\ n.srv = None
    BY <1>5 DEF newSlot, Slot, None
  <2> HIDE DEF n
  <2>3. Len(slots') = m /\ slots'[m] = n /\ \A o \in Os : slots'[o] = slots[o]
    BY <1>1, <2>1, <2>2, AppendProperties DEF Os
  <2>4. Os' = Os \union {m} /\ m \notin Os
    BY <1>1, <2>3 DEF Os
  <2>5. thr'[t].pc = "start" /\ thr'[t].slot = m /\ \A u \in Threads : u # t => thr'[u] = thr[u]
    BY <1>1, <2>1 DEF Thread
  <2>6. QED BY <1>2, <1>5, <2>1, <2>2, <2>3, <2>4, <2>5 DEF ApplyOf
<1>6. CASE spec # NoExit /\ cur # None
  <2> DEFINE q == setSpec(slots[cur], spec)
  <2>1. cur \in Os /\ slots[cur] \in Slot
    BY <1>1, <1>6 DEF Os, None
  <2>2. q.srv = slots[cur].srv /\ q.started = slots[cur].started
    BY <2>1 DEF setSpec, Slot
  <2>3. /\ slots' = [slots EXCEPT ![cur] = q] /\ cur' = cur
        /\ thr' = [thr EXCEPT ![t].pc = "done"]
    BY <1>6 DEF Apply, Goto
  <2> HIDE DEF q
  <2>4. Os' = Os
    <3>1. DOMAIN slots' = DOMAIN slots
      BY <2>3
    <3>2. slots' \in Seq(Slot)
      BY ApplyKeeps DEF IInv, SlotsOK
    <3>3. QED BY <1>1, <3>1, <3>2 DEF Os
  <2>5. thr'[t].pc = "done" /\ \A u \in Threads : u # t => thr'[u] = thr[u]
    BY <1>1, <2>3 DEF Thread
  <2>6. \A o \in Os : slots'[o].srv = slots[o].srv /\ slots'[o].started = slots[o].started
    BY <1>1, <2>1, <2>2, <2>3
  <2>7. QED BY <1>2, <2>3, <2>4, <2>5, <2>6 DEF ApplyOf
<1>7. QED BY <1>3, <1>4, <1>5, <1>6

\* Where a caller goes that has been let in.
PlaceOf(t) ==
  /\ UNCHANGED <<env, ctx, cur>> /\ Os' = Os
  /\ \A u \in Threads : u # t => thr'[u] = thr[u]
  /\ t \in Appliers => /\ Removes(t)' => Removes(t)
                       /\ Stops(t)' => Stops(t) /\ thr'[t].slot = thr[t].slot
                       /\ thr'[t].pc # "start"
  /\ t \in Keyers => t \in env.keyers /\ thr'[t].pc \notin {"logout", "rmdir"}
  /\ t = Closer => thr[t].pc # "idle" /\ thr'[t].pc \in {"stop", "wait", "close", "done"}

LEMMA PlaceFacts ==
  ASSUME IInv, Waiters, Placed, NEW t \in Threads, Continue(t) \/ SaveKey(t)
  PROVE  PlaceOf(t)
<1>1. /\ Appliers \subseteq Threads /\ Closer \notin Appliers \union Keyers /\ Appliers \intersect Keyers = {}
      /\ env.keyers \subseteq Keyers /\ t \in Appliers \union Keyers \union {Closer}
      /\ thr[t] \in Thread /\ thr \in [Threads -> Thread] /\ thr[t].slot \in Nat
      /\ Len(slots) \in Nat
  BY OwnCall, AppliersAreThreads, EnvsAssumption, ThreadsAssumption
     DEF IInv, RestOK, SlotsOK, CallersOK, Env, Threads, Thread
<1>2. After(t) = IF t \in Appliers THEN "rmdir" ELSE IF t \in Keyers THEN "start" ELSE "done"
  BY <1>1 DEF After
<1>3. /\ thr[t].pc \in {"snapshot", "running", "needsLogin"} => t \in Keyers
      /\ t \in Keyers => /\ thr[t].pc # "idle" => t \in env.keyers
                         /\ thr[t].pc \notin {"logout", "rmdir"}
      /\ t = Closer => thr[t].pc \in {"idle", "stop", "wait", "close", "done"}
  BY DEF Waiters, Placed
<1>4. ASSUME NEW x, Goto(t, x),
             UNCHANGED <<env, ctx, cur, slots>>,
             t \in Appliers => \/ x = "done"
                               \/ x = "stop" /\ thr[t].pc = "logout"
                               \/ x = "rmdir" /\ thr[t].pc \in {"stop", "close"},
             t \in Keyers => t \in env.keyers /\ x \notin {"logout", "rmdir"},
             t = Closer => thr[t].pc # "idle" /\ x = "done"
      PROVE  PlaceOf(t)
  BY <1>1, <1>4 DEF PlaceOf, Removes, Stops, Goto, Thread, Os
<1>5. CASE StopCancel(t)
  <2>1. CASE slots[thr[t].slot].srv = None
    BY <1>1, <1>2, <1>3, <1>4, <1>5, <2>1 DEF StopCancel, at
  <2>2. CASE slots[thr[t].slot].srv # None
    <3>1. /\ thr[t].pc = "stop" /\ thr'[t].pc = "wait" /\ thr'[t].slot = thr[t].slot
          /\ \A u \in Threads : u # t => thr'[u] = thr[u]
      BY <1>1, <1>5, <2>2 DEF StopCancel, at, Thread
    <3>2. UNCHANGED <<env, ctx, cur, slots>>
      BY <1>5 DEF StopCancel
    <3>3. QED BY <1>1, <1>3, <3>1, <3>2 DEF PlaceOf, Removes, Stops, Os
  <2>3. QED BY <2>1, <2>2
<1>6. CASE StopClear(t)
  <2>1. /\ UNCHANGED <<env, ctx, cur>> /\ Os' = Os /\ thr[t].pc = "wait"
        /\ thr'[t].pc \in {"close", After(t)}
        /\ \A u \in Threads : u # t => thr'[u] = thr[u]
    BY <1>6, ClearFacts DEF ClearOf, at
  <2>2. QED BY <1>1, <1>2, <1>3, <2>1 DEF PlaceOf, Removes, Stops
<1>7. CASE StopClose(t)
  BY <1>1, <1>2, <1>3, <1>4, <1>7 DEF StopClose, at
<1>8. CASE StartSlot(t)
  <2>1. /\ thr[t].pc = "start" /\ thr'[t].pc = "done" /\ UNCHANGED <<env, ctx, cur>>
        /\ \A u \in Threads : u # t => thr'[u] = thr[u]
    BY <1>1, <1>8 DEF StartSlot, at, Goto, Thread
  <2>2. Os' = Os
    <3>1. thr[t].slot \in Os
      BY <1>8, OwnCall DEF StartSlot, CallerOK, at
    <3>2. QED BY <1>8, <3>1, StartStep DEF StartSlot, Os
  <2>3. QED BY <1>1, <1>3, <2>1, <2>2 DEF PlaceOf, Removes, Stops
<1>9. CASE Logout(t) \/ RemoveDir(t)
  <2>1. CASE Logout(t)
    BY <1>1, <1>3, <1>4, <2>1 DEF Logout, at
  <2>2. CASE RemoveDir(t)
    BY <1>1, <1>3, <1>4, <2>2 DEF RemoveDir, at
  <2>3. QED BY <1>9, <2>1, <2>2
<1>10. CASE RestartWaiting(t) \/ running(t) \/ needsLogin(t) \/ SaveKey(t)
  <2>1. /\ t \in Keyers /\ t \in env.keyers /\ UNCHANGED <<env, ctx, cur, slots>>
        /\ thr'[t].pc \in {"done", "running", "needsLogin", "stop", "snapshot"}
        /\ \A u \in Threads : u # t => thr'[u] = thr[u]
    BY <1>1, <1>3, <1>10 DEF RestartWaiting, running, needsLogin, SaveKey, at, Goto, Thread
  <2>2. QED BY <1>1, <2>1 DEF PlaceOf, Os
<1>11. QED BY <1>5, <1>6, <1>7, <1>8, <1>9, <1>10 DEF Continue

\* A restart comes after a look at a running slot, and nobody is let in before
\* Start.
RestartOf(t) ==
  /\ t \in Keyers /\ Restarts(t)' =>
       /\ thr'[t].slot = thr[t].slot
       /\ Restarts(t) \/ (thr[t].slot \in Os /\ slots[thr[t].slot].srv # None)
  /\ t \in Appliers => Busy(t)
  /\ at(t, "idle") => ctx # "none"

LEMMA RestartFacts ==
  ASSUME IInv, Waiters, Placed, NEW t \in Threads, Continue(t) \/ SaveKey(t)
  PROVE  RestartOf(t)
<1>1. /\ Appliers \intersect Keyers = {} /\ env.keyers \subseteq Keyers
      /\ thr[t] \in Thread /\ thr \in [Threads -> Thread] /\ CallerOK(t)
      /\ t \notin Appliers \/ t \notin Keyers
  BY OwnCall, EnvsAssumption, ThreadsAssumption DEF IInv, RestOK, CallersOK, Env
<1>2. CASE StopCancel(t)
  <2>1. Restarts(t) /\ thr'[t].slot = thr[t].slot /\ thr[t].pc = "stop"
    BY <1>1, <1>2 DEF StopCancel, at, Goto, Thread, Restarts
  <2>2. QED BY <2>1 DEF RestartOf, Busy, at
<1>3. CASE StopClear(t) \/ StopClose(t)
  <2>1. Restarts(t) /\ thr'[t].slot = thr[t].slot /\ thr[t].pc \in {"wait", "close"}
    BY <1>1, <1>3 DEF StopClear, StopClose, at, Goto, Thread, Restarts
  <2>2. QED BY <2>1 DEF RestartOf, Busy, at
<1>4. CASE StartSlot(t)
  BY <1>1, <1>4 DEF StartSlot, at, Goto, Thread, Restarts, RestartOf, Busy
<1>5. CASE Logout(t) \/ RemoveDir(t)
  <2>1. t \notin Keyers /\ thr[t].pc \in {"logout", "rmdir"}
    BY <1>5 DEF Logout, RemoveDir, at, Placed
  <2>2. QED BY <2>1 DEF RestartOf, Busy, at
<1>6. CASE RestartWaiting(t)
  BY <1>1, <1>6 DEF RestartWaiting, at, Goto, Thread, Restarts, RestartOf, Busy
<1>7. CASE running(t)
  <2>1. thr'[t].slot = thr[t].slot /\ thr[t].slot \in Os /\ thr[t].pc = "running"
        /\ thr'[t].pc = IF slots[thr[t].slot].srv # None THEN "needsLogin" ELSE "done"
    BY <1>1, <1>7 DEF running, at, Goto, Thread, CallerOK
  <2>2. QED BY <2>1 DEF Restarts, RestartOf, Busy, at
<1>8. CASE needsLogin(t)
  <2>1. thr'[t].slot = thr[t].slot /\ thr[t].pc = "needsLogin"
    BY <1>1, <1>8 DEF needsLogin, at, Goto, Thread
  <2>2. QED BY <2>1 DEF Restarts, RestartOf, Busy, at
<1>9. CASE SaveKey(t)
  <2>1. thr'[t].pc \in {"snapshot", "done"} /\ t \in Keyers /\ ctx # "none"
    BY <1>1, <1>9 DEF SaveKey, at, Goto, Thread
  <2>2. QED BY <1>1, <2>1 DEF Restarts, RestartOf, at
<1>10. QED BY <1>2, <1>3, <1>4, <1>5, <1>6, <1>7, <1>8, <1>9 DEF Continue

LEMMA PlacedStep == ASSUME IInv, Waiters, Placed, Held, [Next]_vars PROVE Placed'
<1>1. /\ Appliers \subseteq Threads /\ Keyers \subseteq Threads /\ Closer \in Threads
      /\ Closer \notin Appliers \union Keyers /\ Appliers \intersect Keyers = {}
      /\ thr \in [Threads -> Thread] /\ \A t \in Threads : CallerOK(t)
      /\ cur \in 0..Len(slots) /\ Len(slots) \in Nat
  BY ThreadsAssumption DEF IInv, RestOK, SlotsOK, CallersOK, Threads
<1>2. CASE UNCHANGED <<env, cur, thr>> /\ Os' = Os /\ (ctx = "cancelled" => ctx' = "cancelled")
  BY <1>2 DEF Placed, Removes, Stops, at
<1>3. CASE UNCHANGED vars
  BY <1>2, <1>3 DEF vars, Os
<1>4. CASE Start
  <2>1. Os' = Os
    <3>1. CASE cur = None
      BY <1>4, <3>1 DEF Start, Os
    <3>2. CASE cur # None
      BY <1>1, <1>4, <3>2, StartStep DEF Start, Os, None
    <3>3. QED BY <3>1, <3>2
  <2>2. QED BY <1>2, <1>4, <2>1 DEF Start
<1>5. CASE Interrupt
  BY <1>2, <1>5 DEF Interrupt, Os
<1>6. CASE Close
  <2>1. /\ UNCHANGED <<env, cur, ctx>> /\ Os' = Os /\ ctx = "cancelled"
        /\ thr'[Closer].pc \in {"stop", "done"} /\ \A u \in Threads : u # Closer => thr'[u] = thr[u]
    BY <1>1, <1>6 DEF Close, Os, Thread
  <2>2. QED BY <1>1, <2>1 DEF Placed, Removes, Stops, at
<1>7. ASSUME NEW t \in Threads, Continue(t) \/ SaveKey(t) PROVE Placed'
  <2>1. PlaceOf(t)
    BY <1>7, PlaceFacts
  <2>2. /\ thr'[Closer].pc \in {"idle", "stop", "wait", "close", "done"}
        /\ ctx' # "cancelled" => at(Closer, "idle")'
    BY <1>1, <2>1 DEF Placed, PlaceOf, at
  <2>3. \A u \in Keyers : /\ thr'[u].pc # "idle" => u \in env'.keyers
                          /\ thr'[u].pc \notin {"logout", "rmdir"}
    BY <1>1, <2>1 DEF Placed, PlaceOf
  <2>4. \A u \in Appliers : /\ Removes(u)' => Removes(u)
                            /\ Stops(u)' => Stops(u) /\ thr'[u].slot = thr[u].slot
                            /\ at(u, "start")' => at(u, "start") /\ thr'[u].slot = thr[u].slot
    BY <1>1, <2>1 DEF PlaceOf, Removes, Stops, at
  <2>5. QED BY <2>1, <2>2, <2>3, <2>4 DEF Placed, PlaceOf
<1>8. ASSUME NEW t \in Appliers, NEW spec \in Exits \union {NoExit}, Apply(t, spec) PROVE Placed'
  <2>1. ApplyOf(t) /\ t \in Threads /\ t # Closer /\ t \notin Keyers
    BY <1>1, <1>8, ApplyFacts
  <2>2. /\ thr'[Closer] = thr[Closer] /\ UNCHANGED <<env, ctx>>
        /\ \A u \in Keyers : thr'[u] = thr[u]
        /\ \A u \in Appliers : u # t => thr'[u] = thr[u]
    BY <1>1, <2>1 DEF ApplyOf
  <2>3. \A u \in Appliers : Stops(u) => thr[u].slot \in Os
    BY <1>1 DEF CallerOK, Stops, at
  <2>4. CASE thr'[t].pc = "done" /\ cur' = cur /\ Os' = Os
    BY <2>2, <2>4 DEF Placed, Removes, Stops, at
  <2>5. CASE /\ NoExit \in env.wants /\ Os' = Os
             /\ cur \in Os /\ cur' = None
             /\ thr'[t].pc = "logout" /\ thr'[t].slot = cur
    <3>1. \A u \in Appliers : u # t => (Stops(u)' <=> Stops(u)) /\ (Removes(u)' <=> Removes(u))
      BY <2>2 DEF Stops, Removes
    <3>2. None \notin Os
      BY DEF Os, None
    <3>3. \A u \in Appliers : Stops(u)' => thr'[u].slot # cur'
      BY <2>2, <2>3, <2>5, <3>1, <3>2
    <3>4. \A u, v \in Appliers : u # v /\ Stops(u)' /\ Stops(v)' => thr'[u].slot # thr'[v].slot
      BY <2>2, <2>5, <3>1 DEF Placed
    <3>5. env.serial => \A u \in Appliers : ~at(u, "start")'
      BY <2>1, <2>2, <2>5 DEF ApplyOf, at, Busy
    <3>6. \A u \in Appliers : Removes(u)' => NoExit \in env'.wants
      BY <2>2, <2>5
    <3>7. QED BY <2>2, <2>5, <3>3, <3>4, <3>5, <3>6 DEF Placed, at
  <2>6. CASE /\ cur = None /\ cur' \notin Os /\ Os' = Os \union {cur'}
             /\ thr'[t].pc = "start" /\ thr'[t].slot = cur'
    <3>1. \A u \in Appliers : /\ Stops(u)' => Stops(u) /\ thr'[u].slot = thr[u].slot /\ u # t
                              /\ Removes(u)' => Removes(u)
      BY <2>2, <2>6 DEF Stops, Removes
    <3>2. \A u \in Appliers : Stops(u)' => thr'[u].slot # cur'
      BY <2>3, <2>6, <3>1
    <3>3. None \notin Os
      BY DEF Os, None
    <3>4. env.serial => \A u \in Appliers : at(u, "start")' => u = t
      BY <2>1, <2>2 DEF ApplyOf, at, Busy
    <3>5. QED BY <2>2, <2>6, <3>1, <3>2, <3>3, <3>4 DEF Placed, at
  <2>7. QED BY <2>1, <2>4, <2>5, <2>6 DEF ApplyOf
<1>9. ASSUME NEW k \in 1..Len(servers), Run(k) \/ UserLogin(k) PROVE Placed'
  BY <1>2, <1>9, RunFacts DEF RunOf, Ks
<1>10. QED BY <1>3, <1>4, <1>5, <1>6, <1>7, <1>8, <1>9 DEF Next

\* A slot that gets a new server, from Manager.Start or from a caller.
StartOf(o) ==
  LET n == Len(servers) + 1 IN
  /\ UNCHANGED <<env, cur>>
  /\ slots[o].srv = None /\ ctx # "cancelled" /\ ctx' # "cancelled" /\ (ctx' = "none" => ctx = "none")
  /\ Os' = Os /\ Ks' = Ks \union {n} /\ n \notin Ks /\ n # None
  /\ \A k \in Ks : servers'[k] = servers[k]
  /\ servers'[n].slot = o /\ servers'[n].run = "start" /\ servers'[n].backend = "off"
  /\ \A p \in Os : p # o => slots'[p] = slots[p]
  /\ slots'[o].srv = n
  /\ \/ o = cur /\ thr' = thr /\ ctx = "none"
     \/ \E t \in Threads : /\ at(t, "start") /\ thr[t].slot = o /\ Observe
                           /\ thr'[t].pc = "done"
                           /\ \A u \in Threads : u # t => thr'[u] = thr[u]

\* Close begins.
CloseOf ==
  /\ UNCHANGED <<env, cur, slots, servers>> /\ ctx = "cancelled" /\ ctx' = "cancelled"
  /\ at(Closer, "idle")
  /\ (thr'[Closer].pc = "done" /\ thr'[Closer].slot = None) \/ thr'[Closer].pc = "stop"
  /\ \A u \in Threads : u # Closer => thr'[u] = thr[u]

Still ==
  UNCHANGED <<env, cur, slots, servers, thr>> /\ (ctx = "cancelled" => ctx' = "cancelled")
  /\ (ctx' = "none" => ctx = "none")

\* Every step is one of these.
LEMMA Kinds ==
  ASSUME IInv, Waiters, Placed, Held, [Next]_vars
  PROVE  \/ Still
         \/ \E k \in Ks : RunOf(k)
         \/ \E t \in Threads : PlaceOf(t) /\ RestartOf(t) /\ MoveOf(t)
         \/ \E t \in Threads : PlaceOf(t) /\ RestartOf(t) /\ ClearOf(t)
         \/ \E o \in Os : StartOf(o)
         \/ \E t \in Appliers : ApplyOf(t)
         \/ CloseOf
<1>1. thr \in [Threads -> Thread] /\ cur \in 0..Len(slots) /\ Len(slots) \in Nat /\ Closer \in Threads
      /\ \A t \in Threads : CallerOK(t)
  BY DEF IInv, RestOK, SlotsOK, CallersOK, Threads
<1>2. CASE UNCHANGED vars \/ Interrupt
  BY <1>2 DEF vars, Interrupt, Still
<1>3. CASE Start
  <2>1. CASE cur = None
    BY <1>3, <2>1 DEF Start, Still
  <2>2. CASE cur # None
    <3>1. cur \in Os /\ start(cur) /\ UNCHANGED <<env, cur, thr>> /\ ctx = "none"
      BY <1>1, <1>3, <2>2 DEF Start, Os, None
    <3>2. QED BY <3>1, StartFacts DEF Still, StartOf, Os
  <2>3. QED BY <2>1, <2>2
<1>4. CASE Close
  BY <1>1, <1>4 DEF Close, CloseOf, Thread
<1>5. ASSUME NEW t \in Threads, StartSlot(t)
      PROVE  MoveOf(t) \/ \E o \in Os : StartOf(o)
  <2>1. /\ at(t, "start") /\ thr[t].slot \in Os /\ start(thr[t].slot) /\ Observe
        /\ UNCHANGED <<env, ctx, cur>>
        /\ thr'[t].pc = "done" /\ \A u \in Threads : u # t => thr'[u] = thr[u]
    BY <1>1, <1>5 DEF StartSlot, CallerOK, at, Goto, Thread
  <2>2. CASE slots' = slots /\ servers' = servers
    BY <2>1, <2>2 DEF MoveOf, Stops, at, Ks
  <2>3. CASE ~(slots' = slots /\ servers' = servers)
    BY <2>1, <2>3, StartFacts DEF StartOf, Os
  <2>4. QED BY <2>2, <2>3
<1>6. ASSUME NEW t \in Threads, Continue(t) \/ SaveKey(t)
      PROVE  PlaceOf(t) /\ RestartOf(t) /\ (MoveOf(t) \/ ClearOf(t) \/ \E o \in Os : StartOf(o))
  BY <1>5, <1>6, PlaceFacts, RestartFacts, MoveFacts, ClearFacts DEF Continue
<1>7. ASSUME NEW t \in Appliers, NEW spec \in Exits \union {NoExit}, Apply(t, spec) PROVE ApplyOf(t)
  BY <1>7, ApplyFacts
<1>8. ASSUME NEW k \in 1..Len(servers), Run(k) \/ UserLogin(k) PROVE k \in Ks /\ RunOf(k)
  BY <1>8, RunFacts DEF Ks
<1>9. QED BY <1>2, <1>3, <1>4, <1>6, <1>7, <1>8 DEF Next

\* What every reference leads to.
LEMMA Places ==
  ASSUME IInv
  PROVE  /\ \A k \in Ks : servers[k].slot \in Os /\ k # None
         /\ \A o \in Os : slots[o].srv # None => slots[o].srv \in Ks
         /\ \A t \in Threads : /\ thr[t].pc \notin {"idle", "snapshot", "done"} => thr[t].slot \in Os
                               /\ at(t, "wait") => thr[t].srv \in Ks
                               /\ at(t, "close") => thr[t].srv \in Ks /\ servers[thr[t].srv].backend \in Started
         /\ Appliers \subseteq Threads /\ Closer \in Threads /\ Closer \notin Appliers
         /\ None \notin Os
BY ThreadsAssumption DEF IInv, ServersOK, SlotsOK, CallersOK, CallerOK, Ks, Os, None, Threads

LEMMA HeldStep == ASSUME IInv, Waiters, Placed, Held, [Next]_vars PROVE Held'
<1>1. CASE Still \/ CloseOf
  BY <1>1 DEF Still, CloseOf, Held, Ks, Os
<1>2. ASSUME NEW k \in Ks, RunOf(k) PROVE Held'
  BY <1>2, Places DEF RunOf, Held
<1>3. ASSUME NEW t \in Threads, MoveOf(t) PROVE Held'
  BY <1>3, Places DEF MoveOf, Held, Os
<1>4. ASSUME NEW t \in Threads, ClearOf(t) PROVE Held'
  BY <1>4, Places DEF ClearOf, Held, Ks
<1>5. ASSUME NEW o \in Os, StartOf(o) PROVE Held'
  BY <1>5, Places DEF StartOf, Held
<1>6. ASSUME NEW t \in Appliers, ApplyOf(t) PROVE Held'
  BY <1>6, Places DEF ApplyOf, Held, Ks
<1>7. QED BY <1>1, <1>2, <1>3, <1>4, <1>5, <1>6, Kinds

\* Before the signal no two callers are going to clear the same slot.
LEMMA OneStopper ==
  ASSUME IInv, Waiters, Placed, Orderly, ctx # "cancelled",
         NEW t \in Threads, NEW u \in Threads, t # u, Stops(t), Stops(u)
  PROVE  thr[t].slot # thr[u].slot
<1>1. /\ t \in Appliers \union Keyers /\ u \in Appliers \union Keyers
      /\ t \in Keyers => t \in env.keyers
      /\ u \in Keyers => u \in env.keyers
  BY DEF Threads, Placed, Stops, at
<1>2. CASE t \in Appliers /\ u \in Appliers
  BY <1>2 DEF Placed
<1>3. CASE t \in Keyers \/ u \in Keyers
  <2>1. Cardinality(env.keyers) = 1 /\ NoExit \notin env.wants
    BY <1>1, <1>3 DEF Orderly
  <2>2. IsFiniteSet(env.keyers)
    BY FS_Subset, ThreadsAssumption, EnvsAssumption DEF IInv, RestOK, Env
  <2>3. PICK x : env.keyers = {x}
    BY <2>1, <2>2, FS_Singleton
  <2>4. t \notin Appliers /\ u \notin Appliers
    BY <2>1 DEF Placed, Removes, Stops
  <2>5. QED BY <1>1, <2>3, <2>4
<1>4. QED BY <1>1, <1>2, <1>3

LEMMA MetStep == ASSUME IInv, Waiters, Placed, Held, Fresh, ~crossed', Met, [Next]_vars PROVE Met'
<1>1. CASE Still \/ CloseOf
  BY <1>1 DEF Still, CloseOf, Met, at
<1>2. ASSUME NEW k \in Ks, RunOf(k) PROVE Met'
  BY <1>2, Places DEF RunOf, Met, at
<1>3. ASSUME NEW t \in Threads, MoveOf(t) PROVE Met'
  <2>1. ASSUME NEW u \in Threads, at(u, "wait")', u # t
        PROVE  /\ servers'[thr'[u].srv].slot = thr'[u].slot
               /\ slots'[thr'[u].slot].srv \in {thr'[u].srv, None}
    BY <1>3, <2>1, Places DEF MoveOf, Met, at
  <2>2. ASSUME at(t, "wait")'
        PROVE  /\ servers'[thr'[t].srv].slot = thr'[t].slot
               /\ slots'[thr'[t].slot].srv = thr'[t].srv
    BY <1>3, <2>2, Places DEF MoveOf, Held, at
  <2>3. QED BY <2>1, <2>2 DEF Met
<1>4. ASSUME NEW t \in Threads, ClearOf(t) PROVE Met'
  <2>1. ASSUME NEW u \in Threads, at(u, "wait")'
        PROVE  /\ servers'[thr'[u].srv].slot = thr'[u].slot
               /\ slots'[thr'[u].slot].srv \in {thr'[u].srv, None}
    <3>1. u # t /\ thr'[u] = thr[u] /\ at(u, "wait") /\ thr[u].slot \in Os
      BY <1>4, <2>1, Places DEF ClearOf, at
    <3>2. QED BY <1>4, <3>1 DEF ClearOf, Met
  <2>2. QED BY <2>1 DEF Met
<1>5. ASSUME NEW o \in Os, StartOf(o) PROVE Met'
  <2>1. ASSUME NEW u \in Threads, at(u, "wait")'
        PROVE  /\ at(u, "wait") /\ thr'[u] = thr[u]
               /\ thr[u].slot \in Os /\ thr[u].slot # o /\ thr[u].srv \in Ks
    <3>1. at(u, "wait") /\ thr'[u] = thr[u]
      BY <1>5, <2>1 DEF StartOf, at
    <3>2. slots[o].srv = None /\ slots'[o].srv # None /\ o \in DOMAIN slots /\ (ctx = "none" \/ Observe)
      BY <1>5 DEF StartOf, IInv, SlotsOK, Os
    <3>3. thr[u].slot # o
      BY <3>1, <3>2 DEF Observe, Crosses, Fresh, at
    <3>4. thr[u].slot \in Os /\ thr[u].srv \in Ks
      BY <3>1, Places DEF at
    <3>5. QED BY <3>1, <3>3, <3>4
  <2>2. QED BY <1>5, <2>1 DEF StartOf, Met
<1>6. ASSUME NEW t \in Appliers, ApplyOf(t) PROVE Met'
  BY <1>6, Places DEF ApplyOf, Met, at
<1>7. QED BY <1>1, <1>2, <1>3, <1>4, <1>5, <1>6, Kinds

\* While removals and restarts keep apart, no slot is started that is waited for.
LEMMA OrderlyUncrossed ==
  ASSUME IInv, Waiters, Placed, Held, Waits, ~crossed, [Next]_vars
  PROVE  ~crossed'
<1>1. DOMAIN slots = Os
  BY DEF IInv, SlotsOK, Os
<1>2. ASSUME NEW o \in Os, Crosses(o) PROVE FALSE
  <2>1. PICK t \in Threads : at(t, "wait") /\ thr[t].slot = o
    BY <1>2 DEF Crosses
  <2>2. slots[o].srv = None /\ slots'[o].srv # None
    BY <1>2 DEF Crosses
  <2>3. ctx = "cancelled"
    BY <2>1, <2>2, Places DEF Waits
  <2>4. slots'[o].srv = slots[o].srv \/ slots'[o].srv = None
    BY <2>3, Kinds DEF Still, RunOf, MoveOf, ClearOf, StartOf, ApplyOf, CloseOf
  <2>5. QED BY <2>2, <2>4
<1>3. QED BY <1>1, <1>2, CrossedFacts DEF Observe

LEMMA WaitsStep == ASSUME IInv, Waiters, Placed, Held, Orderly, Waits, [Next]_vars PROVE Waits'
<1>1. CASE Still \/ CloseOf
  BY <1>1 DEF Still, CloseOf, Waits, at
<1>2. ASSUME NEW k \in Ks, RunOf(k) PROVE Waits'
  BY <1>2, Places DEF RunOf, Waits, at
<1>3. ASSUME NEW t \in Threads, MoveOf(t) PROVE Waits'
  <2>1. ASSUME NEW u \in Threads, at(u, "wait")', u # t
        PROVE  /\ servers'[thr'[u].srv].slot = thr'[u].slot
               /\ \/ slots'[thr'[u].slot].srv = thr'[u].srv
                  \/ ctx' = "cancelled" /\ slots'[thr'[u].slot].srv = None
    BY <1>3, <2>1, Places DEF MoveOf, Waits, at
  <2>2. ASSUME at(t, "wait")'
        PROVE  /\ servers'[thr'[t].srv].slot = thr'[t].slot
               /\ slots'[thr'[t].slot].srv = thr'[t].srv
    BY <1>3, <2>2, Places DEF MoveOf, Held, at
  <2>3. QED BY <2>1, <2>2 DEF Waits
<1>4. ASSUME NEW t \in Threads, ClearOf(t) PROVE Waits'
  <2>1. ASSUME NEW u \in Threads, at(u, "wait")'
        PROVE  /\ servers'[thr'[u].srv].slot = thr'[u].slot
               /\ \/ slots'[thr'[u].slot].srv = thr'[u].srv
                  \/ ctx' = "cancelled" /\ slots'[thr'[u].slot].srv = None
    <3>1. u # t /\ thr'[u] = thr[u] /\ at(u, "wait") /\ thr[u].slot \in Os
      BY <1>4, <2>1, Places DEF ClearOf, at
    <3>2. CASE thr[u].slot # thr[t].slot
      BY <1>4, <3>1, <3>2 DEF ClearOf, Waits
    <3>3. CASE thr[u].slot = thr[t].slot
      <4>1. ctx = "cancelled"
        BY <1>4, <3>1, <3>3, OneStopper DEF ClearOf, Stops, at
      <4>2. QED BY <1>4, <3>1, <3>3, <4>1 DEF ClearOf, Waits
    <3>4. QED BY <3>2, <3>3
  <2>2. QED BY <2>1 DEF Waits
<1>5. ASSUME NEW o \in Os, StartOf(o) PROVE Waits'
  <2>1. ASSUME NEW u \in Threads, at(u, "wait")'
        PROVE  /\ at(u, "wait") /\ thr'[u] = thr[u]
               /\ thr[u].slot \in Os /\ thr[u].slot # o /\ thr[u].srv \in Ks
    <3>1. at(u, "wait") /\ thr'[u] = thr[u]
      BY <1>5, <2>1 DEF StartOf, at
    <3>2. QED BY <1>5, <3>1, Places DEF StartOf, Waits
  <2>2. QED BY <1>5, <2>1 DEF StartOf, Waits
<1>6. ASSUME NEW t \in Appliers, ApplyOf(t) PROVE Waits'
  BY <1>6, Places DEF ApplyOf, Waits, at
<1>7. QED BY <1>1, <1>2, <1>3, <1>4, <1>5, <1>6, Kinds

LEMMA AccountedStep == ASSUME IInv, Waiters, Placed, Held, Met, Accounted, [Next]_vars PROVE Accounted'
<1>1. CASE Still
  BY <1>1 DEF Still, Accounted, Ended, Ks, at
<1>2. CASE CloseOf
  <2>1. \A u \in Threads : at(u, "close") => at(u, "close")' /\ thr'[u] = thr[u]
    BY <1>2 DEF CloseOf, at
  <2>2. QED BY <1>2, <2>1 DEF CloseOf, Accounted, Ended, Ks
<1>3. ASSUME NEW k \in Ks, RunOf(k) PROVE Accounted'
  <2>1. \A j \in Ks : servers'[j].slot = servers[j].slot /\ (Ended(j) => Ended(j)')
    BY <1>3 DEF RunOf, Ended, at
  <2>2. QED BY <1>3, <2>1, Places DEF RunOf, Accounted
<1>4. ASSUME NEW t \in Threads, MoveOf(t) PROVE Accounted'
  <2>1. ASSUME NEW k \in Ks, Ended(k) PROVE Ended(k)'
    <3>1. servers'[k].run = "done"
      BY <1>4, <2>1 DEF MoveOf, Ended
    <3>2. CASE servers[k].backend \in {"off", "closed"}
      BY <1>4, <3>1, <3>2 DEF MoveOf, Ended
    <3>3. ASSUME NEW u \in Threads, at(u, "close"), thr[u].srv = k PROVE Ended(k)'
      <4>1. CASE u = t
        BY <1>4, <3>1, <3>3, <4>1 DEF MoveOf, Ended
      <4>2. CASE u # t
        BY <1>4, <3>1, <3>3, <4>2 DEF MoveOf, Ended, at
      <4>3. QED BY <4>1, <4>2
    <3>4. QED BY <2>1, <3>2, <3>3 DEF Ended
  <2>2. QED BY <1>4, <2>1 DEF MoveOf, Accounted
<1>5. ASSUME NEW t \in Threads, ClearOf(t) PROVE Accounted'
  <2>1. ASSUME NEW j \in Ks, Ended(j) PROVE Ended(j)'
    BY <1>5, <2>1 DEF ClearOf, Ended, at
  <2>2. ASSUME NEW j \in Ks, slots[thr[t].slot].srv = j PROVE Ended(j)'
    <3>1. j = thr[t].srv /\ servers[j].run = "done" /\ servers[j].slot = thr[t].slot
      BY <1>5, <2>2, Places DEF ClearOf, Met
    <3>2. CASE slots[thr[t].slot].started
      <4>1. at(t, "close")' /\ thr'[t].srv = j
        BY <1>5, <2>2, <3>2 DEF ClearOf, at
      <4>2. QED BY <1>5, <3>1, <4>1 DEF ClearOf, Ended
    <3>3. CASE ~slots[thr[t].slot].started
      BY <1>5, <2>2, <3>1, <3>3 DEF ClearOf, Ended, Held
    <3>4. QED BY <3>2, <3>3
  <2>3. ASSUME NEW j \in Ks PROVE slots'[servers[j].slot].srv = j \/ Ended(j)'
    <3>1. servers[j].slot \in Os /\ j # None
      BY Places
    <3>2. CASE Ended(j)
      BY <2>1, <3>2
    <3>3. CASE ~Ended(j)
      <4>1. slots[servers[j].slot].srv = j
        BY <3>3 DEF Accounted
      <4>2. CASE servers[j].slot = thr[t].slot
        BY <2>2, <4>1, <4>2
      <4>3. CASE servers[j].slot # thr[t].slot
        BY <1>5, <3>1, <4>1, <4>3 DEF ClearOf
      <4>4. QED BY <4>2, <4>3
    <3>4. QED BY <3>2, <3>3
  <2>4. QED BY <1>5, <2>3 DEF ClearOf, Accounted, Ks
<1>6. ASSUME NEW o \in Os, StartOf(o) PROVE Accounted'
  <2>1. \A u \in Threads : at(u, "close") => at(u, "close")' /\ thr'[u] = thr[u]
    BY <1>6 DEF StartOf, at
  <2>2. \A k \in Ks : Ended(k) => Ended(k)'
    BY <1>6, <2>1 DEF StartOf, Ended
  <2>3. QED BY <1>6, <2>2, Places DEF StartOf, Accounted
<1>7. ASSUME NEW t \in Appliers, ApplyOf(t) PROVE Accounted'
  <2>1. \A u \in Threads : at(u, "close") => at(u, "close")' /\ thr'[u] = thr[u]
    BY <1>7, Places DEF ApplyOf, at
  <2>2. QED BY <1>7, <2>1, Places DEF ApplyOf, Accounted, Ended, Ks
<1>8. QED BY <1>1, <1>2, <1>3, <1>4, <1>5, <1>6, <1>7, Kinds

LEMMA LeftStep ==
  ASSUME IInv, Waiters, Placed, Held, Orderly, Left, [Next]_vars
  PROVE  Left'
<1>1. CASE Still
  BY <1>1 DEF Still, Left, Stops, Os
<1>2. CASE CloseOf
  BY <1>2, Places DEF CloseOf, Left, Stops, Os
<1>3. ASSUME NEW k \in Ks, RunOf(k) PROVE Left'
  BY <1>3 DEF RunOf, Left, Stops
<1>4. ASSUME NEW t \in Threads, PlaceOf(t), MoveOf(t) PROVE Left'
  <2>1. ASSUME env.serial, NEW o \in Os, o # cur
        PROVE  slots[o].srv = None \/ \E u \in Appliers : Stops(u)' /\ thr'[u].slot = o
    <3>1. CASE slots[o].srv = None
      BY <3>1
    <3>2. ASSUME NEW u \in Appliers, Stops(u), thr[u].slot = o, slots[o].srv # None
          PROVE  Stops(u)' /\ thr'[u].slot = o
      <4>1. CASE u = t
        BY <1>4, <3>2, <4>1 DEF MoveOf
      <4>2. CASE u # t
        BY <1>4, <3>2, <4>2, Places DEF MoveOf, Stops
      <4>3. QED BY <4>1, <4>2
    <3>3. QED BY <2>1, <3>2 DEF Left
  <2>2. ASSUME thr'[Closer].pc \in {"close", "done"}, thr'[Closer].slot # None
        PROVE  thr'[Closer].slot \in Os /\ slots[thr'[Closer].slot].srv = None
    <3>1. CASE t # Closer
      BY <1>4, <2>2, <3>1, Places DEF MoveOf, Left
    <3>2. CASE t = Closer
      <4>1. thr[t].pc \in {"stop", "wait", "close"} /\ thr'[t].pc = "done"
        BY <1>4, <2>2, <3>2 DEF PlaceOf, MoveOf, Placed
      <4>2. thr'[t].slot = thr[t].slot /\ thr[t].slot \in Os
        BY <1>4, <4>1, Places DEF MoveOf, Stops, at
      <4>3. CASE thr[t].pc = "close"
        BY <2>2, <3>2, <4>2, <4>3 DEF Left
      <4>4. CASE thr[t].pc # "close"
        BY <1>4, <3>2, <4>1, <4>2, <4>4 DEF MoveOf, Stops
      <4>5. QED BY <4>3, <4>4
    <3>3. QED BY <3>1, <3>2
  <2>3. QED BY <1>4, <2>1, <2>2 DEF PlaceOf, MoveOf, Left
<1>5. ASSUME NEW t \in Threads, ClearOf(t) PROVE Left'
  <2>1. ASSUME env.serial, NEW o \in Os, o # cur
        PROVE  slots'[o].srv = None \/ \E u \in Appliers : Stops(u)' /\ thr'[u].slot = o
    <3>1. CASE o = thr[t].slot
      BY <1>5, <3>1 DEF ClearOf
    <3>2. CASE o # thr[t].slot /\ slots[o].srv = None
      BY <1>5, <3>2 DEF ClearOf
    <3>3. ASSUME NEW u \in Appliers, Stops(u), thr[u].slot = o, o # thr[t].slot
          PROVE  Stops(u)' /\ thr'[u].slot = o
      BY <1>5, <3>3, Places DEF ClearOf, Stops
    <3>4. QED BY <2>1, <3>1, <3>2, <3>3 DEF Left
  <2>2. ASSUME thr'[Closer].pc \in {"close", "done"}, thr'[Closer].slot # None
        PROVE  thr'[Closer].slot \in Os /\ slots'[thr'[Closer].slot].srv = None
    <3>1. CASE t = Closer
      BY <1>5, <3>1 DEF ClearOf
    <3>2. CASE t # Closer
      <4>1. thr'[Closer] = thr[Closer] /\ thr[Closer].slot \in Os /\ slots[thr[Closer].slot].srv = None
        BY <1>5, <2>2, <3>2, Places DEF ClearOf, Left
      <4>2. QED BY <1>5, <4>1 DEF ClearOf
    <3>3. QED BY <3>1, <3>2
  <2>3. QED BY <1>5, <2>1, <2>2 DEF ClearOf, Left
<1>6. ASSUME NEW o \in Os, StartOf(o) PROVE Left'
  <2>1. thr'[Closer].pc = "idle"
    BY <1>6, Places DEF StartOf, Placed, at
  <2>2. env.serial => o = cur
    <3>1. ASSUME env.serial, NEW t \in Threads, at(t, "start"), thr[t].slot = o PROVE o = cur
      <4>1. CASE t \in Appliers
        BY <3>1, <4>1 DEF Placed
      <4>2. CASE t \in Keyers
        BY <3>1, <4>2 DEF Placed, Orderly, at
      <4>3. CASE t = Closer
        BY <3>1, <4>3 DEF Placed, at
      <4>4. QED BY <4>1, <4>2, <4>3 DEF Threads
    <3>2. QED BY <1>6, <3>1 DEF StartOf
  <2>3. \A u \in Threads : Stops(u) => Stops(u)' /\ thr'[u] = thr[u]
    BY <1>6 DEF StartOf, Stops, at
  <2>4. QED BY <1>6, <2>1, <2>2, <2>3, Places DEF StartOf, Left
<1>7. ASSUME NEW t \in Appliers, ApplyOf(t) PROVE Left'
  <2>1. \A u \in Threads : Stops(u) => Stops(u)' /\ thr'[u] = thr[u]
    BY <1>7 DEF ApplyOf, Stops
  <2>2. thr'[Closer] = thr[Closer]
    BY <1>7, Places DEF ApplyOf
  <2>3. thr[Closer].pc \in {"close", "done"} /\ thr[Closer].slot # None =>
          thr[Closer].slot \in Os' /\ slots'[thr[Closer].slot].srv = None
    BY <1>7 DEF ApplyOf, Left
  <2>4. ASSUME env.serial, NEW o \in Os', o # cur'
        PROVE  slots'[o].srv = None \/ \E u \in Appliers : Stops(u)' /\ thr'[u].slot = o
    <3>1. CASE o \in Os /\ o # cur
      BY <1>7, <2>1, <2>4, <3>1, Places DEF ApplyOf, Left
    <3>2. CASE o = cur \/ o \notin Os
      BY <1>7, <2>4, <3>2, Places DEF ApplyOf, Stops
    <3>3. QED BY <3>1, <3>2
  <2>5. QED BY <1>7, <2>2, <2>3, <2>4 DEF ApplyOf, Left
<1>8. QED BY <1>1, <1>2, <1>3, <1>4, <1>5, <1>6, <1>7, Kinds

LEMMA FreshStep == ASSUME IInv, Waiters, Placed, Held, Fresh, [Next]_vars PROVE Fresh'
<1>0. /\ Appliers \intersect Keyers = {} /\ Appliers \subseteq Threads /\ Keyers \subseteq Threads
      /\ Closer \notin Appliers \union Keyers
  BY ThreadsAssumption DEF Threads
<1>1. CASE Still
  BY <1>1 DEF Still, Fresh, Restarts, Busy, at, Ks
<1>2. CASE CloseOf
  BY <1>0, <1>2 DEF CloseOf, Fresh, Restarts, Busy, at, Ks
<1>3. ASSUME NEW k \in Ks, RunOf(k) PROVE Fresh'
  <2>1. \A j \in Ks : servers'[j].slot = servers[j].slot
    BY <1>3 DEF RunOf
  <2>2. QED BY <1>3, <2>1 DEF RunOf, Fresh, Restarts, Busy, at
<1>4. ASSUME NEW t \in Threads, PlaceOf(t), RestartOf(t),
             Ks' = Ks, \A j \in Ks : servers'[j].slot = servers[j].slot
      PROVE  Fresh'
  <2>1. /\ UNCHANGED <<env, ctx>>
        /\ \A u \in Threads : u # t => thr'[u] = thr[u]
        /\ ctx # "none"
    BY <1>4 DEF PlaceOf, RestartOf, Fresh
  <2>2. \A u \in Appliers : at(u, "start")' => at(u, "start") /\ thr'[u] = thr[u]
    BY <1>0, <1>4, <2>1 DEF PlaceOf, at
  <2>3. \A u \in Appliers : Busy(u)' => Busy(u)
    BY <1>0, <1>4, <2>1 DEF RestartOf, Busy
  <2>4. ASSUME NEW u \in Keyers, Restarts(u)' PROVE \E k \in Ks : servers[k].slot = thr'[u].slot
    <3>1. CASE u # t
      BY <1>0, <2>1, <2>4, <3>1 DEF Fresh, Restarts
    <3>2. CASE u = t /\ Restarts(t)
      BY <1>4, <2>4, <3>2 DEF Fresh, RestartOf
    <3>3. CASE u = t /\ thr[t].slot \in Os /\ slots[thr[t].slot].srv # None
      <4>1. slots[thr[t].slot].srv \in Ks /\ servers[slots[thr[t].slot].srv].slot = thr[t].slot
        BY <3>3, Places DEF Held
      <4>2. QED BY <1>4, <2>4, <3>3, <4>1 DEF RestartOf
    <3>4. QED BY <1>4, <2>4, <3>1, <3>2, <3>3 DEF RestartOf
  <2>5. QED BY <1>4, <2>1, <2>2, <2>3, <2>4 DEF Fresh
<1>5. ASSUME NEW t \in Threads, PlaceOf(t), RestartOf(t), MoveOf(t) PROVE Fresh'
  BY <1>4, <1>5 DEF MoveOf
<1>6. ASSUME NEW t \in Threads, PlaceOf(t), RestartOf(t), ClearOf(t) PROVE Fresh'
  BY <1>4, <1>6 DEF ClearOf, Ks
<1>7. ASSUME NEW o \in Os, StartOf(o) PROVE Fresh'
  <2> DEFINE n == Len(servers) + 1
  <2>1. /\ Ks' = Ks \union {n} /\ (\A k \in Ks : servers'[k] = servers[k]) /\ servers'[n].slot = o
        /\ env' = env
    BY <1>7 DEF StartOf
  <2>2. \A u \in Threads : thr'[u] = thr[u] \/ (thr'[u].pc = "done" /\ at(u, "start"))
    BY <1>7 DEF StartOf
  <2>3. ctx' = "none" => \A u \in Threads : at(u, "idle")'
    BY <1>7, <2>2 DEF StartOf, Fresh, at
  <2>4. ASSUME NEW u \in Appliers, at(u, "start")' PROVE thr'[u] = thr[u] /\ at(u, "start") /\ thr[u].slot # o
    <3>1. thr'[u] = thr[u] /\ at(u, "start")
      BY <1>0, <2>2, <2>4 DEF at
    <3>2. CASE thr' = thr /\ ctx = "none"
      BY <1>0, <3>1, <3>2 DEF Fresh, at
    <3>3. ASSUME NEW t \in Threads, at(t, "start"), thr[t].slot = o, thr'[t].pc = "done" PROVE thr[u].slot # o
      <4>1. u # t
        BY <2>4, <3>3 DEF at
      <4>2. CASE t \in Appliers
        BY <3>1, <3>3, <4>1, <4>2 DEF Fresh
      <4>3. CASE t \in Keyers
        BY <3>1, <3>3, <4>3 DEF Fresh, Restarts, at
      <4>4. t # Closer
        BY <3>3 DEF Placed, at
      <4>5. QED BY <4>2, <4>3, <4>4 DEF Threads
    <3>4. QED BY <1>7, <3>1, <3>2, <3>3 DEF StartOf
  <2>5. \A u \in Keyers : Restarts(u)' => Restarts(u) /\ thr'[u] = thr[u]
    BY <1>0, <2>2 DEF Restarts, at
  <2>6. \A u \in Appliers : Busy(u)' => Busy(u)
    BY <1>0, <2>2 DEF Busy, at
  <2> HIDE DEF n
  <2>7. QED BY <2>1, <2>3, <2>4, <2>5, <2>6 DEF Fresh
<1>8. ASSUME NEW t \in Appliers, ApplyOf(t) PROVE Fresh'
  <2>1. /\ UNCHANGED <<env, ctx, servers>> /\ ctx # "none" /\ Ks' = Ks
        /\ \A u \in Threads : u # t => thr'[u] = thr[u]
        /\ \A u \in Keyers : thr'[u] = thr[u]
    BY <1>0, <1>8 DEF ApplyOf, Ks
  <2>2. at(t, "start")' => thr'[t].slot \notin Os
    BY <1>8 DEF ApplyOf, at
  <2>3. \A u \in Appliers : at(u, "start") => thr[u].slot \in Os
    BY <1>0, Places DEF at
  <2>4. \A k \in Ks : servers[k].slot \in Os
    BY Places
  <2>5. env.serial => \A u \in Appliers : Busy(u)' => u = t
    BY <1>0, <1>8, <2>1 DEF ApplyOf, Busy
  <2>6. \A u, v \in Appliers : u # v /\ at(u, "start")' /\ at(v, "start")' => thr'[u].slot # thr'[v].slot
    BY <1>0, <2>1, <2>2, <2>3 DEF Fresh, at
  <2>7. \A u \in Appliers : at(u, "start")' => \A k \in Ks : servers[k].slot # thr'[u].slot
    BY <1>0, <2>1, <2>2, <2>4 DEF Fresh, at
  <2>8. QED BY <2>1, <2>5, <2>6, <2>7 DEF Fresh, Restarts
<1>9. QED BY <1>1, <1>2, <1>3, <1>5, <1>6, <1>7, <1>8, Kinds

\* A server starts to work only when no other does: those of a removed slot are
\* closed before its remover returns, those of the slot before it is started again.
LEMMA AloneStep ==
  ASSUME IInv, Waiters, Placed, Held, Fresh, Orderly, env.serial, Accounted, Left, Alone, [Next]_vars
  PROVE  Alone'
<1>0. \A k \in Ks : servers[k].backend \in {"off", "on", "login", "closed"}
  <2>1. \A k \in Ks : servers[k] \in Server
    BY OwnSlot
  <2>2. QED BY <2>1 DEF Server
<1>1. ASSUME Ks' = Ks, \A k \in Ks : Works(k)' => Works(k) PROVE Alone'
  BY <1>1 DEF Alone
<1>2. CASE Still \/ CloseOf
  BY <1>1, <1>2 DEF Still, CloseOf, Works, Ks
<1>3. ASSUME NEW k \in Ks, RunOf(k) PROVE Alone'
  BY <1>0, <1>1, <1>3 DEF RunOf, Works
<1>4. ASSUME NEW t \in Threads, MoveOf(t) PROVE Alone'
  <2>1. \A k \in Ks : /\ servers'[k].run = servers[k].run
                      /\ servers'[k].backend = "off" <=> servers[k].backend = "off"
                      /\ servers[k].backend = "closed" => servers'[k].backend = "closed"
    BY <1>4 DEF MoveOf
  <2>2. \A k \in Ks : Works(k)' => Works(k)
    BY <1>0, <2>1 DEF Works
  <2>3. QED BY <1>1, <1>4, <2>2 DEF MoveOf
<1>5. ASSUME NEW t \in Threads, ClearOf(t) PROVE Alone'
  BY <1>1, <1>5 DEF ClearOf, Works, Ks
<1>6. ASSUME NEW t \in Appliers, ApplyOf(t) PROVE Alone'
  BY <1>1, <1>6 DEF ApplyOf, Works, Ks
<1>7. ASSUME NEW o \in Os, StartOf(o) PROVE Alone'
  <2>1. ASSUME NEW j \in Ks, Works(j) PROVE FALSE
    <3>1. at(Closer, "idle") /\ slots[o].srv = None
      BY <1>7 DEF StartOf, Placed
    <3>2. ctx # "none"
      <4>1. ASSUME ctx = "none", slots[servers[j].slot].srv # j PROVE FALSE
        BY <2>1, <4>1, Places DEF Accounted, Ended, Works, Fresh, at
      <4>2. ASSUME ctx = "none", slots[servers[j].slot].srv = j PROVE FALSE
        <5>1. o = cur /\ servers[j].slot \in Os /\ j # None
          BY <1>7, <4>2, Places DEF StartOf, Fresh, at
        <5>2. servers[j].slot # cur
          BY <3>1, <4>2, <5>1
        <5>3. env.serial /\ \E t \in Appliers : Stops(t)
          BY <4>2, <5>1, <5>2 DEF Left
        <5>4. QED BY <4>2, <5>3, Places DEF Fresh, Stops, at
      <4>3. QED BY <4>1, <4>2
    <3>3. PICK t \in Threads : at(t, "start") /\ thr[t].slot = o /\ t # Closer
      BY <1>7, <3>1, <3>2 DEF StartOf, at
    <3>4. o = cur
      <4>1. CASE t \in Appliers
        BY <3>3, <4>1 DEF Placed
      <4>2. CASE t \in Keyers
        BY <3>3, <4>2 DEF Placed, Orderly, at
      <4>3. QED BY <3>3, <4>1, <4>2 DEF Threads
    <3>5. ASSUME NEW u \in Appliers, Removes(u) PROVE FALSE
      <4>1. NoExit \in env.wants /\ Busy(u)
        BY <3>5 DEF Placed, Removes, Busy
      <4>2. t \notin Keyers
        BY <3>3, <4>1 DEF Placed, Orderly, at
      <4>3. t \in Appliers /\ Busy(t)
        BY <3>3, <4>2 DEF Threads, Busy, at
      <4>4. u = t
        BY <4>1, <4>3 DEF Fresh
      <4>5. QED BY <3>3, <3>5, <4>4 DEF Removes, at
    <3>6. servers[j].slot = o /\ j # None
      <4>1. CASE NoExit \notin env.wants
        BY <3>4, <4>1, Places DEF Placed
      <4>2. CASE Ended(j)
        <5>1. PICK u \in Threads : at(u, "close") /\ thr[u].srv = j
          BY <2>1, <4>2 DEF Ended, Works
        <5>2. u \notin Appliers /\ u # Closer
          BY <3>1, <3>5, <5>1 DEF Removes, at
        <5>3. u \in Keyers
          BY <5>1, <5>2 DEF Threads
        <5>4. NoExit \notin env.wants
          BY <5>1, <5>3 DEF Placed, Orderly, at
        <5>5. QED BY <4>1, <5>4
      <4>3. CASE slots[servers[j].slot].srv = j /\ servers[j].slot # o
        <5>1. servers[j].slot \in Os /\ j # None
          BY Places
        <5>2. PICK u \in Appliers : Stops(u)
          BY <3>4, <4>3, <5>1 DEF Left
        <5>3. Removes(u)
          BY <5>2 DEF Stops, Removes
        <5>4. QED BY <3>5, <5>3
      <4>4. QED BY <4>2, <4>3, Places DEF Accounted
    <3>7. t \in Keyers /\ t \in env.keyers
      BY <3>3, <3>6 DEF Fresh, Threads, Placed, at
    <3>8. PICK u \in Threads : at(u, "close") /\ thr[u].srv = j
      BY <2>1, <3>1, <3>6 DEF Accounted, Ended, Works
    <3>9. u \in Keyers /\ u \in env.keyers /\ u # t
      BY <3>1, <3>3, <3>5, <3>8 DEF Removes, Threads, Placed, at
    <3>10. IsFiniteSet(env.keyers) /\ Cardinality(env.keyers) = 1
      BY <3>7, FS_Subset, ThreadsAssumption, EnvsAssumption DEF Orderly, IInv, RestOK, Env
    <3>11. QED BY <3>7, <3>9, <3>10, FS_Singleton
  <2>2. QED BY <1>7, <2>1 DEF StartOf, Alone, Works
<1>8. QED BY <1>2, <1>3, <1>4, <1>5, <1>6, <1>7, Kinds

LEMMA OInit == Init => OInv
<1> SUFFICES ASSUME Init PROVE OInv
  OBVIOUS
<1>1. Ks = {} /\ thr = [t \in Threads |-> idle] /\ ctx = "none" /\ Closer \in Threads
      /\ Keyers \subseteq Threads /\ Appliers \subseteq Threads
  BY DEF Init, Ks, Threads
<1>2. \A o \in Os : o = cur /\ slots[o].srv = None
  <2>1. CASE slots = <<>>
    BY <2>1 DEF Os
  <2>2. CASE cur = 1 /\ \E x \in Exits : slots = <<newSlot(x)>>
    BY <2>2 DEF Os, newSlot, None
  <2>3. QED BY <2>1, <2>2 DEF Init
<1>3. \A t \in Threads : thr[t].pc = "idle"
  BY <1>1 DEF idle
<1>4. crossed = FALSE
  BY DEF Init
<1>5. Appliers \subseteq Threads /\ Keyers \subseteq Threads
  BY DEF Threads
<1>6. Fresh /\ Alone
  BY <1>1, <1>3, <1>5 DEF Fresh, Alone, Restarts, Busy, at
<1>7. QED BY <1>1, <1>2, <1>3, <1>4, <1>6 DEF OInv, Held, Placed, Met, Waits, Accounted, Left, Removes, Stops, at

\* Servers, slots and callers stay accounted for.
LEMMA SlotsOrder == Spec => [](IInv /\ OInv)
<1> DEFINE J == IInv /\ Waiters /\ Removing /\ OInv
<1>1. Init => J
  BY Inits, OInit DEF Init, Waiters, Removing, Removes, idle
<1>2. J /\ [Next]_vars => J'
  <2> SUFFICES ASSUME J, [Next]_vars PROVE J'
    OBVIOUS
  <2>0. /\ Held /\ Placed /\ Fresh
        /\ ~crossed => Met /\ Accounted
        /\ Orderly => ~crossed /\ Waits /\ Left
        /\ Orderly /\ env.serial => Alone
    BY DEF OInv
  <2> HIDE DEF J
  <2>1. IInv /\ Waiters /\ Removing
    BY DEF J
  <2>2. /\ IInv' /\ Waiters' /\ Removing'
        /\ Held' /\ Placed'
    <3>1. IInv'
      BY <2>1, Steps
    <3>2. Waiters' /\ Removing'
      BY <2>1, RemovingStep
    <3>3. Held'
      BY <2>0, <2>1, HeldStep
    <3>4. Placed'
      BY <2>0, <2>1, PlacedStep
    <3>5. QED BY Zenon, <3>1, <3>2, <3>3, <3>4
  <2>3. env' = env
    BY ZenonT(60) DEF Next, vars, Start, Interrupt, Close, Continue, StopCancel, StopClear, StopClose, StartSlot, Logout,
       RemoveDir, RestartWaiting, running, needsLogin, SaveKey, Apply, Run, RunStart, RunMark, RunWait,
       RefreshStatus, RefreshLogin, RefreshSpec, RefreshPublish, RefreshEdit, RefreshRecord, RefreshPending,
       UserLogin
  <2>4. Orderly' => Orderly
    BY <2>3 DEF Orderly
  <2>5. Fresh'
    BY <2>0, <2>1, FreshStep
  <2>6. ASSUME ~crossed' PROVE Met' /\ Accounted'
    <3>1. Met /\ Accounted
      BY <2>0, <2>1, <2>6, Uncrossed
    <3>2. Met'
      BY <2>0, <2>1, <2>6, <3>1, MetStep
    <3>3. Accounted'
      BY <2>0, <2>1, <3>1, AccountedStep
    <3>4. QED BY <3>2, <3>3
  <2>7. ASSUME Orderly' PROVE ~crossed' /\ Waits' /\ Left'
    <3>1. Orderly /\ ~crossed /\ Waits /\ Left
      BY <2>0, <2>4, <2>7
    <3>2. ~crossed'
      BY <2>0, <2>1, <3>1, OrderlyUncrossed
    <3>3. Waits'
      BY <2>0, <2>1, <3>1, WaitsStep
    <3>4. Left'
      BY <2>0, <2>1, <3>1, LeftStep
    <3>5. QED BY <3>2, <3>3, <3>4
  <2>8. ASSUME Orderly', env'.serial PROVE Alone'
    <3>1. Orderly /\ env.serial
      BY <2>3, <2>4, <2>8
    <3>2. Accounted /\ Left /\ Alone
      BY <2>0, <3>1
    <3>3. QED BY <2>0, <2>1, <3>1, <3>2, AloneStep
  <2>9. QED BY <2>2, <2>5, <2>6, <2>7, <2>8 DEF J, OInv
<1>3. QED BY <1>1, <1>2, PTL DEF Spec

\* slot.go:136 and 151: start is a no-op on a running slot and stop waits for
\* the node.  A server that works is its slot's own, or somebody has yet to close
\* it, however callers meet, unless a slot is started while its former server is
\* waited for; and in turns no two servers work in one state directory.
THEOREM SlotsOneServer == Spec => []OneServer
<1>1. IInv /\ OInv => OneServer
  <2> SUFFICES ASSUME IInv, OInv PROVE OneServer
    OBVIOUS
  <2>1. DOMAIN servers = Ks
    BY DEF IInv, ServersOK, Ks
  <2>2. ASSUME ~crossed, NEW k \in Ks, Works(k)
        PROVE  slots[servers[k].slot].srv = k \/ Closing(k)
    BY <2>2 DEF OInv, Accounted, Ended, Works, Closing
  <2>3. Orderly /\ env.serial => Alone
    BY DEF OInv
  <2>4. QED BY <2>1, <2>2, <2>3 DEF OneServer, Alone
<1>2. QED BY <1>1, SlotsOrder, PTL

\* manager.go:134 and Close: when a removal, or Close, is over, nothing of the
\* slot runs on: its goroutines have ended, its servers are closed, or another
\* caller of stop is about to close them.
THEOREM SlotsStopsAreFinal == Spec => []StopsAreFinal
<1>1. IInv /\ OInv => StopsAreFinal
  <2> SUFFICES ASSUME IInv, OInv, Orderly, NEW k \in DOMAIN servers, Final(servers[k].slot) PROVE Ended(k)
    BY DEF StopsAreFinal, Ended, Closing
  <2>1. k \in Ks /\ k # None /\ servers[k].slot \in Os
    BY Places DEF IInv, ServersOK, Ks
  <2>2. slots[servers[k].slot].srv = None
    <3>1. CASE at(Closer, "done") /\ thr[Closer].slot = servers[k].slot
      BY <2>1, <3>1, Places DEF OInv, Left, at
    <3>2. CASE env.serial /\ servers[k].slot # cur
               /\ \A t \in Appliers : Busy(t) => thr[t].slot # servers[k].slot
      BY <2>1, <3>2 DEF OInv, Left, Stops, Busy
    <3>3. QED BY <3>1, <3>2 DEF Final
  <2>3. QED BY <2>1, <2>2 DEF OInv, Accounted
<1>2. QED BY <1>1, SlotsOrder, PTL

===============================================================================
