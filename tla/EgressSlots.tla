----------------------------- MODULE EgressSlots -----------------------------
(***************************************************************************)
(* One egress name of the Davin kernel (internal/egress): the slot behind  *)
(* it, the tsnet servers the slot starts one after the other, the          *)
(* goroutine that refreshes each of them, and the callers that start and   *)
(* stop them: Manager.Apply, SetAuthKey and Close.  Slot.mu and Manager.mu *)
(* are held for one step at a time; everything between two of their        *)
(* critical sections is open to the other goroutines.                      *)
(***************************************************************************)
EXTENDS Naturals, Sequences, FiniteSets

CONSTANTS
  Exits,     \* exit nodes of the tailnet
  NoExit,
  Appliers,  \* panel requests that reach Manager.Apply, one call each
  Keyers,    \* panel requests that reach Manager.SetAuthKey, one call each
  Envs       \* what may happen: see Env

Closer == "closer"
Threads == Appliers \union Keyers \union {Closer}

ASSUME ThreadsAssumption ==
  /\ NoExit \notin Exits
  /\ Closer \notin Appliers \union Keyers
  /\ Appliers \intersect Keyers = {}
  /\ IsFiniteSet(Appliers) /\ IsFiniteSet(Keyers)

\* The circumstances of one behaviour: the configurations Apply may be given
\* (NoExit: one without this egress), whether it may switch the exit node of a
\* running slot, whether its calls are serialised, and the rest that happens.
Env == [wants    : SUBSET (Exits \union {NoExit}),
        switches : BOOLEAN,
        serial   : BOOLEAN,
        appliers : SUBSET Appliers,
        keyers   : SUBSET Keyers,
        faults   : SUBSET {"start", "status", "edit", "offline", "logout", "save", "remove"},
        key      : BOOLEAN,     \* an auth key is saved before the start
        logins   : BOOLEAN,     \* the user may follow the login link
        closes   : BOOLEAN]     \* the daemon is stopped

ASSUME EnvsAssumption == Envs \subseteq Env

VARIABLES
  env,
  ctx,      \* Manager.ctx: "none", "up" or "cancelled"
  key,      \* Manager.authKey # ""
  cur,      \* Manager.slots[name], an index of slots, or None
  dir,      \* stateDir/tsnet/<name>: what is in it, and the exit node it prefers
  slots,    \* every Slot ever made for the name
  servers,  \* every tsnet.Server, with the goroutine Slot.run that serves it
  thr,      \* what each caller is doing
  crossed   \* history: a slot was started while a caller still waited in stop
            \* for the server it had before

vars == <<env, ctx, key, cur, dir, slots, servers, thr, crossed>>

None == 0
Started == {"on", "login", "closed"}   \* backends of a server whose Start returned nil

idle == [pc |-> "idle", slot |-> None, srv |-> None]
at(t, pc) == thr[t].pc = pc
Goto(t, pc) == thr' = [thr EXCEPT ![t].pc = pc]

newSlot(spec) == [spec |-> spec, exitID |-> NoExit, state |-> "stopped", srv |-> None, started |-> FALSE]

\* tsnet uses the key it was built with only if it is not logged in yet.
newServer(o) ==
  [slot |-> o, run |-> "start", backend |-> "off", exit |-> NoExit, keyed |-> key, cancelled |-> FALSE,
   seen |-> NoExit, spec |-> NoExit]

\* New calls Apply before there is a context: one slot, or none, and what an
\* earlier process left in the directory.
Init ==
  /\ env \in Envs
  /\ ctx = "none"
  /\ key = env.key
  /\ \/ cur = None /\ slots = <<>> /\ dir = [kind |-> "none", exit |-> NoExit]
     \/ /\ cur = 1
        /\ \E x \in Exits : slots = <<newSlot(x)>>
        /\ dir \in [kind : {"empty"}, exit : {NoExit}] \union [kind : {"node"}, exit : Exits \union {NoExit}]
  /\ servers = <<>>
  /\ thr = [t \in Threads |-> idle]
  /\ crossed = FALSE

-----------------------------------------------------------------------------
(* Slot.start and Slot.stop, called by several threads.                    *)

\* Faulty variant: the context is not looked at.
startAlways(o) ==
  IF slots[o].srv # None
  THEN UNCHANGED <<slots, servers>>
  ELSE /\ servers' = Append(servers, newServer(o))
       /\ slots' = [slots EXCEPT ![o].srv = Len(servers) + 1, ![o].started = FALSE, ![o].state = "starting"]

\* A no-op if the slot runs or its context is over.
start(o) ==
  IF slots[o].srv # None \/ ctx' = "cancelled"
  THEN UNCHANGED <<slots, servers>>
  ELSE /\ servers' = Append(servers, newServer(o))
       /\ slots' = [slots EXCEPT ![o].srv = Len(servers) + 1, ![o].started = FALSE, ![o].state = "starting"]

\* What the caller does once stop has returned.
After(t) == CASE t \in Appliers -> "rmdir" [] t \in Keyers -> "start" [] OTHER -> "done"

\* stop reads cancel and done, and cancels.
StopCancel(t) ==
  LET k == slots[thr[t].slot].srv IN
  /\ at(t, "stop")
  /\ IF k = None
     THEN Goto(t, After(t)) /\ UNCHANGED servers
     ELSE /\ servers' = [servers EXCEPT ![k].cancelled = TRUE]
          /\ thr' = [thr EXCEPT ![t].pc = "wait", ![t].srv = k]
  /\ UNCHANGED <<env, crossed, ctx, key, cur, dir, slots>>

\* Faulty variant: stop does not wait for the goroutine.
StopClearAtOnce(t) ==
  LET o == thr[t].slot
      s == slots[o] IN
  /\ at(t, "wait")
  /\ slots' = [slots EXCEPT ![o].srv = None, ![o].started = FALSE, ![o].state = "stopped"]
  /\ thr' = [thr EXCEPT ![t].pc = IF s.started THEN "close" ELSE After(t), ![t].srv = s.srv]
  /\ UNCHANGED <<env, crossed, ctx, key, cur, dir, servers>>

\* Once the goroutine it waited for has ended, stop takes whatever server the
\* slot has by then.
StopClear(t) ==
  LET o == thr[t].slot
      s == slots[o] IN
  /\ at(t, "wait")
  /\ servers[thr[t].srv].run = "done"
  /\ slots' = [slots EXCEPT ![o].srv = None, ![o].started = FALSE, ![o].state = "stopped"]
  /\ thr' = [thr EXCEPT ![t].pc = IF s.started THEN "close" ELSE After(t), ![t].srv = s.srv]
  /\ UNCHANGED <<env, crossed, ctx, key, cur, dir, servers>>

StopClose(t) ==
  /\ at(t, "close")
  /\ servers' = [servers EXCEPT ![thr[t].srv].backend = "closed"]
  /\ Goto(t, After(t))
  /\ UNCHANGED <<env, crossed, ctx, key, cur, dir, slots>>

\* The step starts slot o, which a caller of stop waits for.
Crosses(o) ==
  /\ slots[o].srv = None /\ slots'[o].srv # None
  /\ \E t \in Threads : at(t, "wait") /\ thr[t].slot = o
Observe == crossed' = (crossed \/ \E o \in DOMAIN slots : Crosses(o))

StartSlot(t) ==
  /\ at(t, "start")
  /\ Goto(t, "done")
  /\ UNCHANGED <<env, ctx, key, cur, dir>>
  /\ start(thr[t].slot)
  /\ Observe

-----------------------------------------------------------------------------
(* Manager: Start, Apply, SetAuthKey, Close.                               *)

\* Start runs before the panel serves its first request.
Start ==
  /\ ctx = "none"
  /\ ctx' = "up"
  /\ IF cur = None THEN UNCHANGED <<slots, servers>> ELSE start(cur)
  /\ UNCHANGED <<env, crossed, key, cur, dir, thr>>

\* setSpec: a slot that carried traffic stops doing so until refresh has
\* switched the exit node.
setSpec(s, spec) ==
  IF s.spec = spec THEN s
  ELSE [s EXCEPT !.spec = spec, !.exitID = NoExit,
                 !.state = IF @ \in {"ready", "offline"} THEN "pending" ELSE @]

Busy(t) == thr[t].pc \notin {"idle", "done"}

\* The critical section of Apply for a configuration that gives the egress the
\* exit node spec, or none.
Apply(t, spec) ==
  /\ ctx # "none"
  /\ t \in env.appliers
  /\ at(t, "idle")
  /\ spec \in env.wants
  /\ env.serial => \A u \in Appliers : ~Busy(u)
  /\ cur # None /\ spec # NoExit /\ ~env.switches => spec = slots[cur].spec
  /\ CASE spec = NoExit /\ cur = None ->
            Goto(t, "done") /\ UNCHANGED <<cur, dir, slots>>
       [] spec = NoExit /\ cur # None ->
            /\ cur' = None
            /\ thr' = [thr EXCEPT ![t].pc = "logout", ![t].slot = cur]
            /\ UNCHANGED <<dir, slots>>
       [] spec # NoExit /\ cur = None ->
            /\ dir' = IF dir.kind = "none" THEN [dir EXCEPT !.kind = "empty"] ELSE dir
            /\ slots' = Append(slots, newSlot(spec))
            /\ cur' = Len(slots) + 1
            /\ thr' = [thr EXCEPT ![t].pc = "start", ![t].slot = Len(slots) + 1]
       [] OTHER ->
            /\ slots' = [slots EXCEPT ![cur] = setSpec(@, spec)]
            /\ Goto(t, "done")
            /\ UNCHANGED <<cur, dir>>
  /\ UNCHANGED <<env, crossed, ctx, key, servers>>

\* A removed slot is logged out, best effort, if its server has started; then
\* it is stopped and its directory deleted.
Logout(t) ==
  LET s == slots[thr[t].slot] IN
  /\ at(t, "logout")
  /\ \/ /\ s.started
        /\ servers[s.srv].backend \in {"on", "login"}
        /\ servers' = [servers EXCEPT ![s.srv].backend = "login"]
        /\ dir' = IF dir.kind = "node" THEN [kind |-> "empty", exit |-> NoExit] ELSE dir
     \/ /\ s.started => "logout" \in env.faults \/ servers[s.srv].backend \notin {"on", "login"}
        /\ UNCHANGED <<servers, dir>>
  /\ Goto(t, "stop")
  /\ UNCHANGED <<env, crossed, ctx, key, cur, slots>>

\* A directory that cannot be removed stays; the failure is only logged.
RemoveDir(t) ==
  /\ at(t, "rmdir")
  /\ \/ dir' = [kind |-> "none", exit |-> NoExit]
     \/ "remove" \in env.faults /\ UNCHANGED dir
  /\ Goto(t, "done")
  /\ UNCHANGED <<env, crossed, ctx, key, cur, slots, servers>>

\* Faulty variant: the key is saved in its file alone.
SaveKeyUnset(t) ==
  /\ ctx # "none"
  /\ t \in env.keyers
  /\ at(t, "idle")
  /\ Goto(t, "snapshot")
  /\ UNCHANGED <<env, crossed, ctx, key, cur, dir, slots, servers>>

\* A key that cannot be written is not used, and nothing is restarted.
SaveKey(t) ==
  /\ ctx # "none"
  /\ t \in env.keyers
  /\ at(t, "idle")
  /\ \/ key' = TRUE /\ Goto(t, "snapshot")
     \/ "save" \in env.faults /\ Goto(t, "done") /\ UNCHANGED key
  /\ UNCHANGED <<env, crossed, ctx, cur, dir, slots, servers>>

\* restartWaiting: the slots of this moment are looked at one after the other.
RestartWaiting(t) ==
  /\ at(t, "snapshot")
  /\ IF cur = None THEN Goto(t, "done")
     ELSE thr' = [thr EXCEPT ![t].pc = "running", ![t].slot = cur]
  /\ UNCHANGED <<env, crossed, ctx, key, cur, dir, slots, servers>>

running(t) ==
  /\ at(t, "running")
  /\ Goto(t, IF slots[thr[t].slot].srv # None THEN "needsLogin" ELSE "done")
  /\ UNCHANGED <<env, crossed, ctx, key, cur, dir, slots, servers>>

needsLogin(t) ==
  /\ at(t, "needsLogin")
  /\ Goto(t, IF slots[thr[t].slot].state = "needs_login" THEN "stop" ELSE "done")
  /\ UNCHANGED <<env, crossed, ctx, key, cur, dir, slots, servers>>

\* The signal cancels the context that Manager.ctx descends from.
Interrupt ==
  /\ env.closes
  /\ ctx = "up"
  /\ ctx' = "cancelled"
  /\ UNCHANGED <<env, crossed, key, cur, dir, slots, servers, thr>>

Close ==
  /\ ctx = "cancelled"
  /\ at(Closer, "idle")
  /\ thr' = [thr EXCEPT ![Closer] = [@ EXCEPT !.pc = IF cur = None THEN "done" ELSE "stop", !.slot = cur]]
  /\ UNCHANGED <<env, crossed, ctx, key, cur, dir, slots, servers>>

-----------------------------------------------------------------------------
(* Slot.run, one goroutine for each server.                                *)

on(k, pc) == servers[k].run = pc
Over(k) == servers[k].cancelled \/ ctx = "cancelled"
run(k, pc) == servers' = [servers EXCEPT ![k].run = pc]
state(k, s) == slots' = [slots EXCEPT ![servers[k].slot].state = s]
\* refresh returns; what it read is gone.
Wait(k) == servers' = [servers EXCEPT ![k].run = "wait", ![k].spec = NoExit]

\* srv.Start: the node is logged in if its directory says so or it has a key.
RunStart(k) ==
  LET known == dir.kind = "node" IN
  /\ on(k, "start")
  /\ \/ /\ servers' = [servers EXCEPT ![k].run = "mark",
                                      ![k].backend = IF known \/ servers[k].keyed THEN "on" ELSE "login",
                                      ![k].exit = IF known THEN dir.exit ELSE NoExit]
        /\ dir' = IF servers[k].keyed /\ ~known THEN [kind |-> "node", exit |-> NoExit]
                  ELSE IF dir.kind = "none" THEN [dir EXCEPT !.kind = "empty"] ELSE dir
        /\ UNCHANGED slots
     \/ /\ "start" \in env.faults
        /\ run(k, "done")
        /\ state(k, "error")
        /\ UNCHANGED dir
  /\ UNCHANGED <<env, crossed, ctx, key, cur, thr>>

RunMark(k) ==
  /\ on(k, "mark")
  /\ slots' = [slots EXCEPT ![servers[k].slot].started = @ \/ slots[servers[k].slot].srv = k]
  /\ run(k, "status")
  /\ UNCHANGED <<env, crossed, ctx, key, cur, dir, thr>>

\* lc.Status may fail, and fails for a closed server or a cancelled context;
\* it says whether the node is logged in and which exit node it uses.
RefreshStatus(k) ==
  LET s == servers[k] IN
  /\ on(k, "status")
  /\ \/ /\ Over(k)
        /\ Wait(k)
        /\ UNCHANGED slots
     \/ /\ s.backend = "closed" \/ "status" \in env.faults
        /\ ~Over(k)
        /\ Wait(k)
        /\ state(k, "error")
     \/ /\ s.backend = "login"
        /\ run(k, "login")
        /\ UNCHANGED slots
     \/ /\ s.backend = "on"
        /\ servers' = [servers EXCEPT ![k].run = "spec", ![k].seen = s.exit]
        /\ UNCHANGED slots
  /\ UNCHANGED <<env, crossed, ctx, key, cur, dir, thr>>

RefreshLogin(k) ==
  /\ on(k, "login")
  /\ Wait(k)
  /\ state(k, "needs_login")
  /\ UNCHANGED <<env, crossed, ctx, key, cur, dir, thr>>

\* The configuration as it is now; the server as it was when asked.
RefreshSpec(k) ==
  LET s == slots[servers[k].slot] IN
  /\ on(k, "spec")
  /\ servers' = [servers EXCEPT ![k].run = IF s.exitID # NoExit /\ servers[k].seen = s.exitID THEN "publish" ELSE "edit",
                                ![k].seen = NoExit, ![k].spec = s.spec]
  /\ UNCHANGED <<env, crossed, ctx, key, cur, dir, slots, thr>>

RefreshPublish(k) ==
  /\ on(k, "publish")
  /\ Wait(k)
  /\ \/ state(k, "ready")
     \/ "offline" \in env.faults /\ state(k, "offline")
  /\ UNCHANGED <<env, crossed, ctx, key, cur, dir, thr>>

\* findExitNode and EditPrefs: the server switches, and remembers it.
RefreshEdit(k) ==
  LET x == servers[k].spec IN
  /\ on(k, "edit")
  /\ \/ /\ servers[k].backend # "closed"
        /\ servers' = [servers EXCEPT ![k].run = "record", ![k].exit = x]
        /\ dir' = IF dir.kind = "node" THEN [dir EXCEPT !.exit = x] ELSE dir
     \/ /\ Over(k) \/ "edit" \in env.faults \/ servers[k].backend = "closed"
        /\ run(k, "pending")
        /\ UNCHANGED dir
  /\ UNCHANGED <<env, crossed, ctx, key, cur, slots, thr>>

\* Faulty variant: the exit node is recorded although the slot was switched.
RefreshRecordAny(k) ==
  /\ on(k, "record")
  /\ slots' = [slots EXCEPT ![servers[k].slot].exitID = servers[k].spec]
  /\ run(k, "pending")
  /\ UNCHANGED <<env, crossed, ctx, key, cur, dir, thr>>

RefreshRecord(k) ==
  LET s == slots[servers[k].slot] IN
  /\ on(k, "record")
  /\ slots' = [slots EXCEPT ![servers[k].slot].exitID = IF s.spec = servers[k].spec THEN s.spec ELSE @]
  /\ run(k, "pending")
  /\ UNCHANGED <<env, crossed, ctx, key, cur, dir, thr>>

RefreshPending(k) ==
  /\ on(k, "pending")
  /\ Wait(k)
  /\ state(k, "pending")
  /\ UNCHANGED <<env, crossed, ctx, key, cur, dir, thr>>

\* Three seconds later, or the end.
RunWait(k) ==
  /\ on(k, "wait")
  /\ run(k, IF Over(k) THEN "done" ELSE "status")
  /\ UNCHANGED <<env, crossed, ctx, key, cur, dir, slots, thr>>

\* The user follows the login link, or a keyed node that was logged out.
UserLogin(k) ==
  /\ env.logins
  /\ servers[k].backend = "login"
  /\ servers' = [servers EXCEPT ![k].backend = "on"]
  /\ dir' = IF dir.kind = "none" THEN dir ELSE [dir EXCEPT !.kind = "node"]
  /\ UNCHANGED <<env, crossed, ctx, key, cur, slots, thr>>

Run(k) == \/ RunStart(k) \/ RunMark(k) \/ RunWait(k)
          \/ RefreshStatus(k) \/ RefreshLogin(k) \/ RefreshSpec(k) \/ RefreshPublish(k)
          \/ RefreshEdit(k) \/ RefreshRecord(k) \/ RefreshPending(k)

\* What a caller does once it has been let in.
Continue(t) == \/ StopCancel(t) \/ StopClear(t) \/ StopClose(t) \/ StartSlot(t)
               \/ Logout(t) \/ RemoveDir(t)
               \/ RestartWaiting(t) \/ running(t) \/ needsLogin(t)

Next ==
  \/ Start \/ Interrupt \/ Close
  \/ \E t \in Threads : Continue(t) \/ SaveKey(t)
  \/ \E t \in Appliers, spec \in Exits \union {NoExit} : Apply(t, spec)
  \/ \E k \in 1..Len(servers) : Run(k) \/ UserLogin(k)

Spec == Init /\ [][Next]_vars

\* Goroutines are scheduled, Start is called and Close follows the signal; no
\* request, login, failure or signal has to come.
MaxServers == 1 + Cardinality(Appliers) + Cardinality(Keyers)
Fairness ==
  /\ WF_vars(Start)
  /\ WF_vars(Close)
  /\ \A t \in Threads : WF_vars(Continue(t))
  /\ \A k \in 1..MaxServers : WF_vars(k \in 1..Len(servers) /\ Run(k))

LiveSpec == Spec /\ Fairness

-----------------------------------------------------------------------------
(* Properties                                                              *)

Server == [slot : Nat, run : {"start", "mark", "status", "login", "spec", "publish", "edit", "record", "pending", "wait", "done"},
           backend : {"off", "on", "login", "closed"}, exit : Exits \union {NoExit}, keyed : BOOLEAN, cancelled : BOOLEAN,
           seen : Exits \union {NoExit}, spec : Exits \union {NoExit}]
Slot == [spec : Exits, exitID : Exits \union {NoExit},
         state : {"stopped", "starting", "needs_login", "pending", "offline", "ready", "error"},
         srv : Nat, started : BOOLEAN]

\* Every variable has its type, and every reference leads somewhere.
TypeOK ==
  /\ env \in Envs
  /\ ctx \in {"none", "up", "cancelled"}
  /\ key \in BOOLEAN
  /\ cur \in 0..Len(slots)
  /\ dir \in [kind : {"none", "empty", "node"}, exit : Exits \union {NoExit}]
  /\ slots \in Seq(Slot)
  /\ servers \in Seq(Server)
  /\ \A o \in DOMAIN slots : slots[o].srv \in 0..Len(servers)
  /\ \A k \in DOMAIN servers : servers[k].slot \in DOMAIN slots
  /\ thr \in [Threads -> [pc : {"idle", "start", "stop", "wait", "close", "logout", "rmdir",
                                "snapshot", "running", "needsLogin", "done"}, slot : Nat, srv : Nat]]
  /\ crossed \in BOOLEAN

\* No two threads can stop a slot with a start between them: nothing restarts
\* slots, or one thread does and none removes them.
Orderly == env.keyers = {} \/ (Cardinality(env.keyers) = 1 /\ NoExit \notin env.wants)

\* A server works while its goroutine runs or tsnet has it open.
Works(k) == servers[k].run # "done" \/ servers[k].backend \in {"on", "login"}
Closing(k) == \E t \in Threads : at(t, "close") /\ thr[t].srv = k

\* start "is a no-op if the slot is already running", and stop waits for the
\* node (slot.go:136, 151).  So a server that works is the one its slot names,
\* or a caller of stop has yet to close it, whatever removals, restarts and Close
\* meet, as long as no slot is started while somebody still waits in stop for
\* its former server.  And while requests take turns, and nothing restarts what
\* another removes, one server at most works in the state directory.
OneServer ==
  /\ ~crossed => \A k \in DOMAIN servers :
       Works(k) => slots[servers[k].slot].srv = k \/ Closing(k)
  /\ Orderly /\ env.serial => \A j, k \in DOMAIN servers : Works(j) /\ Works(k) => j = k

\* "tsnet.Server.Close panics otherwise" (slot.go:53): stop closes only servers
\* whose Start has succeeded, whatever the threads do.
CloseOnlyStarted ==
  \A t \in Threads : at(t, "close") => servers[thr[t].srv].backend \in Started

\* "Removed slots are stopped" (manager.go:134), and Close "stops all nodes":
\* once no request works on a removed slot, and once Close is over, the slot's
\* goroutines have ended and its servers are closed, or are being closed by
\* another caller of stop.
Final(o) ==
  \/ env.serial /\ o # cur /\ \A t \in Appliers : Busy(t) => thr[t].slot # o
  \/ at(Closer, "done") /\ thr[Closer].slot = o
StopsAreFinal ==
  Orderly => \A k \in DOMAIN servers :
    Final(servers[k].slot) =>
      /\ servers[k].run = "done"
      /\ servers[k].backend \in {"off", "closed"} \/ Closing(k)

\* DESIGN 4.4, slot.go:38: a slot is pinned to one exit node.  The same when
\* its exit node may be switched: what is ready uses the new one.
PinnedWhenReady ==
  \A o \in DOMAIN slots :
    slots[o].state = "ready" => slots[o].srv # None /\ servers[slots[o].srv].exit = slots[o].spec

\* manager.go:70: a node's state is kept, "so it stays the same tailnet device
\* across restarts": it goes only with a removal, while the name has no slot.
KeepsDevice ==
  [][Orderly /\ env.serial /\ dir.kind = "node" /\ dir'.kind # "node"
       => cur = None /\ \E t \in env.appliers : thr[t].pc \in {"logout", "rmdir"}]_vars

\* With an auth key, and with nothing failing, a configured slot ends up ready
\* and on the exit node it was last given.
EventuallyPinned ==
  <>[](env.key /\ ~env.closes /\ env.faults = {} /\ env.keyers = {} /\ cur # None =>
         /\ slots[cur].state = "ready"
         /\ slots[cur].srv # None
         /\ servers[slots[cur].srv].exit = slots[cur].spec)

\* SetAuthKey "restarts every node still waiting for login, so they register
\* with it" (manager.go:580): one that shows as waiting gets the key.
Registers == /\ cur # None /\ slots[cur].srv # None
             /\ servers[slots[cur].srv].keyed \/ servers[slots[cur].srv].backend = "on"
KeyReachesWaiting ==
  \A t \in Keyers :
    (/\ Orderly /\ env.appliers = {} /\ ~env.closes /\ env.faults = {}
     /\ at(t, "snapshot") /\ cur # None /\ slots[cur].state = "needs_login")
    ~> Registers
=============================================================================
