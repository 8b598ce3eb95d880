------------------------------ MODULE Capture ------------------------------
(***************************************************************************)
(* Transparent capture with nftables in the scope "selective"              *)
(* (cmd/tailproxy/capture.go, internal/capture): what the kernel diverts   *)
(* into tailproxy, and everything it has to follow: the routing rules,     *)
(* the addresses learned for the names they route (internal/iplearn),      *)
(* which come from DNS answers (internal/dnsserver) and from resolving the *)
(* hosts of the rules, and the block lists of public DoH resolvers         *)
(* (internal/antibypass).  Goroutines: the loop of Serve, one per DNS      *)
(* query, preResolve, refreshDoH, the panel, and main, which tears down.   *)
(***************************************************************************)
EXTENDS RuleEngine, FiniteSets

CONSTANTS
  Engines,     \* engines that the panel may have compiled ...
  RulesOf,     \* ... and their rules
  BlockLists,  \* the lists a download may bring: sets of names
  ApplyEvery,  \* ticks between two changes for learned addresses alone
  Envs,
  None

ASSUME CaptureAssumption ==
  /\ \A e \in Engines : RulesOf[e] \in Seq(Rule) /\ Accepted(RulesOf[e])
  /\ \A list \in BlockLists : list \subseteq Names
  /\ ApplyEvery \in Nat

\* The circumstances of one behaviour: the rules in use and those that may
\* replace them, and how often; where addresses come from, how many the
\* table keeps (maxEntries) and how often one is new to it (a bound of the
\* runs); whether DNS gives out FakeIPs; the lists; what may fail and how
\* often; whether the daemon ends, and how often it is started again.
Env == [engines : SUBSET Engines, edits : Nat,
        sources : SUBSET {"dns", "hosts"}, entries : Nat, news : Nat,
        fakeip : BOOLEAN, lists : SUBSET BlockLists,
        faults : SUBSET {"install", "cache", "kill"}, failures : Nat,
        ends : BOOLEAN, starts : Nat]

ASSUME EnvsAssumption == Envs \subseteq Env

VARIABLES
  env,       \* the circumstances, chosen once; counts what is left of them
  phase,     \* of the process
  engine,    \* the rules in use (panel.Server.Engine)
  asking,    \* names of DNS queries that are being forwarded
  hosts,     \* what is left of a round of preResolve
  learned,   \* iplearn.Table.m: address -> [name, fresh], or None
  gen,       \* iplearn.Table.gen
  lists,     \* antibypass.Lists
  fetch,     \* where refreshDoH is
  dirty,     \* captureRuntime.dohDirty
  loop,      \* where Serve's loop, or apply, is
  job,       \* locals of apply
  ticks,     \* ticks since learnApplied, up to ApplyEvery
  applied,   \* captureRuntime.applied
  appliedGen,\* captureRuntime.learnGen
  judged,    \* the rules by which apply last chose the learned addresses
  table,     \* the kernel's nft table
  routing    \* the policy routing that delivers what the table marks

dnsVars == <<asking, hosts, learned, gen>>
listVars == <<lists, fetch, dirty>>
loopVars == <<loop, job, ticks, applied, appliedGen, judged>>
kernelVars == <<table, routing>>
vars == <<env, phase, engine, dnsVars, listVars, loopVars, kernelVars>>

Entry == [name : Names, fresh : BOOLEAN]
Table == [prefixes : SUBSET SUBSET Addrs, addrs : SUBSET Addrs, lists : SUBSET Names]
Job == [prefixes : SUBSET SUBSET Addrs, addrs : SUBSET Addrs, lists : SUBSET Names,
        gen : Nat, engine : Engines]

ASSUME NoneAssumption == None \notin Entry /\ None \notin Table

\* The kernel diverts a packet to this real address (FakeIPs are diverted
\* whenever there is a table).
Captured(a) ==
  /\ routing /\ table # None
  /\ a \in table.addrs \/ \E p \in table.prefixes : a \in p

\* Table.evictExpired, and what Addrs keeps of the result.
Swept == [a \in Addrs |-> IF learned[a] # None /\ ~learned[a].fresh THEN None ELSE learned[a]]
Routed(e) == {a \in Addrs : Swept[a] # None /\ DomainMayRoute(RulesOf[e], Swept[a].name)}
Full(t) == Cardinality({a \in Addrs : t[a] # None}) >= env.entries

Fails(kind) == kind \in env.faults /\ env.failures > 0
Spend == env' = [env EXCEPT !.failures = @ - 1]

\* setupCapture has run: the rules are installed, no name is known.
Init ==
  /\ env \in Envs
  /\ phase = "up"
  /\ engine \in env.engines
  /\ asking = {} /\ hosts = {}
  /\ learned = [a \in Addrs |-> None] /\ gen = 0
  /\ lists \in env.lists /\ fetch = "idle" /\ dirty = FALSE
  /\ loop = "wait" /\ ticks = 0
  /\ applied = RoutedPrefixes(RulesOf[engine]) /\ appliedGen = 0 /\ judged = engine
  /\ job = None
  /\ table = [prefixes |-> applied, addrs |-> {}, lists |-> lists]
  /\ routing = TRUE

-----------------------------------------------------------------------------
(* The panel replaces the rules: a save or a reload swaps the engine.      *)

EditRules(e) ==
  /\ phase = "up" /\ env.edits > 0
  /\ e \in env.engines \ {engine}
  /\ engine' = e
  /\ env' = [env EXCEPT !.edits = @ - 1]
  /\ UNCHANGED <<phase, dnsVars, listVars, loopVars, kernelVars>>

-----------------------------------------------------------------------------
(* Names and their addresses.  What ends with the context of the process   *)
(* is left out once it is cancelled: nothing reads it any more.            *)

\* Server.handle for a query of addresses: refused if the name is a DoH
\* resolver's, answered with a FakeIP if the name may route, else forwarded.
\* The first two change nothing here.
Forward(name) ==
  /\ phase = "up" /\ "dns" \in env.sources
  /\ name \notin lists /\ name \notin asking
  /\ ~(env.fakeip /\ DomainMayRoute(RulesOf[engine], name))
  /\ asking' = asking \union {name}
  /\ UNCHANGED <<env, phase, engine, hosts, learned, gen, listVars, loopVars, kernelVars>>

\* Table.Add of one address.
Add(name, a) ==
  LET room == IF learned[a] = None /\ Full(learned) THEN Swept ELSE learned
  IN IF learned[a] = None /\ Full(room)
     THEN learned' = room /\ UNCHANGED gen
     ELSE /\ learned' = [room EXCEPT ![a] = [name |-> name, fresh |-> TRUE]]
          /\ gen' = IF learned[a] = None \/ learned[a].name # name THEN gen + 1 ELSE gen

\* The upstream has answered: the rules of now decide whether the address is
\* learned.  An answer of several addresses is one query for each of them.
Answer(name, a) ==
  /\ phase = "up" /\ name \in asking /\ gen < env.news
  /\ asking' = asking \ {name}
  /\ IF DomainMayRoute(RulesOf[engine], name) THEN Add(name, a) ELSE UNCHANGED <<learned, gen>>
  /\ UNCHANGED <<env, phase, engine, hosts, listVars, loopVars, kernelVars>>

AnswerFails(name) ==
  /\ phase = "up" /\ name \in asking
  /\ asking' = asking \ {name}
  /\ UNCHANGED <<env, phase, engine, hosts, learned, gen, listVars, loopVars, kernelVars>>

\* preResolve starts a round with the hosts of the rules of now ...
StartRound ==
  /\ phase = "up" /\ "hosts" \in env.sources /\ hosts = {}
  /\ hosts' = RoutedHosts(RulesOf[engine])
  /\ UNCHANGED <<env, phase, engine, asking, learned, gen, listVars, loopVars, kernelVars>>

\* ... and adds what each resolves to, whatever the rules have become.
Resolve(host, a) ==
  /\ phase = "up" /\ host \in hosts /\ gen < env.news
  /\ hosts' = hosts \ {host}
  /\ Add(host, a)
  /\ UNCHANGED <<env, phase, engine, asking, listVars, loopVars, kernelVars>>

ResolveFails(host) ==
  /\ phase = "up" /\ host \in hosts
  /\ hosts' = hosts \ {host}
  /\ UNCHANGED <<env, phase, engine, asking, learned, gen, listVars, loopVars, kernelVars>>

\* The lifetime of an entry ends; Addrs and a full table remove it later.
Expire(a) ==
  /\ phase = "up" /\ learned[a] # None /\ learned[a].fresh
  /\ learned' = [learned EXCEPT ![a].fresh = FALSE]
  /\ UNCHANGED <<env, phase, engine, asking, hosts, gen, listVars, loopVars, kernelVars>>

-----------------------------------------------------------------------------
(* refreshDoH: Lists.Update replaces the lists, then writes the cache;     *)
(* dohDirty is set only when both succeeded.                               *)

SetLists(list) ==
  /\ phase = "up" /\ fetch = "idle" /\ list \in env.lists
  /\ lists' = list /\ fetch' = "cache"
  /\ UNCHANGED <<env, phase, engine, dirty, dnsVars, loopVars, kernelVars>>

Announce ==
  /\ phase = "up" /\ fetch = "cache"
  /\ dirty' = TRUE /\ fetch' = "idle"
  /\ UNCHANGED <<env, phase, engine, lists, dnsVars, loopVars, kernelVars>>

CacheFails ==
  /\ phase = "up" /\ fetch = "cache" /\ Fails("cache") /\ Spend
  /\ fetch' = "idle"
  /\ UNCHANGED <<phase, engine, lists, dirty, dnsVars, loopVars, kernelVars>>

-----------------------------------------------------------------------------
(* The loop of Serve, and apply.                                           *)

Alive == phase \in {"up", "stopping", "closing", "closed"}

\* The rules' prefixes differ from those applied, or the lists changed.  The
\* flag is not looked at, and stays, when the prefixes differ.
Changed == applied # RoutedPrefixes(RulesOf[engine]) \/ dirty

\* learnChanged
LearnChanged == gen # appliedGen /\ ticks >= ApplyEvery

\* One tick: `select` may still choose the ticker after the context is done.
Tick ==
  /\ Alive /\ loop = "wait"
  /\ ticks' = IF ticks < ApplyEvery THEN ticks + 1 ELSE ticks
  /\ dirty' = (dirty /\ applied # RoutedPrefixes(RulesOf[engine]))
  /\ learned' = IF Changed THEN learned ELSE Swept
  /\ loop' = IF Changed \/ LearnChanged THEN "rules" ELSE "wait"
  /\ UNCHANGED <<env, phase, engine, asking, hosts, gen, lists, fetch,
                 job, applied, appliedGen, judged, kernelVars>>

ReadRules ==
  /\ Alive /\ loop = "rules"
  /\ job' = [prefixes |-> RoutedPrefixes(RulesOf[engine]), lists |-> lists,
             addrs |-> {}, gen |-> 0, engine |-> engine]
  /\ loop' = "names"
  /\ UNCHANGED <<env, phase, engine, dnsVars, listVars, ticks, applied, appliedGen, judged, kernelVars>>

\* The rules are read a second time, for the names ...
ReadRulesAgain ==
  /\ Alive /\ loop = "names"
  /\ job' = [job EXCEPT !.engine = engine]
  /\ loop' = "addrs"
  /\ UNCHANGED <<env, phase, engine, dnsVars, listVars, ticks, applied, appliedGen, judged, kernelVars>>

\* ... and Table.Addrs takes the entries and the generation under one lock.
ReadNames ==
  /\ Alive /\ loop = "addrs"
  /\ job' = [job EXCEPT !.addrs = Routed(job.engine), !.gen = gen]
  /\ learned' = Swept
  /\ loop' = "routing"
  /\ UNCHANGED <<env, phase, engine, asking, hosts, gen, listVars, ticks, applied, appliedGen, judged, kernelVars>>

\* Setup: the policy routing, then the whole table in one transaction.
AddRouting ==
  /\ Alive /\ loop = "routing"
  /\ routing' = TRUE
  /\ loop' = "table"
  /\ UNCHANGED <<env, phase, engine, dnsVars, listVars, job, ticks, applied, appliedGen, judged, table>>

\* Faulty variant of ReplaceTable: the generation is read after the table.
ReplaceTableLate ==
  /\ Alive /\ loop = "table"
  /\ table' = [prefixes |-> job.prefixes, addrs |-> job.addrs, lists |-> job.lists]
  /\ applied' = job.prefixes /\ appliedGen' = gen /\ judged' = job.engine
  /\ ticks' = 0
  /\ loop' = "wait" /\ job' = None
  /\ UNCHANGED <<env, phase, engine, dnsVars, listVars, routing>>

\* Faulty variant of ReplaceTable: the flag is cleared when all is done.
ReplaceTableClears ==
  /\ Alive /\ loop = "table"
  /\ table' = [prefixes |-> job.prefixes, addrs |-> job.addrs, lists |-> job.lists]
  /\ applied' = job.prefixes /\ appliedGen' = job.gen /\ judged' = job.engine
  /\ ticks' = 0 /\ dirty' = FALSE
  /\ loop' = "wait" /\ job' = None
  /\ UNCHANGED <<env, phase, engine, dnsVars, lists, fetch, routing>>

ReplaceTable ==
  /\ Alive /\ loop = "table"
  /\ table' = [prefixes |-> job.prefixes, addrs |-> job.addrs, lists |-> job.lists]
  /\ applied' = job.prefixes /\ appliedGen' = job.gen /\ judged' = job.engine
  /\ ticks' = 0
  /\ loop' = "wait" /\ job' = None
  /\ UNCHANGED <<env, phase, engine, dnsVars, listVars, routing>>

\* Faulty variant of SetupFails: what was asked for counts as applied.
SetupFailsMarked ==
  /\ Alive /\ loop \in {"routing", "table"} /\ Fails("install") /\ Spend
  /\ applied' = job.prefixes
  /\ loop' = "wait" /\ job' = None
  /\ UNCHANGED <<phase, engine, dnsVars, listVars, ticks, appliedGen, judged, kernelVars>>

\* Either call fails: the loop only logs it.
SetupFails ==
  /\ Alive /\ loop \in {"routing", "table"} /\ Fails("install") /\ Spend
  /\ loop' = "wait" /\ job' = None
  /\ UNCHANGED <<phase, engine, dnsVars, listVars, ticks, applied, appliedGen, judged, kernelVars>>

LoopEnds ==
  /\ phase \in {"stopping", "closing", "closed"} /\ loop = "wait"
  /\ loop' = "done"
  /\ UNCHANGED <<env, phase, engine, dnsVars, listVars, job, ticks, applied, appliedGen, judged, kernelVars>>

-----------------------------------------------------------------------------
(* The process.  cmdRun closes the capture when the panel has stopped, and *)
(* does not wait for the loop.                                             *)

Stop ==
  /\ phase = "up" /\ env.ends
  /\ phase' = "stopping"
  /\ UNCHANGED <<env, engine, dnsVars, listVars, loopVars, kernelVars>>

\* Teardown: the table, then the routing.
RemoveTable ==
  /\ phase = "stopping"
  /\ phase' = "closing" /\ table' = None
  /\ UNCHANGED <<env, engine, dnsVars, listVars, loopVars, routing>>

RemoveRouting ==
  /\ phase = "closing"
  /\ phase' = "closed" /\ routing' = FALSE
  /\ UNCHANGED <<env, engine, dnsVars, listVars, loopVars, table>>

Exit ==
  /\ phase = "closed"
  /\ phase' = "off"
  /\ UNCHANGED <<env, engine, dnsVars, listVars, loopVars, kernelVars>>

Kill ==
  /\ Alive /\ Fails("kill") /\ Spend
  /\ phase' = "killed"
  /\ UNCHANGED <<engine, dnsVars, listVars, loopVars, kernelVars>>

Gone == phase \in {"off", "killed"}

\* `tailproxy capture down`, run after the daemon (ExecStopPost).
CaptureDown ==
  /\ Gone /\ (table # None \/ routing)
  /\ table' = None /\ routing' = FALSE
  /\ UNCHANGED <<env, phase, engine, dnsVars, listVars, loopVars>>

\* setupCapture: Teardown removes what a crash left, LoadCache restores the
\* lists, apply installs the rules; it runs alone.
Start ==
  /\ Gone /\ env.starts > 0
  /\ env' = [env EXCEPT !.starts = @ - 1]
  /\ phase' = "up"
  /\ asking' = {} /\ hosts' = {}
  /\ learned' = [a \in Addrs |-> None] /\ gen' = 0
  /\ lists' \in env.lists /\ fetch' = "idle" /\ dirty' = FALSE
  /\ loop' = "wait" /\ job' = None /\ ticks' = 0
  /\ applied' = RoutedPrefixes(RulesOf[engine]) /\ appliedGen' = 0 /\ judged' = engine
  /\ table' = [prefixes |-> applied', addrs |-> {}, lists |-> lists']
  /\ routing' = TRUE
  /\ UNCHANGED engine

\* apply fails at the start: setupCapture closes again what there is.
StartFails ==
  /\ Gone /\ env.starts > 0 /\ Fails("install")
  /\ env' = [env EXCEPT !.starts = @ - 1, !.failures = @ - 1]
  /\ table' = None /\ routing' = FALSE
  /\ UNCHANGED <<phase, engine, dnsVars, listVars, loopVars>>

LoopWorks == Tick \/ ReadRules \/ ReadRulesAgain \/ ReadNames \/ AddRouting \/ ReplaceTable

Next ==
  \/ \E e \in Engines : EditRules(e)
  \/ \E name \in Names : Forward(name) \/ AnswerFails(name) \/ ResolveFails(name)
  \/ \E name \in Names, a \in Addrs : Answer(name, a) \/ Resolve(name, a)
  \/ StartRound
  \/ \E a \in Addrs : Expire(a)
  \/ \E list \in BlockLists : SetLists(list)
  \/ Announce \/ CacheFails
  \/ LoopWorks \/ SetupFails \/ LoopEnds
  \/ Stop \/ RemoveTable \/ RemoveRouting \/ Exit \/ Kill
  \/ CaptureDown \/ Start \/ StartFails

Spec == Init /\ [][Next]_vars

\* The ticker of two seconds never stops, and the calls that Setup makes
\* return; that one of them fails is nobody's duty.
LiveSpec == Spec /\ WF_vars(LoopWorks)

-----------------------------------------------------------------------------
(* Properties.                                                             *)

\* Every variable has its type, and no generation is applied before it is
\* there (learnChanged compares them for equality).
TypeOK ==
  /\ env \in Env
  /\ phase \in {"up", "stopping", "closing", "closed", "off", "killed"}
  /\ engine \in Engines
  /\ asking \subseteq Names /\ hosts \subseteq Names
  /\ learned \in [Addrs -> Entry \union {None}]
  /\ gen \in Nat
  /\ lists \in BlockLists /\ fetch \in {"idle", "cache"} /\ dirty \in BOOLEAN
  /\ loop \in {"wait", "rules", "names", "addrs", "routing", "table", "done"}
  /\ job \in Job \union {None} /\ (loop \in {"names", "addrs", "routing", "table"} => job \in Job /\ job.gen <= gen)
  /\ ticks \in 0..ApplyEvery
  /\ applied \in SUBSET SUBSET Addrs
  /\ appliedGen \in 0..gen
  /\ judged \in Engines
  /\ table \in Table \union {None}
  /\ routing \in BOOLEAN

\* What the matcher sees of a connection to a: the name a was learned for.
NameOf(a) == IF learned[a] # None /\ learned[a].fresh THEN learned[a].name ELSE NoName
To(name, a, port) == [domain |-> name, ip |-> a, port |-> port, outer |-> NoName]

\* Nothing is left to do for the loop, as far as it can tell, and the rules
\* are those that the last apply judged names by.
InForce ==
  /\ phase = "up" /\ loop = "wait"
  /\ applied = RoutedPrefixes(RulesOf[engine]) /\ appliedGen = gen /\ judged = engine

\* Capture misses nothing (apply, learnChanged, Table.Addrs, DomainMayRoute
\* and RoutedPrefixes taken together): when the loop has nothing to do, every
\* connection to a learned address that Engine.Match would send elsewhere than
\* direct, on any port, is diverted, and so is every routed prefix.
RoutedIsCaptured ==
  InForce =>
    \A a \in Addrs :
      \/ Captured(a)
      \/ /\ \A p \in RoutedPrefixes(RulesOf[engine]) : a \notin p
         /\ NameOf(a) # NoName =>
              \A port \in Ports : Match(RulesOf[engine], To(NameOf(a), a, port)) = Direct

\* In FakeIP mode the real addresses of a name leave tailproxy's DNS only if,
\* under the rules of that moment, no connection made by that name would be
\* routed (Server.handle; the promise of DomainMayRoute, rule.go:157).
ForwardOnlyDirect ==
  [][\A name \in asking' \ asking : env.fakeip =>
       \A port \in Ports : Match(RulesOf[engine], To(name, NoAddr, port)) = Direct]_vars

\* A new block list reaches the kernel: once refreshDoH has announced it and
\* the loop has nothing to do, the addresses refused are those of the lists
\* by which names are refused; unless a call failed (capture.go:428, 463).
ListsInForce ==
  phase = "up" /\ loop = "wait" /\ ~dirty /\ fetch = "idle" /\ env.faults \subseteq {"kill"}
    => table # None /\ table.lists = lists

\* The loop follows, in the end and though some installations fail: prefixes
\* of new rules, and addresses learned for a name that the rules route, if
\* names have been judged by these rules before (a rule edit that changes no
\* prefix makes the loop judge nothing again).
LoopFollows ==
  /\ \A e \in Engines :
       (phase = "up" /\ engine = e) ~>
         \/ phase # "up" \/ engine # e
         \/ \A p \in RoutedPrefixes(RulesOf[e]) : \A a \in p : Captured(a)
  /\ \A a \in Addrs :
       (phase = "up" /\ judged = engine /\ NameOf(a) # NoName) ~>
         \/ phase # "up" \/ judged # engine \/ NameOf(a) = NoName
         \/ Captured(a) \/ ~DomainMayRoute(RulesOf[engine], NameOf(a))

\* What Close promises ("Close removes the rules", capture.go:469): a daemon
\* that has ended by itself leaves neither table nor policy routing.
CloseRemovesRules == phase = "off" => table = None /\ ~routing
=============================================================================
