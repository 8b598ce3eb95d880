--------------------------- MODULE Capture_proofs ---------------------------
(***************************************************************************)
(* Proofs about the rule engine (any rules, any names and addresses) and   *)
(* about capture (any set of engines, lists and circumstances).            *)
(***************************************************************************)
EXTENDS Capture, TLAPS

\* If a connection by name is matched to a target other than direct, either
\* DomainMayRoute has said so of the name, or the address is in a routed
\* prefix: the two questions that DNS and capture ask miss no connection.
THEOREM MayRouteSound ==
  ASSUME NEW rules \in Seq(Rule), NEW name, NEW ip, NEW port,
         Match(rules, To(name, ip, port)) # Direct
  PROVE  \/ DomainMayRoute(rules, name)
         \/ ip # NoAddr /\ \E p \in RoutedPrefixes(rules) : ip \in p
PROOF
<1> DEFINE q == To(name, ip, port)
<1>1. PICK i \in DOMAIN rules : Decides(rules, q, i) /\ rules[i].target # Direct
  BY DEF Match
<1>2. q.domain = name /\ q.ip = ip /\ q.port = port /\ q.outer = NoName
  BY DEF To
<1> HIDE DEF q
<1>3. Matches(rules[i], q)
  BY <1>1 DEF Decides
<1>4. ~MatchOuterSNI(rules[i], q.outer)
  BY <1>2 DEF MatchOuterSNI
<1>5. CASE rules[i].final \/ ~HasDest(rules[i]) \/ NameMatches(rules[i], name)
  <2>1. SaysRouted(rules[i], name)
    BY <1>1, <1>5 DEF SaysRouted
  <2>2. ASSUME NEW j \in DOMAIN rules, j < i, EndsDirect(rules[j], name)
        PROVE  FALSE
    <3>1. Matches(rules[j], q)
      BY <2>2, <1>2 DEF EndsDirect, Matches, MatchDest
    <3> QED
      BY <3>1, <2>2, <1>1 DEF Decides
  <2> QED
    BY <2>1, <2>2 DEF DomainMayRoute
<1>6. CASE ~(rules[i].final \/ ~HasDest(rules[i]) \/ NameMatches(rules[i], name))
  <2>1. AddrMatches(rules[i], ip)
    BY <1>2, <1>3, <1>4, <1>6 DEF Matches, MatchDest
  <2>2. PICK p \in rules[i].prefixes : ip # NoAddr /\ ip \in p
    BY <2>1 DEF AddrMatches
  <2>3. p \in RoutedPrefixes(rules)
    BY <2>2, <1>1 DEF RoutedPrefixes
  <2> QED
    BY <2>2, <2>3
<1> QED
  BY <1>5, <1>6

\* What RoutedPrefixes returns is a set of sets of addresses.
LEMMA RoutedPrefixesType ==
  ASSUME NEW rules \in Seq(Rule)
  PROVE  RoutedPrefixes(rules) \in SUBSET SUBSET Addrs
PROOF
<1>1. \A i \in DOMAIN rules : rules[i] \in Rule
  OBVIOUS
<1>2. \A i \in DOMAIN rules : rules[i].prefixes \in SUBSET SUBSET Addrs
  BY <1>1 DEF Rule
<1> QED
  BY <1>2 DEF RoutedPrefixes


USE DEF vars, dnsVars, listVars, loopVars, kernelVars

LEMMA EngineRules ==
  ASSUME NEW e \in Engines
  PROVE  /\ RulesOf[e] \in Seq(Rule)
         /\ RoutedPrefixes(RulesOf[e]) \in SUBSET SUBSET Addrs
PROOF
  BY CaptureAssumption, RoutedPrefixesType

LEMMA SweptType ==
  ASSUME TypeOK
  PROVE  /\ Swept \in [Addrs -> Entry \union {None}]
         /\ \A a \in Addrs : Swept[a] \in {learned[a], None}
         /\ \A e : Routed(e) \in SUBSET Addrs
PROOF
  BY DEF TypeOK, Swept, Routed

LEMMA AddType ==
  ASSUME TypeOK, NEW name \in Names, NEW a \in Addrs, Add(name, a)
  PROVE  learned' \in [Addrs -> Entry \union {None}] /\ gen' \in Nat /\ gen' >= gen
PROOF
<1>1. Swept \in [Addrs -> Entry \union {None}]
  BY SweptType
<1>2. [name |-> name, fresh |-> TRUE] \in Entry
  BY DEF Entry
<1>3. learned \in [Addrs -> Entry \union {None}] /\ gen \in Nat
  BY DEF TypeOK
<1> DEFINE new == [name |-> name, fresh |-> TRUE]
<1>4. new \in Entry
  BY <1>2
<1> HIDE DEF new
<1>5. \A t \in [Addrs -> Entry \union {None}] : [t EXCEPT ![a] = new] \in [Addrs -> Entry \union {None}]
  BY <1>4
<1>6. /\ \/ learned' \in {learned, Swept}
         \/ learned' \in {[learned EXCEPT ![a] = new], [Swept EXCEPT ![a] = new]}
      /\ gen' \in {gen, gen + 1}
  BY DEF Add, new
<1> QED
  BY <1>1, <1>3, <1>5, <1>6

LEMMA EnvTypes ==
  ASSUME env \in Env
  PROVE  /\ env.engines \subseteq Engines /\ env.lists \subseteq BlockLists
         /\ env.edits \in Nat /\ env.failures \in Nat /\ env.starts \in Nat
         /\ env.edits > 0 => [env EXCEPT !.edits = @ - 1] \in Env
         /\ env.failures > 0 => [env EXCEPT !.failures = @ - 1] \in Env
         /\ env.starts > 0 => [env EXCEPT !.starts = @ - 1] \in Env
         /\ env.starts > 0 /\ env.failures > 0 =>
              [env EXCEPT !.starts = @ - 1, !.failures = @ - 1] \in Env
PROOF
<1>1. \A e \in Env : /\ e.failures > 0 => [e EXCEPT !.failures = @ - 1] \in Env
                     /\ e.starts > 0 => [e EXCEPT !.starts = @ - 1] \in Env
                     /\ e.edits > 0 => [e EXCEPT !.edits = @ - 1] \in Env
  BY DEF Env
<1> DEFINE once == [env EXCEPT !.starts = @ - 1]
<1>2. [env EXCEPT !.starts = @ - 1, !.failures = @ - 1] = [once EXCEPT !.failures = @ - 1]
  BY DEF Env
<1>3. env.starts > 0 => once \in Env /\ once.failures = env.failures
  BY <1>1 DEF Env
<1> HIDE DEF once
<1> QED
  BY <1>1, <1>2, <1>3 DEF Env, once

LEMMA InitTypeOK == Init => TypeOK
PROOF
<1> SUFFICES ASSUME Init PROVE TypeOK
  OBVIOUS
<1>1. env \in Env /\ engine \in Engines /\ lists \in BlockLists
  BY EnvsAssumption, EnvTypes DEF Init
<1>2. RoutedPrefixes(RulesOf[engine]) \in SUBSET SUBSET Addrs /\ lists \subseteq Names
  BY <1>1, EngineRules, CaptureAssumption
<1>3. table \in Table
  BY <1>2 DEF Init, Table
<1>4. learned \in [Addrs -> Entry \union {None}]
  BY DEF Init
<1>5. /\ asking \subseteq Names /\ hosts \subseteq Names /\ gen \in Nat
      /\ applied \in SUBSET SUBSET Addrs /\ appliedGen \in 0..gen
      /\ ticks \in 0..ApplyEvery
  BY <1>2, CaptureAssumption DEF Init
<1> QED
  BY <1>1, <1>3, <1>4, <1>5 DEF Init, TypeOK

LEMMA NextTypeOK == TypeOK /\ [Next]_vars => TypeOK'
PROOF
<1> SUFFICES ASSUME TypeOK, [Next]_vars PROVE TypeOK'
  OBVIOUS
<1>0. /\ env.engines \subseteq Engines /\ env.lists \subseteq BlockLists
      /\ RoutedPrefixes(RulesOf[engine]) \in SUBSET SUBSET Addrs
      /\ lists \subseteq Names
  BY EnvTypes, EngineRules, CaptureAssumption DEF TypeOK
<1>1. ASSUME NEW e \in Engines, EditRules(e) PROVE TypeOK'
  BY <1>1, EnvTypes DEF TypeOK, EditRules
<1>2. ASSUME NEW name \in Names, Forward(name) \/ AnswerFails(name) \/ ResolveFails(name)
      PROVE  TypeOK'
  BY <1>2 DEF TypeOK, Forward, AnswerFails, ResolveFails
<1>3. ASSUME NEW name \in Names, NEW a \in Addrs, Answer(name, a) \/ Resolve(name, a)
      PROVE  TypeOK'
  <2>1. /\ learned' \in [Addrs -> Entry \union {None}] /\ gen' \in Nat /\ gen' >= gen
        /\ asking' \subseteq Names /\ hosts' \subseteq Names
    <3>1. CASE Add(name, a)
      BY <1>3, <3>1, AddType DEF TypeOK, Answer, Resolve
    <3>2. CASE UNCHANGED <<learned, gen>>
      BY <1>3, <3>2 DEF TypeOK, Answer, Resolve
    <3> QED
      BY <1>3, <3>1, <3>2 DEF Answer, Resolve
  <2>2. UNCHANGED <<env, phase, engine, listVars, loopVars, kernelVars>>
    BY <1>3 DEF Answer, Resolve
  <2>3. job \in Job => job.gen \in Nat
    BY DEF Job
  <2>4. appliedGen' \in 0..gen' /\ (job.gen <= gen /\ job \in Job => job'.gen <= gen')
    BY <2>1, <2>2, <2>3 DEF TypeOK
  <2> QED
    BY <2>1, <2>2, <2>4 DEF TypeOK
<1>4. CASE StartRound
  BY <1>4 DEF TypeOK, StartRound, RoutedHosts
<1>5. ASSUME NEW a \in Addrs, Expire(a) PROVE TypeOK'
  <2>1. [learned[a] EXCEPT !.fresh = FALSE] \in Entry
    BY <1>5 DEF TypeOK, Expire, Entry
  <2>2. learned' = [learned EXCEPT ![a] = [learned[a] EXCEPT !.fresh = FALSE]]
    BY <1>5 DEF Expire
  <2>3. learned' \in [Addrs -> Entry \union {None}]
    BY <2>1, <2>2 DEF TypeOK
  <2> QED
    BY <1>5, <2>3 DEF TypeOK, Expire
<1>6. ASSUME NEW list \in BlockLists, SetLists(list) PROVE TypeOK'
  BY <1>6 DEF TypeOK, SetLists
<1>7. CASE Announce \/ CacheFails
  BY <1>7, EnvTypes DEF TypeOK, Announce, CacheFails, Fails, Spend
<1>8. CASE Tick
  BY <1>8, SweptType, CaptureAssumption DEF TypeOK, Tick
<1>9. CASE ReadRules
  <2>1. job' \in Job
    BY <1>9, <1>0 DEF TypeOK, ReadRules, Job
  <2> QED
    BY <1>9, <2>1 DEF TypeOK, ReadRules
<1>10. CASE ReadRulesAgain \/ ReadNames
  <2>0. job \in Job /\ job.gen <= gen /\ gen \in Nat /\ engine \in Engines
    BY <1>10 DEF TypeOK, ReadRulesAgain, ReadNames
  <2>1. job' \in Job /\ job'.gen <= gen
    <3>1. CASE ReadRulesAgain
      BY <2>0, <3>1 DEF ReadRulesAgain, Job
    <3>2. CASE ReadNames
      <4>1. Routed(job.engine) \in SUBSET Addrs
        BY SweptType
      <4>2. \A j \in Job, addrs \in SUBSET Addrs :
              /\ [j EXCEPT !.addrs = addrs, !.gen = gen] \in Job
              /\ [j EXCEPT !.addrs = addrs, !.gen = gen].gen = gen
        BY <2>0 DEF Job
      <4>3. job' = [job EXCEPT !.addrs = Routed(job.engine), !.gen = gen]
        BY <3>2 DEF ReadNames
      <4>4. job' \in Job /\ job'.gen = gen
        BY <2>0, <4>1, <4>2, <4>3
      <4> QED
        BY <2>0, <4>4
    <3> QED
      BY <1>10, <3>1, <3>2
  <2>2. learned' \in [Addrs -> Entry \union {None}] /\ loop' \in {"addrs", "routing"}
    BY <1>10, SweptType DEF TypeOK, ReadRulesAgain, ReadNames
  <2>3. UNCHANGED <<env, phase, engine, asking, hosts, gen, listVars, ticks, applied,
                    appliedGen, judged, kernelVars>>
    BY <1>10 DEF ReadRulesAgain, ReadNames
  <2> QED
    BY <1>10, <2>1, <2>2, <2>3 DEF TypeOK
<1>11. CASE AddRouting \/ LoopEnds
  BY <1>11 DEF TypeOK, AddRouting, LoopEnds
<1>12. CASE ReplaceTable
  <2>1. job \in Job
    BY <1>12 DEF TypeOK, ReplaceTable
  <2>2. table' \in Table /\ applied' \in SUBSET SUBSET Addrs /\ judged' \in Engines
    BY <1>12, <2>1 DEF ReplaceTable, Job, Table
  <2>3. appliedGen' \in 0..gen'
    BY <1>12, <2>1 DEF TypeOK, ReplaceTable, Job
  <2>4. ticks' \in 0..ApplyEvery
    BY <1>12, CaptureAssumption DEF ReplaceTable
  <2> QED
    BY <1>12, <2>2, <2>3, <2>4, CaptureAssumption DEF TypeOK, ReplaceTable
<1>13. CASE SetupFails
  BY <1>13, EnvTypes DEF TypeOK, SetupFails, Fails, Spend
<1>14. CASE Stop \/ RemoveTable \/ RemoveRouting \/ Exit \/ CaptureDown
  BY ZenonT(60), <1>14 DEF TypeOK, Stop, RemoveTable, RemoveRouting, Exit, CaptureDown
<1>15. CASE Kill
  BY <1>15, EnvTypes DEF TypeOK, Kill, Fails, Spend
<1>16. CASE Start
  <2>1. env' \in Env /\ lists' \in BlockLists /\ lists' \subseteq Names
    BY <1>16, <1>0, EnvTypes, CaptureAssumption DEF TypeOK, Start
  <2>2. learned' \in [Addrs -> Entry \union {None}]
    BY <1>16 DEF Start
  <2>3. table' \in Table /\ applied' \in SUBSET SUBSET Addrs
    BY <1>16, <1>0, <2>1 DEF Start, Table
  <2>4. /\ asking' \subseteq Names /\ hosts' \subseteq Names /\ gen' \in Nat
        /\ appliedGen' \in 0..gen' /\ ticks' \in 0..ApplyEvery
    BY <1>16, CaptureAssumption DEF Start
  <2> QED
    BY <1>16, <2>1, <2>2, <2>3, <2>4 DEF TypeOK, Start
<1>17. CASE StartFails
  BY <1>17, EnvTypes DEF TypeOK, StartFails, Fails
<1>18. CASE UNCHANGED vars
  BY <1>18 DEF TypeOK
<1> QED
  BY <1>1, <1>2, <1>3, <1>4, <1>5, <1>6, <1>7, <1>8, <1>9, <1>10, <1>11, <1>12,
     <1>13, <1>14, <1>15, <1>16, <1>17, <1>18 DEF Next, LoopWorks

\* Every variable has its type, whatever the rules, the lists and what fails.
THEOREM CaptureTypeOK == Spec => []TypeOK
PROOF
  BY InitTypeOK, NextTypeOK, PTL DEF Spec

-----------------------------------------------------------------------------
(* Nothing that the rules route is missed.  The table in the kernel is the *)
(* one that apply has noted; and of two equal generations the earlier has  *)
(* seen every entry that the later one sees.                               *)

\* Every entry of the table of names that these rules route is in `addrs`.
Holds(addrs, e) ==
  \A a \in Addrs :
    learned[a] # None /\ DomainMayRoute(RulesOf[e], learned[a].name) => a \in addrs

TableIsApplied ==
  phase = "up" =>
    /\ routing /\ table \in Table
    /\ table.prefixes = applied
    /\ appliedGen = gen => Holds(table.addrs, judged)

JobIsComplete ==
  loop \in {"routing", "table"} /\ job.gen = gen => Holds(job.addrs, job.engine)

IInv == TypeOK /\ TableIsApplied /\ JobIsComplete

\* A table of names in which nothing is new holds nothing new.
LEMMA HoldsFewer ==
  ASSUME NEW addrs, NEW e, Holds(addrs, e),
         \A a \in Addrs : learned'[a] # None =>
            learned[a] # None /\ learned'[a].name = learned[a].name
  PROVE  \A a \in Addrs :
           learned'[a] # None /\ DomainMayRoute(RulesOf[e], learned'[a].name) => a \in addrs
PROOF
  BY DEF Holds

\* Add either counts, or brings nothing new.
LEMMA AddCounts ==
  ASSUME TypeOK, NEW name \in Names, NEW a \in Addrs, Add(name, a)
  PROVE  \/ gen' = gen + 1
         \/ /\ gen' = gen
            /\ \A b \in Addrs : learned'[b] # None =>
                 learned[b] # None /\ learned'[b].name = learned[b].name
PROOF
<1>1. \A b \in Addrs : Swept[b] # None => Swept[b] = learned[b]
  BY SweptType
<1>2. learned \in [Addrs -> Entry \union {None}] /\ Swept \in [Addrs -> Entry \union {None}]
  BY SweptType DEF TypeOK
<1> DEFINE room == IF learned[a] = None /\ Full(learned) THEN Swept ELSE learned
           new == [name |-> name, fresh |-> TRUE]
<1>3. room \in {learned, Swept}
  OBVIOUS
<1>4. CASE learned[a] = None /\ Full(room)
  <2>1. learned' = room /\ gen' = gen
    BY <1>4 DEF Add
  <2> HIDE DEF room
  <2> QED
    BY <1>1, <1>3, <2>1
<1>5. CASE ~(learned[a] = None /\ Full(room))
  <2>1. /\ learned' = [room EXCEPT ![a] = new]
        /\ gen' = IF learned[a] = None \/ learned[a].name # name THEN gen + 1 ELSE gen
    BY <1>5 DEF Add
  <2>2. new.name = name
    OBVIOUS
  <2> HIDE DEF room, new
  <2>3. learned'[a] = new /\ \A b \in Addrs : b # a => learned'[b] = room[b]
    BY <1>2, <1>3, <2>1
  <2>4. CASE learned[a] = None \/ learned[a].name # name
    BY <2>1, <2>4
  <2>5. CASE learned[a] # None /\ learned[a].name = name
    <3>1. gen' = gen
      BY <2>1, <2>5
    <3> QED
      BY <1>1, <1>3, <2>2, <2>3, <2>5, <3>1
  <2> QED
    BY <2>4, <2>5
<1> QED
  BY <1>4, <1>5

LEMMA InitIInv == Init => IInv
PROOF
<1> SUFFICES ASSUME Init PROVE IInv
  OBVIOUS
<1>1. TypeOK
  BY InitTypeOK
<1>2. applied \in SUBSET SUBSET Addrs /\ lists \subseteq Names
  BY <1>1, CaptureAssumption DEF TypeOK
<1>3. table = [prefixes |-> applied, addrs |-> {}, lists |-> lists]
  BY DEF Init
<1>4. table \in Table /\ table.prefixes = applied
  BY <1>2, <1>3 DEF Table
<1>5. \A a \in Addrs : learned[a] = None
  BY DEF Init
<1>6. TableIsApplied
  BY <1>4, <1>5 DEF Init, TableIsApplied, Holds
<1>7. JobIsComplete
  BY DEF Init, JobIsComplete
<1> QED
  BY <1>1, <1>6, <1>7 DEF IInv

LEMMA NextIInv == IInv /\ [Next]_vars => IInv'
PROOF
<1> SUFFICES ASSUME IInv, [Next]_vars PROVE IInv'
  OBVIOUS
<1>0. TypeOK /\ TypeOK' /\ TableIsApplied /\ JobIsComplete /\ gen \in Nat /\ appliedGen \in 0..gen
  BY NextTypeOK DEF IInv, TypeOK
<1>a. ASSUME UNCHANGED <<learned, gen, loop, job, phase, applied, appliedGen, judged, kernelVars>>
      PROVE  IInv'
  BY <1>0, <1>a DEF IInv, TableIsApplied, JobIsComplete, Holds
\* Entries that were there before, under the same names.
<1>b. ASSUME gen' = gen,
             \A b \in Addrs : learned'[b] # None =>
               learned[b] # None /\ learned'[b].name = learned[b].name,
             UNCHANGED <<job, phase, applied, appliedGen, judged, kernelVars>>,
             loop' \in {loop, "rules", "wait"}
      PROVE  IInv'
  <2>1. TableIsApplied'
    BY <1>0, <1>b, HoldsFewer DEF TableIsApplied, Holds
  <2>2. JobIsComplete'
    BY <1>0, <1>b, HoldsFewer DEF JobIsComplete, Holds
  <2> QED
    BY <1>0, <2>1, <2>2 DEF IInv
\* A new entry: every generation that was taken before is another one.
<1>c. ASSUME gen' = gen + 1,
             UNCHANGED <<loop, job, phase, applied, appliedGen, judged, kernelVars>>
      PROVE  IInv'
  <2>1. TableIsApplied'
    BY <1>0, <1>c DEF TableIsApplied
  <2>2. loop \in {"routing", "table"} => job.gen \in Nat /\ job.gen <= gen
    BY <1>0 DEF TypeOK, Job
  <2>3. JobIsComplete'
    BY <1>0, <1>c, <2>2 DEF JobIsComplete
  <2> QED
    BY <1>0, <2>1, <2>3 DEF IInv
\* The process is not up: only a job that is under way matters.
<1>d. ASSUME phase' # "up", UNCHANGED <<learned, gen, loop, job>> PROVE IInv'
  BY <1>0, <1>d DEF IInv, TableIsApplied, JobIsComplete, Holds
<1>1. ASSUME NEW e \in Engines, EditRules(e) PROVE IInv'
  BY <1>1, <1>a DEF EditRules
<1>2. ASSUME NEW name \in Names, Forward(name) \/ AnswerFails(name) \/ ResolveFails(name)
      PROVE  IInv'
  BY <1>2, <1>a DEF Forward, AnswerFails, ResolveFails
<1>3. ASSUME NEW name \in Names, NEW a \in Addrs, Answer(name, a) \/ Resolve(name, a)
      PROVE  IInv'
  <2>1. UNCHANGED <<loop, job, phase, applied, appliedGen, judged, kernelVars>>
    BY <1>3 DEF Answer, Resolve
  <2>2. CASE Add(name, a)
    BY <1>0, <2>1, <2>2, AddCounts, <1>b, <1>c
  <2>3. CASE UNCHANGED <<learned, gen>>
    BY <2>1, <2>3, <1>a
  <2> QED
    BY <1>3, <2>2, <2>3 DEF Answer, Resolve
<1>4. CASE StartRound
  BY <1>4, <1>a DEF StartRound
<1>5. ASSUME NEW a \in Addrs, Expire(a) PROVE IInv'
  <2>1. /\ learned \in [Addrs -> Entry \union {None}] /\ learned[a] # None
        /\ learned' = [learned EXCEPT ![a] = [learned[a] EXCEPT !.fresh = FALSE]]
    BY <1>0, <1>5 DEF TypeOK, Expire
  <2>2. [learned[a] EXCEPT !.fresh = FALSE].name = learned[a].name
    BY <2>1 DEF Entry
  <2>3. \A b \in Addrs : learned'[b] # None =>
          learned[b] # None /\ learned'[b].name = learned[b].name
    BY <2>1, <2>2
  <2>4. UNCHANGED <<gen, loop, job, phase, applied, appliedGen, judged, kernelVars>>
    BY <1>5 DEF Expire
  <2> QED
    BY <2>3, <2>4, <1>b
<1>6. ASSUME NEW list \in BlockLists, SetLists(list) PROVE IInv'
  BY <1>6, <1>a DEF SetLists
<1>7. CASE Announce \/ CacheFails
  BY <1>7, <1>a DEF Announce, CacheFails
<1>8. CASE Tick
  <2>1. \A b \in Addrs : learned'[b] # None =>
          learned[b] # None /\ learned'[b].name = learned[b].name
    BY <1>0, <1>8, SweptType DEF Tick
  <2> QED
    BY <1>8, <2>1, <1>b DEF Tick
<1>9. CASE ReadRules \/ ReadRulesAgain
  BY <1>0, <1>9 DEF ReadRules, ReadRulesAgain, IInv, TableIsApplied, JobIsComplete, Holds
<1>10. CASE ReadNames
  <2>1. \A b \in Addrs : learned'[b] # None =>
          learned[b] # None /\ learned'[b].name = learned[b].name
    BY <1>0, <1>10, SweptType DEF ReadNames
  <2>2. TableIsApplied'
    BY <1>0, <1>10, <2>1, HoldsFewer DEF ReadNames, TableIsApplied, Holds
  <2>3. job \in Job
    BY <1>0, <1>10 DEF TypeOK, ReadNames
  <2>4. job'.addrs = Routed(job.engine) /\ job'.engine = job.engine
    BY <1>10, <2>3 DEF ReadNames, Job
  <2>5. learned' = Swept
    BY <1>10 DEF ReadNames
  <2>6. Holds(job.addrs, job.engine)'
    BY <2>4, <2>5 DEF Holds, Routed
  <2> QED
    BY <1>0, <2>2, <2>6 DEF IInv, JobIsComplete
<1>11. CASE AddRouting
  BY <1>0, <1>11 DEF AddRouting, IInv, TableIsApplied, JobIsComplete, Holds
<1>12. CASE ReplaceTable
  <2>1. job \in Job
    BY <1>0, <1>12 DEF TypeOK, ReplaceTable
  <2>2. /\ table'.prefixes = job.prefixes /\ table'.addrs = job.addrs
        /\ table' \in Table
    BY <1>12, <2>1 DEF ReplaceTable, Job, Table
  <2>3. gen' = gen /\ learned' = learned /\ appliedGen' = job.gen /\ judged' = job.engine
        /\ applied' = job.prefixes /\ phase' = phase /\ routing' = routing /\ loop' = "wait"
    BY <1>12 DEF ReplaceTable
  <2>4. job.gen = gen => Holds(job.addrs, job.engine)
    BY <1>0, <1>12 DEF ReplaceTable, JobIsComplete
  <2>5. TableIsApplied'
    BY <1>0, <2>2, <2>3, <2>4 DEF TableIsApplied, Holds
  <2>6. JobIsComplete'
    BY <2>3 DEF JobIsComplete
  <2> QED
    BY <1>0, <2>5, <2>6 DEF IInv
<1>13. CASE SetupFails
  BY <1>0, <1>13 DEF SetupFails, IInv, TableIsApplied, JobIsComplete, Holds
<1>14. CASE LoopEnds
  BY <1>0, <1>14 DEF LoopEnds, IInv, TableIsApplied, JobIsComplete
<1>15. CASE Stop \/ RemoveTable \/ RemoveRouting \/ Exit \/ Kill \/ CaptureDown \/ StartFails
  BY <1>15, <1>d DEF Stop, RemoveTable, RemoveRouting, Exit, Kill, CaptureDown, StartFails, Gone
<1>16. CASE Start
  <2>1. /\ table' = [prefixes |-> applied', addrs |-> {}, lists |-> lists']
        /\ routing' = TRUE /\ loop' = "wait" /\ learned' = [a \in Addrs |-> None]
    BY <1>16 DEF Start
  <2>2. table' \in Table
    <3>1. applied' \in SUBSET SUBSET Addrs /\ lists' \in BlockLists
      BY <1>0 DEF TypeOK
    <3>2. lists' \subseteq Names
      BY <3>1, CaptureAssumption
    <3> QED
      BY <2>1, <3>1, <3>2 DEF Table
  <2> QED
    BY <1>0, <2>1, <2>2 DEF IInv, TableIsApplied, JobIsComplete, Holds
<1>17. CASE UNCHANGED vars
  BY <1>17, <1>a
<1> QED
  BY <1>1, <1>2, <1>3, <1>4, <1>5, <1>6, <1>7, <1>8, <1>9, <1>10, <1>11, <1>12,
     <1>13, <1>14, <1>15, <1>16, <1>17 DEF Next, LoopWorks

LEMMA IInvSuffices == IInv => RoutedIsCaptured
PROOF
<1> SUFFICES ASSUME IInv, InForce, NEW a \in Addrs
             PROVE  \/ Captured(a)
                    \/ /\ \A p \in RoutedPrefixes(RulesOf[engine]) : a \notin p
                       /\ NameOf(a) # NoName =>
                            \A port \in Ports : Match(RulesOf[engine], To(NameOf(a), a, port)) = Direct
  BY DEF RoutedIsCaptured
<1>1. /\ routing /\ table # None /\ table.prefixes = RoutedPrefixes(RulesOf[engine])
      /\ Holds(table.addrs, engine)
  BY NoneAssumption DEF IInv, TableIsApplied, InForce
<1>2. RulesOf[engine] \in Seq(Rule)
  BY EngineRules DEF IInv, TypeOK
<1>3. CASE \E p \in RoutedPrefixes(RulesOf[engine]) : a \in p
  BY <1>1, <1>3 DEF Captured
<1>4. ASSUME \A p \in RoutedPrefixes(RulesOf[engine]) : a \notin p,
             NameOf(a) # NoName, NEW port \in Ports,
             Match(RulesOf[engine], To(NameOf(a), a, port)) # Direct
      PROVE  Captured(a)
  <2>1. learned[a] # None /\ NameOf(a) = learned[a].name
    BY <1>4 DEF NameOf
  <2>2. DomainMayRoute(RulesOf[engine], NameOf(a))
    BY <1>2, <1>4, MayRouteSound
  <2> QED
    BY <1>1, <2>1, <2>2 DEF Captured, Holds
<1> QED
  BY <1>3, <1>4

\* When the loop has nothing to do, every connection to a learned address that
\* the matcher would route is diverted, and so is every routed prefix: for any
\* rules, names, addresses and number of threads' steps in between.
THEOREM CaptureRoutedIsCaptured == Spec => []RoutedIsCaptured
PROOF
  BY InitIInv, NextIInv, IInvSuffices, PTL DEF Spec

\* In FakeIP mode a name is forwarded, and real addresses given out for it,
\* only if no connection made by that name would be routed.
THEOREM CaptureForwardOnlyDirect == Spec => ForwardOnlyDirect
PROOF
<1> DEFINE Fwd == \A name \in asking' \ asking : env.fakeip =>
                    \A port \in Ports : Match(RulesOf[engine], To(name, NoAddr, port)) = Direct
<1>1. TypeOK /\ [Next]_vars => [Fwd]_vars
  <2> SUFFICES ASSUME TypeOK, [Next]_vars, NEW name \in asking' \ asking, env.fakeip,
                      NEW port \in Ports
               PROVE  Match(RulesOf[engine], To(name, NoAddr, port)) = Direct
    OBVIOUS
  <2>1. RulesOf[engine] \in Seq(Rule)
    BY EngineRules DEF TypeOK
  <2>2. ~DomainMayRoute(RulesOf[engine], name)
    BY DEF Next, LoopWorks, EditRules, Forward, AnswerFails, ResolveFails, Answer, Resolve,
      StartRound, Expire, SetLists, Announce, CacheFails, Tick, ReadRules, ReadRulesAgain,
      ReadNames, AddRouting,
      ReplaceTable, SetupFails, LoopEnds, Stop, RemoveTable, RemoveRouting, Exit, Kill,
      CaptureDown, Start, StartFails
  <2> QED
    BY <2>1, <2>2, MayRouteSound
<1> QED
  BY <1>1, CaptureTypeOK, PTL DEF Spec, ForwardOnlyDirect

-----------------------------------------------------------------------------
(* The block lists.  If the table has other lists than those in use, one   *)
(* of three has it still before it: refreshDoH, which will announce them,  *)
(* the loop, which will see the flag, and apply, which holds the new ones. *)

Ahead == fetch = "cache" \/ dirty
Working == {"rules", "names", "addrs", "routing", "table"}

ListsFollow ==
  phase = "up" /\ env.faults \subseteq {"kill"} =>
    /\ table.lists = lists \/ Ahead \/ loop \in Working
    /\ loop \in Working \ {"rules"} => job.lists = lists \/ Ahead

LInv == IInv /\ ListsFollow

LEMMA InitLists == Init => ListsFollow
PROOF
  BY DEF Init, ListsFollow, Working

LEMMA NextLists == IInv /\ ListsFollow /\ [Next]_vars => ListsFollow'
PROOF
<1> SUFFICES ASSUME IInv, ListsFollow, [Next]_vars, phase' = "up", env'.faults \subseteq {"kill"}
             PROVE  /\ table'.lists = lists' \/ Ahead' \/ loop' \in Working
                    /\ loop' \in Working \ {"rules"} => job'.lists = lists' \/ Ahead'
  BY DEF ListsFollow
<1>0. TypeOK /\ TypeOK' /\ TableIsApplied
  BY NextTypeOK DEF IInv
\* Before the start, nothing is known; after it, the table is the new one.
<1>1. CASE Start
  BY <1>1 DEF Start, Working
<1> SUFFICES ASSUME ~Start PROVE
      /\ table'.lists = lists' \/ Ahead' \/ loop' \in Working
      /\ loop' \in Working \ {"rules"} => job'.lists = lists' \/ Ahead'
  BY <1>1
<1>2. phase = "up" /\ env'.faults = env.faults
  <2>1. ASSUME NEW e \in Env
        PROVE  /\ [e EXCEPT !.edits = @ - 1].faults = e.faults
               /\ [e EXCEPT !.failures = @ - 1].faults = e.faults
    BY <2>1 DEF Env
  <2>2. env \in Env
    BY <1>0 DEF TypeOK
  <2> QED
    BY <2>1, <2>2 DEF Next, LoopWorks, EditRules, Forward, AnswerFails, ResolveFails, Answer, Resolve,
      StartRound, Expire, SetLists, Announce, CacheFails, Tick, ReadRules, ReadRulesAgain,
      ReadNames, AddRouting, ReplaceTable, SetupFails, LoopEnds, Stop, RemoveTable,
      RemoveRouting, Exit, Kill, CaptureDown, StartFails, Fails, Spend, Gone
<1>3. /\ table.lists = lists \/ Ahead \/ loop \in Working
      /\ loop \in Working \ {"rules"} => job.lists = lists \/ Ahead
      /\ "install" \notin env.faults /\ "cache" \notin env.faults
  BY <1>2 DEF ListsFollow
<1>a. ASSUME UNCHANGED <<lists, fetch, dirty, loop, job, table>>
      PROVE  /\ table'.lists = lists' \/ Ahead' \/ loop' \in Working
             /\ loop' \in Working \ {"rules"} => job'.lists = lists' \/ Ahead'
  BY <1>3, <1>a DEF Ahead
<1>4. ASSUME NEW e \in Engines, EditRules(e) PROVE UNCHANGED <<lists, fetch, dirty, loop, job, table>>
  BY <1>4 DEF EditRules
<1>5. ASSUME NEW name \in Names, Forward(name) \/ AnswerFails(name) \/ ResolveFails(name)
      PROVE  UNCHANGED <<lists, fetch, dirty, loop, job, table>>
  BY <1>5 DEF Forward, AnswerFails, ResolveFails
<1>6. ASSUME NEW name \in Names, NEW a \in Addrs, Answer(name, a) \/ Resolve(name, a)
      PROVE  UNCHANGED <<lists, fetch, dirty, loop, job, table>>
  BY <1>6 DEF Answer, Resolve
<1>7. ASSUME NEW a \in Addrs, Expire(a) PROVE UNCHANGED <<lists, fetch, dirty, loop, job, table>>
  BY <1>7 DEF Expire
<1>8. CASE StartRound \/ Stop \/ Kill \/ UNCHANGED vars
  BY <1>8, <1>a DEF StartRound, Stop, Kill
<1>9. ASSUME NEW list \in BlockLists, SetLists(list) PROVE Ahead'
  BY <1>9 DEF SetLists, Ahead
<1>10. CASE Announce
  BY <1>10 DEF Announce, Ahead
<1>11. CASE CacheFails \/ SetupFails
  BY <1>3, <1>11 DEF CacheFails, SetupFails, Fails
\* The loop lowers the flag only as it turns to the rules.
<1>12. CASE Tick
  BY <1>3, <1>12 DEF Tick, Changed, Ahead, Working
<1>13. CASE ReadRules
  BY <1>13 DEF ReadRules, Working
<1>14. CASE ReadRulesAgain \/ ReadNames
  <2>1. job \in Job /\ loop \in Working \ {"rules"}
    BY <1>0, <1>14 DEF TypeOK, ReadRulesAgain, ReadNames, Working
  <2>2. job'.lists = job.lists
    BY <2>1, <1>14 DEF ReadRulesAgain, ReadNames, Job
  <2> QED
    BY <1>3, <1>14, <2>1, <2>2 DEF ReadRulesAgain, ReadNames, Ahead, Working
<1>15. CASE AddRouting
  BY <1>3, <1>15 DEF AddRouting, Ahead, Working
<1>16. CASE ReplaceTable
  BY <1>3, <1>16 DEF ReplaceTable, Ahead, Working
\* The rest are steps of a process that ends, or is gone.
<1>17. CASE LoopEnds \/ RemoveTable \/ RemoveRouting \/ Exit \/ CaptureDown \/ StartFails
  BY <1>2, <1>17 DEF LoopEnds, RemoveTable, RemoveRouting, Exit, CaptureDown, StartFails, Gone
<1> QED
  BY <1>a, <1>4, <1>5, <1>6, <1>7, <1>8, <1>9, <1>10, <1>11, <1>12, <1>13, <1>14, <1>15,
     <1>16, <1>17 DEF Next, LoopWorks

\* A new block list reaches the kernel: once refreshDoH has announced it and
\* the loop has nothing to do, the kernel refuses what the lists name, for any
\* lists, rules and edits in between, as long as no call of the two fails.
THEOREM CaptureListsInForce == Spec => []ListsInForce
PROOF
<1>1. LInv => ListsInForce
  BY NoneAssumption DEF LInv, IInv, TableIsApplied, ListsFollow, ListsInForce, Ahead, Working
<1>2. Init => LInv
  BY InitIInv, InitLists DEF LInv
<1>3. LInv /\ [Next]_vars => LInv'
  BY NextIInv, NextLists DEF LInv
<1> QED
  BY <1>1, <1>2, <1>3, PTL DEF Spec
=============================================================================
