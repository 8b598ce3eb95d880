----------------------------- MODULE RuleEngine -----------------------------
(***************************************************************************)
(* The first-match rule engine (internal/rule): where a connection goes,   *)
(* and the three questions DNS and capture ask of the same rules before    *)
(* any connection exists.  An engine is immutable: a sequence of compiled  *)
(* rules.  How a name matches a condition (exact, suffix, keyword, after   *)
(* normalisation) is abstracted to the set of names that match it, and a   *)
(* prefix to the set of its addresses.                                     *)
(***************************************************************************)
EXTENDS Integers, Sequences

CONSTANTS
  Names,    \* domain names and outer server names, normalised
  Addrs,    \* real addresses
  Ports,
  Targets,  \* egresses, reject and direct
  Direct,
  NoName,   \* the name or address of a connection is not known
  NoAddr

ASSUME EngineAssumption ==
  /\ Direct \in Targets
  /\ NoName \notin Names
  /\ NoAddr \notin Addrs

\* One entry of domain, domain_suffix or domain_keyword: the names it matches,
\* and the host it spells out (NoName: a keyword, or a suffix with no dot).
Condition == [host : Names \union {NoName}, names : SUBSET Names]

\* A compiled rule.  No port listed means every port.
Rule == [domains  : SUBSET Condition,
         prefixes : SUBSET SUBSET Addrs,
         outer    : SUBSET Names,
         ports    : SUBSET Ports,
         target   : Targets,
         final    : BOOLEAN]

Query == [domain : Names \union {NoName}, ip : Addrs \union {NoAddr},
          port : Ports, outer : Names \union {NoName}]

HasDomain(r) == r.domains # {}
HasDest(r) == HasDomain(r) \/ r.prefixes # {} \/ r.outer # {}

\* What Config.Validate lets through: every rule but a last, final one has a
\* condition.
Accepted(rules) ==
  \A i \in DOMAIN rules :
    IF rules[i].final
    THEN i = Len(rules) /\ ~HasDest(rules[i]) /\ rules[i].ports = {}
    ELSE HasDest(rules[i]) \/ rules[i].ports # {}

NameMatches(r, name) == name # NoName /\ \E c \in r.domains : name \in c.names
AddrMatches(r, ip) == ip # NoAddr /\ \E p \in r.prefixes : ip \in p

\* A rule without destination conditions matches every destination.
MatchDest(r, name, ip) == ~HasDest(r) \/ NameMatches(r, name) \/ AddrMatches(r, ip)
MatchOuterSNI(r, outer) == outer # NoName /\ outer \in r.outer

Matches(r, q) ==
  \/ r.final
  \/ /\ r.ports = {} \/ q.port \in r.ports
     /\ MatchDest(r, q.domain, q.ip) \/ MatchOuterSNI(r, q.outer)

Decides(rules, q, i) ==
  /\ i \in DOMAIN rules
  /\ Matches(rules[i], q)
  /\ \A j \in DOMAIN rules : j < i => ~Matches(rules[j], q)

\* Engine.Match: the target of the first rule that matches, or direct.
Match(rules, q) ==
  IF \E i \in DOMAIN rules : Decides(rules, q, i)
  THEN rules[CHOOSE i \in DOMAIN rules : Decides(rules, q, i)].target
  ELSE Direct

\* Engine.DomainMayRoute walks the rules until one answers.  This one says
\* that some port of name goes elsewhere than direct ...
SaysRouted(r, name) ==
  /\ r.target # Direct
  /\ r.final \/ ~HasDest(r) \/ NameMatches(r, name)

\* ... and this one that every port that is left goes direct.
EndsDirect(r, name) ==
  /\ r.target = Direct
  /\ r.final \/ (NameMatches(r, name) /\ r.ports = {})

DomainMayRoute(rules, name) ==
  \E i \in DOMAIN rules :
    /\ SaysRouted(rules[i], name)
    /\ \A j \in DOMAIN rules : j < i => ~EndsDirect(rules[j], name)

\* Engine.RoutedPrefixes; the order of the list is abstracted.
RoutedPrefixes(rules) ==
  UNION {rules[i].prefixes : i \in {j \in DOMAIN rules : rules[j].target # Direct}}

\* Engine.RoutedHosts: the hosts spelled out in rules that route.
RoutedHosts(rules) ==
  {h \in Names : \E i \in DOMAIN rules :
     /\ ~rules[i].final /\ rules[i].target # Direct
     /\ \E c \in rules[i].domains : c.host = h}
=============================================================================
