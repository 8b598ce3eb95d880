------------------------------ MODULE DoHCache -------------------------------
(***************************************************************************)
(* Resolving a name at an exit node (internal/egress/doh.go): A and AAAA   *)
(* are asked for at once, each is tried twice, and the answer is cached    *)
(* when both have answered.  Several connections look the same name up     *)
(* while its records change.                                               *)
(*                                                                         *)
(* A unit of time is 10 seconds: twice a query's timeout, and so the time  *)
(* a lookup can take.                                                      *)
(***************************************************************************)
EXTENDS Naturals, FiniteSets, FiniteSetsExt

CONSTANTS
  Lookups,          \* connections that look the name up
  MinTTL, MaxTTL,   \* minCacheTTL, maxCacheTTL
  Zones             \* scenarios: [changes, family, ttl, faults, until]

\* family: whose records change; ttl: what all records say.
DoHAssumption ==
  /\ MinTTL \in Nat \ {0} /\ MaxTTL \in Nat /\ MinTTL <= MaxTTL
  /\ Zones \subseteq [changes : Nat, family : SUBSET {"A", "AAAA"}, ttl : Nat, faults : Nat, until : Nat]
ASSUME DoHAssumption

VARIABLES
  plan,   \* changes, failures and time left to the scenario
  zone,   \* the records of each family: a version, 0 for none
  held,   \* the record: what each family was in each unit of time
  now,
  cache,  \* the entry, expired or not: its records and its end
  look    \* each lookup

dohVars == <<plan, zone, held, now, cache, look>>

RecordTypes == {"A", "AAAA"}
unasked == [state |-> "ask", val |-> 0, ttl |-> 0]
idleLook == [pc |-> "idle", begun |-> 0, got |-> [f \in RecordTypes |-> unasked], val |-> [f \in RecordTypes |-> 0], whole |-> FALSE]
noEntry == [val |-> [f \in RecordTypes |-> 0], expires |-> 0]

DoHInit ==
  /\ plan \in Zones
  /\ zone = [f \in RecordTypes |-> 1]
  /\ held = [f \in RecordTypes |-> <<{1}>>]
  /\ now = 1
  /\ cache = noEntry
  /\ look = [l \in Lookups |-> idleLook]

Clamp(ttl) == Min({Max({ttl, MinTTL}), MaxTTL})

\* Lookup: an entry that has not expired, or two queries.
Lookup(l) ==
  /\ look[l].pc \in {"idle", "done"}
  /\ now < plan.until
  /\ look' = IF now < cache.expires
             THEN [look EXCEPT ![l] = [idleLook EXCEPT !.pc = "done", !.begun = now, !.val = cache.val, !.whole = TRUE]]
             ELSE [look EXCEPT ![l] = [idleLook EXCEPT !.pc = "ask", !.begun = now]]
  /\ UNCHANGED <<plan, zone, held, now, cache>>

\* query answers what the zone holds; a name without any records does not
\* exist, which is an error, but not one to retry.
Exists == \E f \in RecordTypes : zone[f] # 0
QueryAnswers(l, f) ==
  /\ look[l].pc = "ask" /\ look[l].got[f].state \in {"ask", "again"}
  /\ look' = [look EXCEPT ![l].got[f] =
       [state |-> IF Exists THEN "ok" ELSE "error", val |-> zone[f], ttl |-> IF zone[f] = 0 THEN MaxTTL ELSE Min({plan.ttl, MaxTTL})]]
  /\ UNCHANGED <<plan, zone, held, now, cache>>

\* queryRetry: it fails, and is tried again on a new connection.
QueryFails(l, f) ==
  /\ look[l].pc = "ask" /\ look[l].got[f].state \in {"ask", "again"}
  /\ plan.faults > 0
  /\ plan' = [plan EXCEPT !.faults = @ - 1]
  /\ look' = [look EXCEPT ![l].got[f].state = IF @ = "ask" THEN "again" ELSE "error"]
  /\ UNCHANGED <<zone, held, now, cache>>

Both(l) == look[l].pc = "ask" /\ \A f \in RecordTypes : look[l].got[f].state \in {"ok", "error"}
Values(l) == [f \in RecordTypes |-> look[l].got[f].val]
Errors(l) == {f \in RecordTypes : look[l].got[f].state = "error"}
WithRecords(l) == {f \in RecordTypes : look[l].got[f].val # 0}
Entry(l) == [val |-> Values(l), expires |-> now + Clamp(Min({MaxTTL} \cup {look[l].got[f].ttl : f \in WithRecords(l)}))]
Done(l, whole) == look' = [look EXCEPT ![l] = [idleLook EXCEPT !.pc = "done", !.begun = look[l].begun, !.val = Values(l), !.whole = whole]]

LookupFails(l) ==
  /\ Both(l) /\ WithRecords(l) = {}
  /\ look' = [look EXCEPT ![l] = idleLook]
  /\ UNCHANGED <<plan, zone, held, now, cache>>

StoreAlways(l) ==
  /\ Both(l) /\ WithRecords(l) # {}
  /\ Done(l, Errors(l) = {})
  /\ cache' = Entry(l)
  /\ UNCHANGED <<plan, zone, held, now>>

\* A result is cached only when both queries answered.
Store(l) ==
  /\ Both(l) /\ WithRecords(l) # {}
  /\ Done(l, Errors(l) = {})
  /\ cache' = IF Errors(l) = {} THEN Entry(l) ELSE cache
  /\ UNCHANGED <<plan, zone, held, now>>

-----------------------------------------------------------------------------

\* The name's records change.
Change ==
  /\ plan.changes > 0
  /\ plan' = [plan EXCEPT !.changes = @ - 1]
  /\ \E f \in plan.family, v \in {0, now + 1} :
       /\ zone' = [zone EXCEPT ![f] = v]
       /\ held' = [held EXCEPT ![f][now] = @ \cup {v}]
  /\ UNCHANGED <<now, cache, look>>

\* Time passes; a lookup is over within the unit after the one it began in.
Tick ==
  /\ now < plan.until
  /\ \A l \in Lookups : look[l].pc = "ask" => look[l].begun = now
  /\ now' = now + 1
  /\ held' = [f \in RecordTypes |-> [t \in 1..now + 1 |-> IF t = now + 1 THEN {zone[f]} ELSE held[f][t]]]
  /\ UNCHANGED <<plan, zone, cache, look>>

DoHNext ==
  \/ \E l \in Lookups : \/ Lookup(l) \/ Store(l) \/ LookupFails(l)
                        \/ \E f \in RecordTypes : QueryAnswers(l, f) \/ QueryFails(l, f)
  \/ Change \/ Tick

-----------------------------------------------------------------------------

\* What a lookup returns was so not long ago: each of its records was the
\* name's within the longest TTL and the time a lookup takes, and a family it
\* says nothing of had none, unless it could not be asked this very time
\* (doh.go:52).
ServedTrue ==
  \A l \in Lookups : look[l].pc = "done" =>
    \A f \in RecordTypes :
      (look[l].val[f] # 0 \/ look[l].whole) =>
        \E t \in Max({1, look[l].begun - MaxTTL - 1})..now : look[l].val[f] \in held[f][t]
=============================================================================
