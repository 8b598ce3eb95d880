---------------------------- MODULE EgressGroups ----------------------------
(***************************************************************************)
(* The choice of a member in a group of egresses: group.pick of            *)
(* internal/egress/manager.go.  A member is what pick sees of it: whether  *)
(* it is ready, and its last health check, Unmeasured if it had none, Failed *)
(* or the time it took.                                                    *)
(***************************************************************************)
EXTENDS Integers, Sequences

Unmeasured == -1
Failed == -2
Nobody == 0

\* What healthOK and Ready make of a member.
healthOK(m) == m.health # Failed
measured(m) == m.health >= 0
Candidate(m) == m.ready /\ healthOK(m)

\* Faulty variant: a member nobody measured counts as the fastest.
PreferredUnmeasured(kind, members, best, i) ==
  /\ Candidate(members[i])
  /\ \/ best = Nobody
     \/ kind = "latency" /\ members[i].health < members[best].health

\* The member takes the place of the best so far.  pick keeps 0 as the time of
\* an unmeasured best, so any measured member takes its place, and also that of
\* a member measured at 0.
Preferred(kind, members, best, i) ==
  /\ Candidate(members[i])
  /\ \/ best = Nobody
     \/ /\ kind = "latency"
        /\ measured(members[i])
        /\ \/ ~measured(members[best]) \/ members[best].health = 0
           \/ members[i].health < members[best].health

\* The loop of pick over the first n members, in the order of the configuration.
pick(kind, members) ==
  LET best[n \in 0..Len(members)] ==
        IF n = 0 THEN Nobody
        ELSE IF Preferred(kind, members, best[n - 1], n) THEN n ELSE best[n - 1]
  IN  best[Len(members)]

\* What a group promises.  fallback: the first candidate.  latency: a candidate
\* none is faster than; one that was never measured only if all are so, and then
\* the first.
Best(kind, members, b) ==
  LET C == {n \in 1..Len(members) : Candidate(members[n])}
      M == {n \in C : measured(members[n])}
  IN  IF C = {} THEN b = Nobody
      ELSE /\ b \in C
           /\ IF kind = "latency" /\ M # {}
              THEN b \in M /\ \A n \in M : members[b].health <= members[n].health
              ELSE \A n \in C : b <= n
=============================================================================
