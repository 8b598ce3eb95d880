----------------------------- MODULE FakeIPPool -----------------------------
(***************************************************************************)
(* The table of one address family while the process runs: every DNS       *)
(* answer calls Pool.V4 or Pool.V6, every captured connection Pool.Lookup, *)
(* all of them under Pool.mu, so one call is one step.                     *)
(***************************************************************************)
EXTENDS FakeIPFamily

VARIABLES
  fam,    \* the family record
  given,  \* history: number of allocations so far
  born    \* history: born[o] is the allocation that gave offset o away

poolVars == <<fam, given, born>>

PoolInit ==
  /\ fam = newFamily
  /\ given = 0
  /\ born = [o \in Offsets |-> 0]

\* Pool.V4 / Pool.V6 for name n.
Get(n) ==
  /\ fam' = get(fam, n)
  /\ IF fam.byName[n] = NoOff
       THEN /\ given' = given + 1
            /\ born' = [born EXCEPT ![fam.next] = given]
       ELSE UNCHANGED <<given, born>>

PoolNext == \E n \in Names : Get(n)

PoolSpec == PoolInit /\ [][PoolNext]_poolVars

-----------------------------------------------------------------------------
(* The table as a line of names: those before the cursor while an address  *)
(* is unused, all of them from the cursor on when none is.                 *)

Crowded == \A o \in Offsets : fam.byOff[o] # NoName
Used == IF Crowded THEN Size ELSE fam.next
Place(i) == IF ~Crowded THEN i - 1
            ELSE IF fam.next + i - 1 < Size THEN fam.next + i - 1 ELSE fam.next + i - 1 - Size
line == [i \in 1 .. Used |-> fam.byOff[Place(i)]]

Line == INSTANCE NameQueue WITH queue <- line

\* The table implements the line: an address passes on only when there is no
\* unused one, from the name that has had its address longest, to a name that
\* has none (pool.go:84).
FollowsQueue == Line!Queueing

-----------------------------------------------------------------------------
PoolTypeOK ==
  /\ fam \in Families
  /\ given \in Nat
  /\ born \in [Offsets -> Nat]

\* Pool.byName and Pool.byOff never disagree: two names never share an
\* address and an address never leads to a name that has moved elsewhere.
TablesAgree == Bijective(fam)

\* The address a DNS answer carries is looked up as the name that was
\* asked for, and the network and last addresses belong to nobody.
AnswerRoundTrip ==
  /\ \A n \in Names :
        fam.byName[n] # NoOff => lookup(fam, addr(fam.byName[n])) = n
  /\ lookup(fam, 0) = NoName
  /\ Span < 2 * MaxEntries => lookup(fam, Span - 1) = NoName

\* No name loses its address while an address is still unused.
NoEvictionWhileFree ==
  [][\A n \in Names :
        fam.byName[n] # NoOff /\ fam'.byName[n] = NoOff
          => \A o \in Offsets : fam.byOff[o] # NoName]_poolVars

\* A name keeps its address until Size other names have been given one
\* since (the comment on maxEntries): an address changes hands only when
\* it is the Size-th allocation after the one that gave it away.
KeepsAddressForSize ==
  [][\A o \in Offsets :
        fam.byOff[o] # NoName /\ fam'.byOff[o] # fam.byOff[o]
          => given = born[o] + Size]_poolVars

\* How many allocations ago the cursor passed offset o.
Age(o) == IF o < fam.next THEN fam.next - o ELSE fam.next + Size - o

\* The strengthening that makes the properties above inductive.
Ring ==
  \A o \in Offsets : fam.byOff[o] # NoName => born[o] + Age(o) = given

IInv == PoolTypeOK /\ TablesAgree /\ FilledInOrder(fam) /\ Ring
=============================================================================
