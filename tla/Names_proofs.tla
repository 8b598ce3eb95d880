---------------------------- MODULE Names_proofs ----------------------------
(***************************************************************************)
(* Where names come from and what becomes of them, for every table, hello,  *)
(* query and record: the FakeIP table, while the process runs and, with its *)
(* file, across saves, crashes and restarts; the name in the first bytes of *)
(* a TCP connection and in a QUIC ClientHello; the answers to DNS queries;  *)
(* and what is resolved at an exit.                                         *)
(***************************************************************************)
EXTENDS FakeIPPool, FakeIPStore, Sniff, QUICHello, DNSQueries, DoHCache,
        SequenceTheorems, WellFoundedInduction, TLAPS

-----------------------------------------------------------------------------
(* Natural numbers, and functions defined by recursion on them.            *)

\* A set of natural numbers has a least element.
LEMMA Least ==
  ASSUME NEW T, T \subseteq Nat, T # {}
  PROVE  \E x \in T : \A y \in T : ~(y < x)
  <1> DEFINE R == OpToRel(<, Nat)
  <1>1. IsWellFoundedOn(R, Nat)
    BY NatLessThanWellFounded
  <1>2. \A x, y \in Nat : x < y => <<x, y>> \in R
    BY DEF OpToRel
  <1> HIDE DEF R
  <1>3. PICK x \in T : \A y \in T : ~(<<y, x>> \in R)
    BY <1>1, WFMin
  <1>4. \A y \in T : ~(y < x)
    BY <1>2, <1>3, Zenon
  <1> QED
    BY <1>4

\* Min of FiniteSetsExt is that element.
LEMMA MinIsLeast ==
  ASSUME NEW T, T \subseteq Nat, T # {}
  PROVE  Min(T) \in T /\ \A y \in T : Min(T) <= y
  <1>1. PICK x \in T : \A y \in T : ~(y < x)
    BY Least
  <1>2. x \in T /\ \A y \in T : x <= y
    BY <1>1
  <1> QED
    BY <1>2 DEF Min

\* A bounded set of natural numbers has a greatest element.
LEMMA Greatest ==
  ASSUME NEW m \in Nat, NEW T, T \subseteq 0..m, T # {}
  PROVE  \E x \in T : \A y \in T : ~(y > x)
  <1> DEFINE D == {m - x : x \in T}
  <1>1. D \subseteq Nat /\ D # {}
    <2>1. \A x \in T : m - x \in Nat
      OBVIOUS
    <2>2. PICK t : t \in T
      OBVIOUS
    <2>3. m - t \in D
      BY <2>2
    <2> QED
      BY <2>1, <2>3
  <1>2. PICK a \in D : \A b \in D : ~(b < a)
    <2> HIDE DEF D
    <2> QED
      BY <1>1, Least
  <1>3. PICK x \in T : a = m - x
    <2>1. a \in D
      BY <1>2
    <2> QED
      BY <2>1
  <1>4. ASSUME NEW y \in T PROVE ~(y > x)
    <2>1. m - y \in D
      OBVIOUS
    <2>2. ~(m - y < m - x)
      BY <1>2, <1>3, <2>1
    <2>3. x \in Int /\ y \in Int
      OBVIOUS
    <2> QED
      BY <2>2, <2>3
  <1> QED
    BY <1>4

\* Max of FiniteSetsExt is the greatest element.
LEMMA MaxIsIn ==
  ASSUME NEW m \in Nat, NEW T, T \subseteq 0..m, T # {}
  PROVE  Max(T) \in T
  <1>1. PICK x \in T : \A y \in T : ~(y > x)
    BY Greatest
  <1>2. x \in T /\ \A y \in T : x >= y
    BY <1>1
  <1> QED
    BY <1>2 DEF Max

\* What holds at 0 and after each step holds up to m.
LEMMA Onwards ==
  ASSUME NEW m \in Nat, NEW S, 0 \in S, \A n \in 1..m : n - 1 \in S => n \in S
  PROVE  \A n \in 0..m : n \in S
  <1> DEFINE T == {n \in 0..m : n \notin S}
  <1> SUFFICES ASSUME T # {} PROVE FALSE
    OBVIOUS
  <1>1. PICK n \in T : \A i \in T : ~(i < n)
    <2>1. T \subseteq Nat
      OBVIOUS
    <2> HIDE DEF T
    <2> QED
      BY <2>1, Least
  <1>2. n \in 1..m /\ n - 1 \in 0..m /\ n - 1 < n
    BY <1>1
  <1>3. n - 1 \in S
    BY <1>1, <1>2
  <1> QED
    BY <1>1, <1>2, <1>3

\* A recursion in which each value is made from the one before it has a
\* function that satisfies it.
Unfolding(m, V, base, F, g) ==
  g \in [0..m -> V] /\ g[0] = base /\ \A i \in 1..m : g[i] = F[<<g[i - 1], i>>]

\* A recursive function on the numbers up to m exists: otherwise there would be
\* a least m for which it does not.
LEMMA Unfolds ==
  ASSUME NEW m \in Nat, NEW V, NEW base \in V, NEW F \in [V \X (1..m) -> V]
  PROVE  \E g : Unfolding(m, V, base, F, g)
  <1> DEFINE Runs(n, g) == g[0] = base /\ \A i \in 1..n : g[i] = F[<<g[i - 1], i>>]
             S == {n \in 0..m : \E g \in [0..n -> V] : Runs(n, g)}
  <1>1. 0 \in S
    <2> DEFINE g == [i \in 0..0 |-> base]
    <2>1. g \in [0..0 -> V] /\ g[0] = base /\ 1..0 = {}
      OBVIOUS
    <2> HIDE DEF g
    <2>2. Runs(0, g)
      BY <2>1
    <2> HIDE DEF Runs
    <2> QED
      BY <2>1, <2>2
  <1>2. ASSUME NEW n \in 1..m, n - 1 \in S PROVE n \in S
    <2>1. PICK g \in [0..(n - 1) -> V] : Runs(n - 1, g)
      BY <1>2
    <2> DEFINE last == F[<<g[n - 1], n>>]
               h == [i \in 0..n |-> IF i = n THEN last ELSE g[i]]
    <2>2. last \in V
      <3>1. g[n - 1] \in V
        OBVIOUS
      <3> QED
        BY <3>1
    <2>3. h[n] = last /\ \A i \in 0..(n - 1) : h[i] = g[i]
      <3> HIDE DEF last
      <3> QED
        OBVIOUS
    <2>4. h \in [0..n -> V]
      <3>1. \A i \in 0..n : i # n => i \in 0..(n - 1) /\ g[i] \in V
        OBVIOUS
      <3> HIDE DEF last
      <3> QED
        BY <2>2, <3>1
    <2> HIDE DEF h
    <2>5. h[0] = base
      <3>1. 0 \in 0..(n - 1)
        OBVIOUS
      <3> QED
        BY <2>1, <2>3, <3>1
    <2>6. ASSUME NEW i \in 1..n PROVE h[i] = F[<<h[i - 1], i>>]
      <3>1. i - 1 \in 0..(n - 1) /\ h[i - 1] = g[i - 1]
        BY <2>3
      <3>2. CASE i = n
        BY <2>3, <3>1, <3>2
      <3>3. CASE i # n
        <4>1. i \in 1..(n - 1) /\ i \in 0..(n - 1)
          BY <3>3
        <4>2. g[i] = F[<<g[i - 1], i>>]
          BY <2>1, <4>1
        <4> QED
          BY <2>3, <3>1, <4>1, <4>2
      <3> QED
        BY <3>2, <3>3
    <2>7. Runs(n, h)
      BY <2>5, <2>6
    <2> HIDE DEF Runs
    <2> QED
      BY <2>4, <2>7
  <1> HIDE DEF S
  <1>3. m \in S
    BY <1>1, <1>2, Onwards
  <1> USE DEF S
  <1> QED
    BY <1>3 DEF Unfolding

-----------------------------------------------------------------------------
(* The operators of FakeIPFamily.                                          *)

\* newFamily leaves at least two usable addresses.
LEMMA SizeType == Size \in Nat /\ Size >= 2
  BY SpanAssumption, MaxEntriesAssumption DEF Size

\* The cursor stays in the table and moves on by one or back to the start.
LEMMA CursorStep ==
  ASSUME NEW i \in Offsets
  PROVE  /\ (i + 1) % Size \in Offsets
         /\ (i + 1) % Size = IF i + 1 = Size THEN 0 ELSE i + 1
  BY SizeType DEF Offsets

\* A fresh table has the right type, agrees with itself and is unused.
LEMMA NewFamilyIsGood ==
  /\ newFamily \in Families
  /\ Bijective(newFamily)
  /\ FilledInOrder(newFamily)
  BY SizeType, NoNameAssumption DEF newFamily, Families, Offsets, Bijective, FilledInOrder

\* What giving a new name an address does to the record.
LEMMA AllocateFields ==
  ASSUME NEW f \in Families, NEW n \in Names
  PROVE  /\ allocate(f, n) \in Families
         /\ allocate(f, n).next = (f.next + 1) % Size
         /\ \A q \in Offsets : allocate(f, n).byOff[q] =
               IF q = f.next THEN n ELSE f.byOff[q]
         /\ \A m \in Names : allocate(f, n).byName[m] =
               IF m = n THEN f.next
               ELSE IF m = f.byOff[f.next] THEN NoOff ELSE f.byName[m]
  <1>1. f.next \in Offsets
    BY DEF Families
  <1>2. (f.next + 1) % Size \in Offsets
    BY <1>1, CursorStep
  <1>3. QED
    BY <1>1, <1>2 DEF Families, allocate

\* Allocation keeps the two maps inverse to each other.
LEMMA AllocateBijective ==
  ASSUME NEW f \in Families, NEW n \in Names, Bijective(f), f.byName[n] = NoOff
  PROVE  Bijective(allocate(f, n))
  <1> DEFINE g == allocate(f, n)
             o == f.next
             old == f.byOff[o]
  <1>1. /\ o \in Offsets
        /\ old \in Names \union {NoName}
        /\ f.byOff \in [Offsets -> Names \union {NoName}]
        /\ f.byName \in [Names -> Offsets \union {NoOff}]
    BY DEF Families
  <1>2. /\ \A q \in Offsets : g.byOff[q] = IF q = o THEN n ELSE f.byOff[q]
        /\ \A m \in Names : g.byName[m] =
               IF m = n THEN o ELSE IF m = old THEN NoOff ELSE f.byName[m]
    BY <1>1, AllocateFields
  <1>3. NoOff \notin Offsets
    BY NoOffAssumption, SizeType DEF Offsets
  <1> HIDE DEF g, o, old
  <1>4. ASSUME NEW m \in Names, g.byName[m] # NoOff
        PROVE  g.byOff[g.byName[m]] = m
    <2>1. CASE m = n
      BY <2>1, <1>1, <1>2
    <2>2. CASE m # n
      <3>1. m # old /\ g.byName[m] = f.byName[m] /\ f.byName[m] # NoOff
        BY <2>2, <1>2, <1>4
      <3>2. f.byName[m] \in Offsets /\ f.byOff[f.byName[m]] = m
        BY <3>1, <1>1 DEF Bijective
      <3>3. f.byName[m] # o
        BY <3>1, <3>2 DEF old
      <3>4. QED
        BY <3>1, <3>2, <3>3, <1>2
    <2>3. QED
      BY <2>1, <2>2
  <1>5. ASSUME NEW q \in Offsets, g.byOff[q] # NoName
        PROVE  g.byName[g.byOff[q]] = q
    <2>1. CASE q = o
      BY <2>1, <1>1, <1>2
    <2>2. CASE q # o
      <3>1. g.byOff[q] = f.byOff[q] /\ f.byOff[q] # NoName /\ f.byOff[q] \in Names
        BY <2>2, <1>1, <1>2, <1>5
      <3>2. f.byName[f.byOff[q]] = q
        BY <3>1 DEF Bijective
      <3>3. f.byOff[q] # n
        BY <3>2, <1>3
      <3>4. f.byOff[q] # old
        <4>1. SUFFICES ASSUME f.byOff[q] = old PROVE FALSE
          OBVIOUS
        <4>2. f.byName[old] = o
          BY <4>1, <3>1, <1>1 DEF Bijective, old
        <4>3. QED
          BY <4>1, <4>2, <3>2, <2>2
      <3>5. QED
        BY <3>1, <3>2, <3>3, <3>4, <1>2
    <2>3. QED
      BY <2>1, <2>2
  <1>6. Bijective(g)
    BY <1>4, <1>5 DEF Bijective
  <1>7. QED
    BY <1>6 DEF g

\* Allocation fills the offsets in order and, once all are used, keeps them so.
LEMMA AllocateFills ==
  ASSUME NEW f \in Families, NEW n \in Names, FilledInOrder(f)
  PROVE  FilledInOrder(allocate(f, n))
  <1> DEFINE g == allocate(f, n)
  <1>1. /\ f.next \in Offsets
        /\ f.byOff \in [Offsets -> Names \union {NoName}]
    BY DEF Families
  <1>2. \A q \in Offsets : g.byOff[q] = IF q = f.next THEN n ELSE f.byOff[q]
    BY <1>1, AllocateFields
  <1>3. g.next = IF f.next + 1 = Size THEN 0 ELSE f.next + 1
    BY <1>1, AllocateFields, CursorStep
  <1>4. n # NoName
    BY NoNameAssumption
  <1> HIDE DEF g
  <1>5. CASE \A o \in Offsets : f.byOff[o] # NoName
    <2>1. \A o \in Offsets : g.byOff[o] # NoName
      BY <1>2, <1>4, <1>5
    <2>2. QED
      BY <2>1 DEF FilledInOrder, g
  <1>6. CASE \A o \in Offsets : f.byOff[o] # NoName <=> o < f.next
    <2>1. \A o \in Offsets : g.byOff[o] # NoName <=> o < f.next \/ o = f.next
      BY <1>2, <1>4, <1>6
    <2>2. CASE f.next + 1 = Size
      <3>1. \A o \in Offsets : g.byOff[o] # NoName
        BY <2>1, <2>2, <1>1, SizeType DEF Offsets
      <3>2. QED
        BY <3>1 DEF FilledInOrder, g
    <2>3. CASE f.next + 1 # Size
      <3>1. \A o \in Offsets : g.byOff[o] # NoName <=> o < g.next
        BY <2>1, <2>3, <1>1, <1>3, SizeType DEF Offsets
      <3>2. QED
        BY <3>1 DEF FilledInOrder, g
    <2>4. QED
      BY <2>2, <2>3
  <1>7. QED
    BY <1>5, <1>6 DEF FilledInOrder

\* family.get keeps the type of the record and its two invariants.
LEMMA GetIsGood ==
  ASSUME NEW f \in Families, NEW n \in Names, Bijective(f), FilledInOrder(f)
  PROVE  get(f, n) \in Families /\ Bijective(get(f, n)) /\ FilledInOrder(get(f, n))
  BY AllocateFields, AllocateBijective, AllocateFills DEF get

-----------------------------------------------------------------------------
(* The table.                                                              *)

\* A hit changes nothing; a miss is an allocation recorded in the history.
LEMMA GetCases ==
  ASSUME PoolTypeOK, NEW n \in Names, Get(n)
  PROVE  \/ UNCHANGED poolVars
         \/ /\ fam.byName[n] = NoOff
            /\ fam' = allocate(fam, n)
            /\ given' = given + 1
            /\ born' = [born EXCEPT ![fam.next] = given]
  BY DEF Get, get, poolVars

\* The age of every offset but the one given away grows by one, and that
\* one starts again at one.
LEMMA AgeStep ==
  ASSUME PoolTypeOK, fam'.next = IF fam.next + 1 = Size THEN 0 ELSE fam.next + 1,
         NEW o \in Offsets
  PROVE  Age(o)' = IF o = fam.next THEN 1 ELSE Age(o) + 1
  <1>1. fam.next \in Offsets
    BY DEF PoolTypeOK, Families
  <1>2. CASE fam.next + 1 = Size
    BY <1>1, <1>2, SizeType DEF Offsets, Age
  <1>3. CASE fam.next + 1 # Size
    BY <1>1, <1>3, SizeType DEF Offsets, Age
  <1>4. QED
    BY <1>2, <1>3

\* The invariant holds of the empty table.
LEMMA IndInit == PoolInit => IInv
  <1> SUFFICES ASSUME PoolInit PROVE IInv
    OBVIOUS
  <1>1. PoolTypeOK
    BY NewFamilyIsGood DEF PoolInit, PoolTypeOK
  <1>2. TablesAgree /\ FilledInOrder(fam)
    BY NewFamilyIsGood DEF PoolInit, TablesAgree
  <1>3. Ring
    BY DEF PoolInit, Ring, newFamily
  <1>4. QED
    BY <1>1, <1>2, <1>3 DEF IInv

\* Every lookup and allocation keeps it.
LEMMA IndStep == IInv /\ [PoolNext]_poolVars => IInv'
  <1> SUFFICES ASSUME IInv, [PoolNext]_poolVars PROVE IInv'
    OBVIOUS
  <1>1. CASE UNCHANGED poolVars
    BY <1>1 DEF poolVars, IInv, PoolTypeOK, TablesAgree, Ring, Age
  <1>2. ASSUME NEW n \in Names, fam.byName[n] = NoOff, fam' = allocate(fam, n),
               given' = given + 1, born' = [born EXCEPT ![fam.next] = given]
        PROVE  IInv'
    <2>1. fam \in Families /\ given \in Nat /\ born \in [Offsets -> Nat]
      BY DEF IInv, PoolTypeOK
    <2>2. fam.next \in Offsets
      BY <2>1 DEF Families
    <2>3. PoolTypeOK'
      BY <1>2, <2>1, <2>2, AllocateFields DEF PoolTypeOK
    <2>4. TablesAgree'
      BY <1>2, <2>1, AllocateBijective DEF IInv, TablesAgree
    <2>5. FilledInOrder(fam)'
      BY <1>2, <2>1, AllocateFills DEF IInv
    <2>6. Ring'
      <3> SUFFICES ASSUME NEW o \in Offsets, fam'.byOff[o] # NoName
                   PROVE  born'[o] + Age(o)' = given'
        BY DEF Ring
      <3>1. fam'.next = IF fam.next + 1 = Size THEN 0 ELSE fam.next + 1
        BY <1>2, <2>1, <2>2, AllocateFields, CursorStep
      <3>2. Age(o)' = IF o = fam.next THEN 1 ELSE Age(o) + 1
        BY <3>1, AgeStep DEF IInv
      <3>3. CASE o = fam.next
        BY <3>2, <3>3, <1>2, <2>1, <2>2
      <3>4. CASE o # fam.next
        <4>1. fam.byOff[o] # NoName
          BY <3>4, <1>2, <2>1, AllocateFields
        <4>2. born[o] + Age(o) = given
          BY <4>1 DEF IInv, Ring
        <4>3. Age(o) \in Nat
          BY <2>2, SizeType DEF Age, Offsets
        <4>4. born'[o] = born[o]
          BY <3>4, <1>2, <2>1, <2>2
        <4>5. QED
          BY <3>2, <3>4, <4>2, <4>3, <4>4, <1>2, <2>1
      <3>5. QED
        BY <3>3, <3>4
    <2>7. QED
      BY <2>3, <2>4, <2>5, <2>6 DEF IInv
  <1>3. QED
    BY <1>1, <1>2, GetCases DEF PoolNext, IInv

\* The invariant of the table, in every reachable state.
THEOREM PoolInvariant == PoolSpec => []IInv
  BY IndInit, IndStep, PTL DEF PoolSpec

\* The record keeps its type: the cursor and every stored offset stay
\* inside the table whatever its size.
THEOREM PoolTypes == PoolSpec => []PoolTypeOK
  <1>1. IInv => PoolTypeOK
    BY DEF IInv
  <1>2. QED
    BY <1>1, PoolInvariant, PTL

\* An answer leads back to the name it was given for, and the network and
\* last addresses of the prefix to no name.
THEOREM PoolRoundTrip == PoolSpec => []AnswerRoundTrip
  <1>1. IInv => AnswerRoundTrip
    <2> SUFFICES ASSUME IInv PROVE AnswerRoundTrip
      OBVIOUS
    <2>1. ASSUME NEW n \in Names, fam.byName[n] # NoOff
          PROVE  lookup(fam, addr(fam.byName[n])) = n
      <3>1. fam.byName[n] \in Offsets
        BY <2>1 DEF IInv, PoolTypeOK, Families
      <3>2. /\ inTable(addr(fam.byName[n]))
            /\ offset(addr(fam.byName[n])) = fam.byName[n]
        BY <3>1, SizeType DEF Offsets, inTable, addr, offset
      <3>3. QED
        BY <2>1, <3>2 DEF lookup, IInv, TablesAgree, Bijective
    <2>2. lookup(fam, 0) = NoName
      BY SizeType DEF lookup, inTable
    <2>3. Span < 2 * MaxEntries => lookup(fam, Span - 1) = NoName
      BY SpanAssumption, MaxEntriesAssumption DEF lookup, inTable, Size
    <2>4. QED
      BY <2>1, <2>2, <2>3 DEF AnswerRoundTrip
  <1>2. QED
    BY <1>1, PoolInvariant, PTL

\* A name loses its address only when no address is unused.
THEOREM PoolNoEvictionWhileFree == PoolSpec => NoEvictionWhileFree
  <1> DEFINE Step == \A n \in Names :
                fam.byName[n] # NoOff /\ fam'.byName[n] = NoOff
                  => \A o \in Offsets : fam.byOff[o] # NoName
  <1>1. IInv /\ [PoolNext]_poolVars => [Step]_poolVars
    <2> SUFFICES ASSUME IInv, [PoolNext]_poolVars, poolVars' # poolVars,
                        NEW n \in Names, fam.byName[n] # NoOff, fam'.byName[n] = NoOff
                 PROVE  \A o \in Offsets : fam.byOff[o] # NoName
      OBVIOUS
    <2>1. PICK m \in Names : fam' = allocate(fam, m)
      BY GetCases DEF PoolNext, IInv, poolVars
    <2>2. fam \in Families /\ fam.next \in Offsets
      BY DEF IInv, PoolTypeOK, Families
    <2>3. fam.byOff[fam.next] = n
      <3>1. fam'.byName[n] = IF n = m THEN fam.next
                             ELSE IF n = fam.byOff[fam.next] THEN NoOff ELSE fam.byName[n]
        BY <2>1, <2>2, AllocateFields
      <3>2. fam.next # NoOff
        BY <2>2, NoOffAssumption, SizeType DEF Offsets
      <3>3. QED
        BY <3>1, <3>2
    <2>4. fam.byOff[fam.next] # NoName
      BY <2>3, NoNameAssumption
    <2>5. QED
      BY <2>2, <2>4, SizeType DEF IInv, FilledInOrder, Offsets
  <1>2. QED
    BY <1>1, PoolInvariant, PTL DEF PoolSpec, NoEvictionWhileFree

\* An address passes to another name exactly Size allocations after the one
\* that gave it away: 65536 for the default pools.
THEOREM PoolKeepsAddress == PoolSpec => KeepsAddressForSize
  <1> DEFINE Step == \A o \in Offsets :
                fam.byOff[o] # NoName /\ fam'.byOff[o] # fam.byOff[o]
                  => given = born[o] + Size
  <1>1. IInv /\ [PoolNext]_poolVars => [Step]_poolVars
    <2> SUFFICES ASSUME IInv, [PoolNext]_poolVars, poolVars' # poolVars, NEW o \in Offsets,
                        fam.byOff[o] # NoName, fam'.byOff[o] # fam.byOff[o]
                 PROVE  given = born[o] + Size
      OBVIOUS
    <2>1. PICK m \in Names : fam' = allocate(fam, m)
      BY GetCases DEF PoolNext, IInv, poolVars
    <2>2. fam \in Families /\ fam.next \in Offsets
      BY DEF IInv, PoolTypeOK, Families
    <2>3. o = fam.next
      BY <2>1, <2>2, AllocateFields
    <2>4. Age(o) = Size
      BY <2>2, <2>3, SizeType DEF Age, Offsets
    <2>5. QED
      BY <2>4 DEF IInv, Ring
  <1>2. QED
    BY <1>1, PoolInvariant, PTL DEF PoolSpec, KeepsAddressForSize

\* Where the cursor is and how many names are in line.
LEMMA LineShape ==
  ASSUME IInv
  PROVE  /\ fam.next \in Offsets /\ fam.byOff \in [Offsets -> Names \union {NoName}]
         /\ Used \in 0 .. Size
         /\ \A i \in 1 .. Used : Place(i) \in Offsets /\ fam.byOff[Place(i)] \in Names
         /\ line \in [1 .. Used -> Names]
         /\ ~Crowded => \A o \in Offsets : fam.byOff[o] # NoName <=> o < fam.next
  <1>1. fam.next \in Offsets /\ fam.byOff \in [Offsets -> Names \union {NoName}]
    BY DEF IInv, PoolTypeOK, Families
  <1>2. ~Crowded => \A o \in Offsets : fam.byOff[o] # NoName <=> o < fam.next
    BY DEF IInv, FilledInOrder, Crowded
  <1>3. Used \in 0 .. Size
    BY <1>1, SizeType DEF Used, Offsets
  <1>4. \A i \in 1 .. Used : Place(i) \in Offsets
    BY <1>1, SizeType DEF Used, Place, Offsets
  <1>5. \A i \in 1 .. Used : fam.byOff[Place(i)] # NoName
    <2>1. CASE Crowded
      BY <1>4, <2>1 DEF Crowded
    <2>2. CASE ~Crowded
      BY <1>1, <1>2, <1>4, <2>2 DEF Used, Place, Offsets
    <2> QED
      BY <2>1, <2>2
  <1>6. \A i \in 1 .. Used : fam.byOff[Place(i)] \in Names
    BY <1>1, <1>4, <1>5
  <1>7. line \in [1 .. Used -> Names]
    BY <1>6 DEF line
  <1> QED
    BY <1>1, <1>2, <1>3, <1>4, <1>6, <1>7

\* The empty table is an empty line.
LEMMA LineStart == PoolInit => Line!Empty
  <1> SUFFICES ASSUME PoolInit PROVE line = << >>
    BY DEF Line!Empty
  <1>1. ~Crowded
    BY SizeType DEF PoolInit, newFamily, Crowded, Offsets
  <1>2. Used = 0
    BY <1>1 DEF Used, PoolInit, newFamily
  <1> QED
    BY <1>2 DEF line

\* What is appended to a sequence, by its elements.
LEMMA AppendElements ==
  ASSUME NEW S, NEW q \in Seq(S), NEW e \in S,
         NEW t, t = [i \in 1 .. Len(q) + 1 |-> IF i <= Len(q) THEN q[i] ELSE e]
  PROVE  t = Append(q, e)
  <1>1. Len(q) \in Nat /\ \A i \in 1 .. Len(q) : q[i] \in S
    BY LenProperties
  <1>2. t \in [1 .. Len(q) + 1 -> S]
    BY <1>1
  <1>3. t \in Seq(S) /\ Len(t) = Len(q) + 1
    BY <1>1, <1>2, SeqDef
  <1>4. /\ Append(q, e) \in Seq(S) /\ Len(Append(q, e)) = Len(t)
        /\ \A i \in 1 .. Len(t) : t[i] = Append(q, e)[i]
    BY <1>1, <1>3, AppendProperties
  <1> QED
    BY <1>3, <1>4, SeqEqual

\* Giving a new name an address admits it to the line.
LEMMA LineStep ==
  ASSUME IInv, IInv', NEW n \in Names, fam.byName[n] = NoOff, fam' = allocate(fam, n)
  PROVE  Line!Admit(n)
  <1>1. /\ fam.next \in Offsets /\ fam.byOff \in [Offsets -> Names \union {NoName}]
        /\ Used \in 0 .. Size
        /\ \A i \in 1 .. Used : Place(i) \in Offsets /\ fam.byOff[Place(i)] \in Names
        /\ line \in [1 .. Used -> Names]
        /\ ~Crowded => \A o \in Offsets : fam.byOff[o] # NoName <=> o < fam.next
    BY LineShape
  <1>2. /\ fam'.next = IF fam.next + 1 = Size THEN 0 ELSE fam.next + 1
        /\ \A o \in Offsets : fam'.byOff[o] = IF o = fam.next THEN n ELSE fam.byOff[o]
    <2>1. fam \in Families
      BY DEF IInv, PoolTypeOK
    <2> QED
      BY <1>1, <2>1, AllocateFields, CursorStep
  <1>3. ~Line!Holds(n)
    <2> SUFFICES ASSUME NEW i \in DOMAIN line, line[i] = n PROVE FALSE
      BY DEF Line!Holds
    <2>1. i \in 1 .. Used /\ Place(i) \in Offsets /\ fam.byOff[Place(i)] = n
      BY <1>1 DEF line
    <2>2. fam.byName[n] = Place(i)
      BY <2>1, NoNameAssumption DEF IInv, TablesAgree, Bijective
    <2> QED
      BY <2>1, <2>2, NoOffAssumption, SizeType DEF Offsets
  <1>4. n # NoName
    BY NoNameAssumption
  <1>5. CASE ~Crowded
    <2>1. /\ Used = fam.next
          /\ line = [i \in 1 .. fam.next |-> fam.byOff[i - 1]]
      BY <1>5 DEF Used, line, Place
    <2>2. /\ Used' = fam.next + 1
          /\ \A i \in 1 .. Used' : Place(i)' = i - 1
      <3>1. CASE fam.next + 1 = Size
        <4>1. Crowded'
          <5>1. ASSUME NEW o \in Offsets PROVE fam'.byOff[o] # NoName
            <6>1. CASE o = fam.next
              BY <1>2, <1>4, <6>1
            <6>2. CASE o # fam.next
              <7>1. o < fam.next
                BY <1>1, <3>1, <6>2, SizeType DEF Offsets
              <7> QED
                BY <1>1, <1>2, <1>5, <6>2, <7>1
            <6> QED
              BY <6>1, <6>2
          <5> QED
            BY <5>1 DEF Crowded
        <4> QED
          BY <1>2, <3>1, <4>1, SizeType DEF Used, Place
      <3>2. CASE fam.next + 1 # Size
        <4>1. fam.next + 1 \in Offsets /\ fam.byOff[fam.next + 1] = NoName
          BY <1>1, <1>5, <3>2, SizeType DEF Offsets
        <4>2. fam'.byOff[fam.next + 1] = NoName
          BY <1>1, <1>2, <4>1 DEF Offsets
        <4>3. ~Crowded'
          BY <4>1, <4>2 DEF Crowded
        <4> QED
          BY <1>2, <3>2, <4>3 DEF Used, Place
      <3> QED
        BY <3>1, <3>2
    <2>3. line' = [i \in 1 .. fam.next + 1 |-> fam'.byOff[i - 1]]
      BY <2>2 DEF line
    <2>4. line \in Seq(Names) /\ Len(line) = fam.next /\ fam.next < Size
      <3>1. Used = fam.next /\ fam.next \in Nat /\ fam.next < Size
        BY <1>1, <1>5, SizeType DEF Used, Offsets
      <3> QED
        BY <1>1, <3>1
    <2>5. \A i \in 1 .. fam.next + 1 : fam'.byOff[i - 1] = IF i <= Len(line) THEN line[i] ELSE n
      <3> SUFFICES ASSUME NEW i \in 1 .. fam.next + 1
                   PROVE  fam'.byOff[i - 1] = IF i <= Len(line) THEN line[i] ELSE n
        OBVIOUS
      <3>1. i - 1 \in Offsets /\ fam.next \in Nat
        BY <1>1, <2>4, SizeType DEF Offsets
      <3>2. fam'.byOff[i - 1] = IF i - 1 = fam.next THEN n ELSE fam.byOff[i - 1]
        BY <1>2, <3>1
      <3>3. i <= fam.next => line[i] = fam.byOff[i - 1]
        BY <2>1, <3>1
      <3> QED
        BY <2>4, <3>1, <3>2, <3>3
    <2>6. line' = Append(line, n)
      <3>1. line' = [i \in 1 .. Len(line) + 1 |-> IF i <= Len(line) THEN line[i] ELSE n]
        BY <2>3, <2>4, <2>5
      <3> QED
        BY <2>4, <3>1, AppendElements
    <2> QED
      BY <1>3, <2>4, <2>6 DEF Line!Admit
  <1>6. CASE Crowded
    <2>1. Used = Size /\ line \in Seq(Names) /\ Len(line) = Size
      BY <1>1, <1>6, SizeType DEF Used
    <2>2. Crowded'
      BY <1>2, <1>4, <1>6 DEF Crowded
    <2>3. ASSUME NEW i \in 1 .. Size
          PROVE  /\ i < Size => Place(i)' = Place(i + 1) /\ Place(i + 1) # fam.next
                 /\ i = Size => Place(i)' = fam.next
      <3>1. /\ Place(i)' = IF fam'.next + i - 1 < Size THEN fam'.next + i - 1 ELSE fam'.next + i - 1 - Size
            /\ Place(i + 1) = IF fam.next + (i + 1) - 1 < Size THEN fam.next + (i + 1) - 1 ELSE fam.next + (i + 1) - 1 - Size
        BY <1>6, <2>2 DEF Place
      <3>2. Size \in Nat /\ i \in Nat /\ i >= 1 /\ i <= Size /\ fam.next \in Nat /\ fam.next < Size
        BY <1>1, SizeType DEF Offsets
      <3> QED
        BY <1>2, <3>1, <3>2
    <2>4. line' = [i \in 1 .. Size |-> fam'.byOff[Place(i)']]
      BY <2>2 DEF line, Used
    <2>5. \A i \in 1 .. Size : fam'.byOff[Place(i)'] = IF i < Size THEN line[i + 1] ELSE n
      <3> SUFFICES ASSUME NEW i \in 1 .. Size PROVE fam'.byOff[Place(i)'] = IF i < Size THEN line[i + 1] ELSE n
        OBVIOUS
      <3>1. CASE i < Size
        <4>1. i + 1 \in 1 .. Used
          BY <2>1, <3>1, SizeType
        <4>2. line[i + 1] = fam.byOff[Place(i + 1)]
          BY <4>1 DEF line
        <4>3. Place(i + 1) \in Offsets /\ Place(i + 1) # fam.next /\ Place(i)' = Place(i + 1)
          <5>1. Place(i + 1) # fam.next /\ Place(i)' = Place(i + 1)
            BY <2>3, <3>1
          <5> QED
            BY <1>1, <4>1, <5>1
        <4>4. fam'.byOff[Place(i + 1)] = fam.byOff[Place(i + 1)]
          BY <1>2, <4>3
        <4> QED
          BY <3>1, <4>2, <4>3, <4>4
      <3>2. CASE i = Size
        BY <1>1, <1>2, <2>3, <3>2
      <3> QED
        BY <3>1, <3>2, SizeType
    <2>6. line' = [i \in 1 .. Size |-> IF i < Size THEN line[i + 1] ELSE n]
      BY <2>4, <2>5
    <2>7. Tail(line) \in Seq(Names) /\ Len(Tail(line)) = Size - 1 /\ \A i \in 1 .. Size - 1 : Tail(line)[i] = line[i + 1]
      BY <2>1, SizeType
    <2>8. Append(Tail(line), n) = [i \in 1 .. Size |-> IF i < Size THEN line[i + 1] ELSE n]
      <3>1. Append(Tail(line), n) = [i \in 1 .. Len(Tail(line)) + 1 |-> IF i <= Len(Tail(line)) THEN Tail(line)[i] ELSE n]
        BY <2>7, AppendElements
      <3> QED
        BY <2>7, <3>1, SizeType
    <2> QED
      BY <1>3, <2>1, <2>6, <2>8, SizeType DEF Line!Admit
  <1> QED
    BY <1>5, <1>6

\* The table implements the line of names, for every prefix, cap and set of
\* names: a hit is a stutter, an allocation admits the name.
THEOREM PoolFollowsQueue == PoolSpec => FollowsQueue
  <1>1. PoolInit => Line!Empty
    BY LineStart
  <1>2. IInv /\ IInv' /\ [PoolNext]_poolVars => [\E n \in Names : Line!Admit(n)]_line
    <2> SUFFICES ASSUME IInv, IInv', [PoolNext]_poolVars, ~UNCHANGED poolVars
                 PROVE  \E n \in Names : Line!Admit(n)
      BY DEF line, Used, Place, Crowded, poolVars
    <2>1. PICK n \in Names : Get(n)
      BY DEF PoolNext
    <2>2. fam.byName[n] = NoOff /\ fam' = allocate(fam, n)
      BY <2>1, GetCases DEF IInv
    <2> QED
      BY <2>2, LineStep
  <1> QED
    BY <1>1, <1>2, PoolInvariant, PTL DEF PoolSpec, FollowsQueue, Line!Queueing

-----------------------------------------------------------------------------
(* The table across restarts.                                              *)

\* Progress, contents and snapshots that stand for nothing are well typed.
LEMMA NothingSaved ==
  /\ emptyPool \in [Fams -> Families]
  /\ emptySnapshot \in Snapshot
  /\ Empty \in Content /\ Torn \in Content
  /\ idle \in Progress
  /\ \A f \in Fams : Bijective(emptyPool[f])
  <1>1. emptyPool \in [Fams -> Families] /\ \A f \in Fams : Bijective(emptyPool[f])
    BY NewFamilyIsGood DEF emptyPool
  <1>2. emptySnapshot \in Snapshot
    BY <1>1, MaxVersionAssumption DEF emptySnapshot, Snapshot
  <1> QED
    BY <1>1, <1>2 DEF Empty, Torn, Content, idle, Progress

\* get gives the name an offset, and keeps the two maps inverse to each other.
LEMMA GetGives ==
  ASSUME NEW t \in Families, NEW n \in Names, Bijective(t)
  PROVE  /\ get(t, n) \in Families /\ Bijective(get(t, n))
         /\ get(t, n).byName[n] \in Offsets
         /\ get(t, n).byOff[get(t, n).byName[n]] = n
  <1>1. get(t, n) \in Families /\ Bijective(get(t, n))
    BY AllocateFields, AllocateBijective DEF get
  <1>2. t.next \in Offsets /\ t.byName \in [Names -> Offsets \union {NoOff}] /\ NoOff \notin Offsets
    BY NoOffAssumption, SizeType DEF Families, Offsets
  <1>3. get(t, n).byName[n] \in Offsets
    <2>1. CASE t.byName[n] # NoOff
      BY <1>2, <2>1 DEF get
    <2>2. CASE t.byName[n] = NoOff
      BY <1>2, <2>2, AllocateFields DEF get
    <2> QED
      BY <2>1, <2>2
  <1> QED
    BY <1>1, <1>2, <1>3 DEF Bijective

\* The cursor's way to an offset, round the ring.
LEMMA DistanceValue ==
  ASSUME NEW i \in Offsets, NEW o \in Offsets
  PROVE  /\ Distance(i, o) = IF o >= i THEN o - i ELSE o + Size - i
         /\ Distance(i, o) \in Nat
  <1>1. i \in Nat /\ o \in Nat /\ i < Size /\ o < Size /\ Size \in Nat
    BY SizeType DEF Offsets
  <1>2. CASE o >= i
    <2> DEFINE d == o - i
    <2>1. d \in Nat /\ d < Size /\ o + Size - i = d + Size
      BY <1>1, <1>2
    <2> HIDE DEF d
    <2>2. (d + Size) % Size = d
      BY <1>1, <2>1
    <2> QED
      BY <1>2, <2>1, <2>2 DEF Distance, d
  <1>3. CASE ~(o >= i)
    <2> DEFINE d == o + Size - i
    <2>1. d \in Nat /\ d < Size
      BY <1>1, <1>3
    <2> HIDE DEF d
    <2>2. d % Size = d
      BY <1>1, <2>1
    <2> QED
      BY <1>3, <2>1, <2>2 DEF Distance, d
  <1> QED
    BY <1>2, <1>3

\* One step of the cursor brings it nearer to every offset but its own.
LEMMA DistanceStep ==
  ASSUME NEW i \in Offsets, NEW o \in Offsets, o # i
  PROVE  Distance((i + 1) % Size, o) = Distance(i, o) - 1
  <1>1. i \in Nat /\ o \in Nat /\ i < Size /\ o < Size /\ Size \in Nat
    BY SizeType DEF Offsets
  <1>2. PICK j \in Offsets : j = (i + 1) % Size /\ j = IF i + 1 = Size THEN 0 ELSE i + 1
    BY CursorStep
  <1>3. Distance(j, o) = IF o >= j THEN o - j ELSE o + Size - j
    BY DistanceValue
  <1>4. Distance(i, o) = IF o >= i THEN o - i ELSE o + Size - i
    BY DistanceValue
  <1> QED
    BY <1>1, <1>2, <1>3, <1>4

\* An answer that leads to its name still does after another query, whichever
\* family that one was answered from.
LEMMA StillLeads ==
  ASSUME NEW p \in [Fams -> Families], NEW f \in Fams, NEW n \in Names, NEW v \in Nat,
         NEW a \in Answers, Leads(a, p, v)
  PROVE  Leads(a, [p EXCEPT ![f] = get(@, n)], IF p[f].byName[n] = NoOff THEN v + 1 ELSE v)
  <1> DEFINE q == [p EXCEPT ![f] = get(@, n)]
  <1>1. /\ a.fam \in Fams /\ a.off \in Offsets /\ a.until \in Nat
        /\ p[f] \in Families /\ p[f].next \in Offsets /\ p[a.fam].next \in Offsets
    BY DEF Answers, Families
  <1>2. CASE p[f].byName[n] # NoOff
    <2>1. q = p
      BY <1>2 DEF get
    <2> QED
      BY <1>2, <2>1
  <1>3. CASE p[f].byName[n] = NoOff /\ a.fam # f
    <2>1. q[a.fam] = p[a.fam]
      BY <1>1, <1>3
    <2>2. Distance(p[a.fam].next, a.off) \in Nat
      BY <1>1, DistanceValue
    <2> HIDE DEF q
    <2>3. Leads(a, q, v + 1)
      BY <1>1, <2>1, <2>2 DEF Leads
    <2> QED
      BY <1>3, <2>3 DEF q
  <1>4. CASE p[f].byName[n] = NoOff /\ a.fam = f
    <2> DEFINE i == p[f].next
    <2>1. q[f] = allocate(p[f], n)
      BY <1>1, <1>4 DEF get
    <2>2. q[f].next = (i + 1) % Size /\ q[f].byOff[a.off] = IF a.off = i THEN n ELSE p[f].byOff[a.off]
      BY <1>1, <2>1, AllocateFields
    <2> HIDE DEF q
    <2>3. CASE a.off = i
      <3>1. Distance(i, a.off) = 0
        <4>1. i \in Offsets /\ i \in Nat
          BY <1>1, SizeType DEF Offsets
        <4> HIDE DEF i
        <4>2. Distance(i, i) = IF i >= i THEN i - i ELSE i + Size - i
          BY <4>1, DistanceValue
        <4> QED
          BY <2>3, <4>1, <4>2
      <3>2. Leads(a, q, v + 1)
        BY <1>1, <1>4, <3>1 DEF Leads
      <3> QED
        BY <1>4, <3>2 DEF q
    <2>4. CASE a.off # i
      <3>1. Distance((i + 1) % Size, a.off) = Distance(i, a.off) - 1 /\ Distance(i, a.off) \in Nat
        BY <1>1, <2>4, DistanceStep, DistanceValue
      <3> HIDE DEF i
      <3>2. Leads(a, q, v + 1)
        <4>1. ASSUME v + 1 <= a.until
              PROVE  q[f].byOff[a.off] = a.name /\ a.until <= v + 1 + (Distance(i, a.off) - 1)
          BY <1>1, <1>4, <2>2, <2>4, <3>1, <4>1 DEF Leads, i
        <4> QED
          BY <1>4, <2>2, <3>1, <4>1 DEF Leads
      <3> QED
        BY <1>4, <3>2 DEF q
    <2> QED
      BY <2>3, <2>4
  <1> QED
    BY <1>2, <1>3, <1>4

\* The answer just given leads to the name it was given for.
LEMMA NewAnswerLeads ==
  ASSUME NEW p \in [Fams -> Families], NEW f \in Fams, NEW n \in Names, NEW v \in Nat,
         Bijective(p[f]), p[f].byName[n] \in Offsets,
         NEW a, a = [name |-> n, fam |-> f, off |-> p[f].byName[n], until |-> v + Ahead(p[f], n)]
  PROVE  a \in Answers /\ Leads(a, p, v)
  <1>1. p[f].next \in Offsets /\ NoOff \notin Offsets
    BY NoOffAssumption, SizeType DEF Families, Offsets
  <1>2. Ahead(p[f], n) = Distance(p[f].next, p[f].byName[n])
    BY DEF Ahead, Distance
  <1>3. Distance(p[f].next, p[f].byName[n]) \in Nat
    BY <1>1, DistanceValue
  <1>4. p[f].byOff[p[f].byName[n]] = n
    BY <1>1 DEF Bijective
  <1> QED
    BY <1>2, <1>3, <1>4 DEF Answers, Leads

\* What a query does, whichever of its branches it takes: the table has got
\* the name, the count is one more if it was new, and at most one answer,
\* the right one, is added.
LEMMA QuerySteps ==
  ASSUME TypeOK, TablesAgreeEverywhere, NEW n \in Names, NEW f \in Fams, Query(n, f)
  PROVE  /\ pool' = [pool EXCEPT ![f] = get(@, n)] /\ pool' \in [Fams -> Families]
         /\ \A g \in Fams : Bijective(pool'[g])
         /\ ver' = IF pool[f].byName[n] = NoOff THEN ver + 1 ELSE ver
         /\ ver' \in 0 .. MaxVersion /\ ver <= ver'
         /\ \A a \in answers' : a \in answers \/ (a \in Answers /\ Leads(a, pool', ver'))
         /\ UNCHANGED <<env, up, saver, fs, data, newest>>
  <1>1. /\ pool' = [pool EXCEPT ![f] = get(@, n)]
        /\ ver' = IF pool[f].byName[n] = NoOff THEN ver + 1 ELSE ver
        /\ pool[f].byName[n] = NoOff => ver < MaxVersion
        /\ UNCHANGED <<env, up, saver, fs, data, newest>>
    BY DEF Query
  <1>2. pool[f] \in Families /\ Bijective(pool[f]) /\ ver \in Nat /\ MaxVersion \in Nat /\ ver <= MaxVersion
    BY MaxVersionAssumption DEF TypeOK, TablesAgreeEverywhere
  <1>3. ver' \in 0 .. MaxVersion /\ ver <= ver' /\ ver' \in Nat
    BY <1>1, <1>2
  <1> DEFINE t == get(pool[f], n)
  <1>4. /\ t \in Families /\ Bijective(t) /\ t.byName[n] \in Offsets
    BY <1>2, GetGives
  <1> HIDE DEF t
  <1>5. pool' = [pool EXCEPT ![f] = t] /\ pool \in [Fams -> Families]
    BY <1>1 DEF t, TypeOK
  <1>6. /\ pool' \in [Fams -> Families] /\ pool'[f] = t
        /\ \A g \in Fams : Bijective(pool'[g])
    BY <1>4, <1>5 DEF TablesAgreeEverywhere
  <1>7. ASSUME NEW a \in answers', a \notin answers
        PROVE  a \in Answers /\ Leads(a, pool', ver')
    <2>1. a = [name |-> n, fam |-> f, off |-> pool'[f].byName[n], until |-> ver' + Ahead(pool'[f], n)]
      BY <1>7 DEF Query
    <2> QED
      BY <1>3, <1>4, <1>6, <2>1, NewAnswerLeads
  <1> QED
    BY <1>1, <1>3, <1>6, <1>7

\* What the file system holds is a snapshot, or no table at all.
LEMMA OnDiskType ==
  ASSUME TypeOK, TablesAgreeEverywhere
  PROVE  /\ onDisk \in Content /\ onDisk.snap \in Snapshot
         /\ onDisk.snap.fam \in [Fams -> Families] /\ onDisk.snap.ver \in 0 .. MaxVersion
         /\ \A f \in Fams : Bijective(onDisk.snap.fam[f])
  <1>1. fs.path # NoInode => fs.path \in Inodes
    BY DEF TypeOK
  <1>2. onDisk \in Content
    BY <1>1, NothingSaved DEF TypeOK, onDisk
  <1>3. \A f \in Fams : Bijective(onDisk.snap.fam[f])
    BY <1>1, NothingSaved DEF onDisk, Empty, emptySnapshot, TablesAgreeEverywhere
  <1> QED
    BY <1>2, <1>3 DEF Content, Snapshot

\* The first state.
LEMMA StoreStart == Init => StoreInv
  <1> SUFFICES ASSUME Init PROVE StoreInv
    OBVIOUS
  <1>1. 0 \in 0 .. MaxVersion
    BY MaxVersionAssumption
  <1>2. TypeOK
    BY <1>1, NothingSaved DEF Init, TypeOK
  <1>3. TablesAgreeEverywhere
    BY NothingSaved DEF Init, TablesAgreeEverywhere, idle, emptySnapshot, Empty
  <1>4. LoneSaver
    BY DEF Init, LoneSaver, onDisk, Empty, emptySnapshot, idle, Savers, Saving
  <1>5. CleanRestarts
    BY DEF Init, CleanRestarts, idle, Savers, Saving
  <1> QED
    BY <1>2, <1>3, <1>4, <1>5 DEF StoreInv

\* Types and agreement of the two maps are kept by every step, however many
\* savers there are and whatever goes wrong.
LEMMA StoreTypes ==
  ASSUME TypeOK, TablesAgreeEverywhere, [Next]_vars
  PROVE  TypeOK' /\ TablesAgreeEverywhere'
  <1> USE DEF TypeOK
  <1>0. Savers = {"ticker", "close"} /\ idle \in Progress /\ idle.snap = emptySnapshot
        /\ \A f \in Fams : Bijective(idle.snap.fam[f])
    BY NothingSaved DEF Savers, idle, emptySnapshot
  <1>1. CASE UNCHANGED vars
    BY <1>1 DEF vars, TablesAgreeEverywhere
  <1>2. ASSUME NEW n \in Names, NEW f \in Fams, Query(n, f) PROVE TypeOK' /\ TablesAgreeEverywhere'
    BY <1>2, QuerySteps DEF TablesAgreeEverywhere
  <1>3. ASSUME NEW a \in answers, Expire(a) PROVE TypeOK' /\ TablesAgreeEverywhere'
    BY <1>3 DEF Expire, TablesAgreeEverywhere
  <1>4. ASSUME NEW s \in Savers, SaveSnapshot(s) PROVE TypeOK' /\ TablesAgreeEverywhere'
    <2> DEFINE q == [pc |-> "open", snap |-> [fam |-> pool, ver |-> ver], ino |-> NoInode]
    <2>1. q \in Progress /\ q.snap.fam = pool
      BY DEF Progress, Saving, Snapshot
    <2>2. saver' = [saver EXCEPT ![s] = q] /\ UNCHANGED <<env, up, pool, ver, fs, data, newest, answers>>
      BY <1>4 DEF SaveSnapshot
    <2> HIDE DEF q
    <2> QED
      BY <2>1, <2>2 DEF TablesAgreeEverywhere
  <1>5. ASSUME NEW s \in Savers, SaveOpen(s) PROVE TypeOK' /\ TablesAgreeEverywhere'
    <2>1. PICK i \in Inodes : /\ fs' = [fs EXCEPT !.tmp = i] /\ data' = [data EXCEPT ![i] = Empty]
                              /\ saver' = [saver EXCEPT ![s].pc = "write", ![s].ino = i]
      BY <1>5 DEF SaveOpen
    <2> DEFINE q == [saver[s] EXCEPT !.pc = "write", !.ino = i]
    <2>2. q \in Progress /\ q.snap = saver[s].snap
      BY DEF Progress, Saving
    <2>3. saver' = [saver EXCEPT ![s] = q]
      BY <2>1
    <2> HIDE DEF q
    <2>4. Empty \in Content /\ \A f \in Fams : Bijective(Empty.snap.fam[f])
      BY NothingSaved DEF Empty, emptySnapshot
    <2>5. UNCHANGED <<env, up, pool, ver, newest, answers>>
      BY <1>5 DEF SaveOpen
    <2>6. fs' \in [tmp : Inodes \union {NoInode}, path : Inodes \union {NoInode}]
      BY <2>1
    <2> QED
      BY <2>1, <2>2, <2>3, <2>4, <2>5, <2>6 DEF TablesAgreeEverywhere
  <1>6. ASSUME NEW s \in Savers, SaveWrite(s) PROVE TypeOK' /\ TablesAgreeEverywhere'
    <2>1. PICK c \in {Whole(saver[s].snap), Torn} : data' = [data EXCEPT ![saver[s].ino] = c]
      BY <1>6 DEF SaveWrite
    <2>2. c \in Content /\ \A f \in Fams : Bijective(c.snap.fam[f])
      <3>1. CASE c = Torn
        BY <3>1, NothingSaved DEF Torn, emptySnapshot
      <3>2. CASE c = Whole(saver[s].snap)
        BY <3>2 DEF Whole, Content, Progress, TablesAgreeEverywhere
      <3> QED
        BY <3>1, <3>2
    <2>3. data' \in [Inodes -> Content] /\ \A i \in Inodes : data'[i] \in {data[i], c}
      BY <2>1, <2>2
    <2> DEFINE q == [saver[s] EXCEPT !.pc = "rename"]
    <2>4. q \in Progress /\ q.snap = saver[s].snap
      BY DEF Progress, Saving
    <2>5. saver' = [saver EXCEPT ![s] = q] /\ UNCHANGED <<env, up, pool, ver, fs, newest, answers>>
      BY <1>6 DEF SaveWrite
    <2> HIDE DEF q
    <2> QED
      BY <2>2, <2>3, <2>4, <2>5 DEF TablesAgreeEverywhere
  <1>7. ASSUME NEW s \in Savers, SaveWriteFails(s) PROVE TypeOK' /\ TablesAgreeEverywhere'
    <2> DEFINE q == [idle EXCEPT !.pc = "done"]
    <2>1. q \in Progress /\ q.snap = emptySnapshot
      BY <1>0 DEF Progress
    <2>2. /\ saver' = [saver EXCEPT ![s] = q] /\ UNCHANGED <<env, up, pool, ver, fs, newest, answers>>
          /\ data' = [data EXCEPT ![saver[s].ino] = Torn]
      BY <1>7 DEF SaveWriteFails
    <2> HIDE DEF q
    <2>3. Torn \in Content /\ \A f \in Fams : Bijective(Torn.snap.fam[f])
      BY NothingSaved DEF Torn, emptySnapshot
    <2>4. data' \in [Inodes -> Content] /\ \A i \in Inodes : data'[i] \in {data[i], Torn}
      BY <2>2, <2>3
    <2> QED
      BY <1>0, <2>1, <2>2, <2>3, <2>4 DEF TablesAgreeEverywhere
  <1>8. ASSUME NEW s \in Savers, SaveRename(s) PROVE TypeOK' /\ TablesAgreeEverywhere'
    <2> DEFINE q == [idle EXCEPT !.pc = "done"]
    <2>1. q \in Progress /\ q.snap = emptySnapshot
      BY <1>0 DEF Progress
    <2>2. /\ saver' = [saver EXCEPT ![s] = q] /\ UNCHANGED <<env, up, pool, ver, data, answers>>
          /\ newest' \in {newest, saver[s].snap.ver}
          /\ fs' \in {fs, [tmp |-> NoInode, path |-> fs.tmp]}
      BY <1>8 DEF SaveRename
    <2> HIDE DEF q
    <2>3. saver[s].snap.ver \in 0 .. MaxVersion
      BY DEF Progress, Snapshot
    <2>4. fs' \in [tmp : Inodes \union {NoInode}, path : Inodes \union {NoInode}]
      BY <2>2
    <2> QED
      BY <1>0, <2>1, <2>2, <2>3, <2>4 DEF TablesAgreeEverywhere
  <1>9. CASE NextMinute
    BY <1>0, <1>9 DEF NextMinute, TablesAgreeEverywhere
  <1>10. ASSUME NEW kept, Start(kept) PROVE TypeOK' /\ TablesAgreeEverywhere'
    <2>1. /\ pool' = [f \in Fams |-> IF f \in kept THEN onDisk.snap.fam[f] ELSE newFamily]
          /\ ver' = onDisk.snap.ver /\ answers' \subseteq answers /\ up' = "running"
          /\ saver' = [s \in Savers |-> idle] /\ UNCHANGED <<env, fs, data, newest>>
      BY <1>10 DEF Start
    <2>2. pool' \in [Fams -> Families] /\ \A f \in Fams : Bijective(pool'[f])
      BY <2>1, OnDiskType, NewFamilyIsGood
    <2> QED
      BY <1>0, <2>1, <2>2, OnDiskType DEF TablesAgreeEverywhere
  <1>11. CASE Stop
    BY <1>11 DEF Stop, TablesAgreeEverywhere
  <1>12. CASE Down
    <2>1. 0 \in 0 .. MaxVersion
      BY MaxVersionAssumption
    <2> QED
      BY <1>0, <1>12, <2>1, NothingSaved DEF Down, TablesAgreeEverywhere
  <1> QED
    BY <1>1, <1>2, <1>3, <1>4, <1>5, <1>6, <1>7, <1>8, <1>9, <1>10, <1>11, <1>12
       DEF Next, StartAny, Exit, Crash

\* The circumstances do not change, and a lone saver is the deferred Close.
LEMMA SameCircumstances ==
  ASSUME TypeOK, [Next]_vars
  PROVE  env' = env /\ (OneSaver' <=> OneSaver) /\ (Clean' <=> Clean)
  <1>1. env' = env
    BY DEF Next, vars, Query, Expire, SaveSnapshot, SaveOpen, SaveWrite, SaveWriteFails, SaveRename,
           NextMinute, StartAny, Start, Stop, Exit, Crash, Down
  <1> QED
    BY <1>1 DEF OneSaver, Clean

\* A lone saver keeps what it needs: nobody else touches <path>.tmp, and a
\* crash or a full disk only ever leaves a torn <path>.tmp behind.
LEMMA LoneSaverStep ==
  ASSUME TypeOK, TypeOK', TablesAgreeEverywhere, OneSaver, LoneSaver, [Next]_vars
  PROVE  LoneSaver'
  <1> DEFINE c == saver["close"]
  <1>0. /\ "close" \in Savers /\ "ticker" \in Savers /\ Savers = {"ticker", "close"}
        /\ saver \in [Savers -> Progress] /\ c \in Progress /\ idle.pc = "idle" /\ idle.pc \notin Saving
        /\ data \in [Inodes -> Content] /\ fs.tmp \in Inodes \union {NoInode} /\ fs.path \in Inodes \union {NoInode}
        /\ NoInode \notin Inodes /\ ver \in Nat /\ newest \in Nat
    BY InodesAssumption, MaxVersionAssumption DEF TypeOK, Savers, idle, Saving
  <1>1. CASE UNCHANGED vars
    BY <1>1 DEF vars, LoneSaver, onDisk
  <1>2. ASSUME NEW n \in Names, NEW f \in Fams, Query(n, f) PROVE LoneSaver'
    <2>1. UNCHANGED <<env, up, saver, fs, data, newest>> /\ ver <= ver' /\ ver' \in Nat
      BY <1>2, QuerySteps, MaxVersionAssumption
    <2>2. c.snap.ver \in Nat
      BY <1>0, MaxVersionAssumption DEF Progress, Snapshot
    <2> QED
      BY <1>0, <2>1, <2>2 DEF LoneSaver, onDisk
  <1>3. ASSUME NEW a \in answers, Expire(a) PROVE LoneSaver'
    BY <1>3 DEF Expire, LoneSaver, onDisk
  <1>4. ASSUME NEW s \in Savers, SaveSnapshot(s) PROVE LoneSaver'
    <2> DEFINE q == [pc |-> "open", snap |-> [fam |-> pool, ver |-> ver], ino |-> NoInode]
    <2>1. s = "close" /\ up = "closing"
      BY <1>4 DEF SaveSnapshot, OneSaver
    <2>2. saver' = [saver EXCEPT !["close"] = q] /\ UNCHANGED <<env, up, pool, ver, fs, data, newest, answers>>
      BY <1>4, <2>1 DEF SaveSnapshot
    <2>3. q.pc = "open" /\ q.snap.ver = ver
      OBVIOUS
    <2> HIDE DEF q
    <2>4. saver'["close"] = q /\ saver'["ticker"] = saver["ticker"]
      BY <1>0, <2>2
    <2> QED
      BY <1>0, <2>1, <2>2, <2>3, <2>4 DEF LoneSaver, onDisk
  <1>5. ASSUME NEW s \in Savers, SaveOpen(s) PROVE LoneSaver'
    <2>1. s = "close" /\ c.pc = "open"
      BY <1>0, <1>5 DEF SaveOpen, LoneSaver
    <2>2. PICK i \in Inodes : /\ IF fs.tmp = NoInode THEN i # fs.path ELSE i = fs.tmp
                              /\ fs' = [fs EXCEPT !.tmp = i] /\ data' = [data EXCEPT ![i] = Empty]
                              /\ saver' = [saver EXCEPT !["close"].pc = "write", !["close"].ino = i]
      BY <1>5, <2>1 DEF SaveOpen
    <2> DEFINE q == [c EXCEPT !.pc = "write", !.ino = i]
    <2>3. q.pc = "write" /\ q.ino = i /\ q.snap = c.snap
      BY <1>0 DEF Progress
    <2>4. saver' = [saver EXCEPT !["close"] = q]
      BY <2>2
    <2> HIDE DEF q
    <2>5. saver'["close"] = q /\ saver'["ticker"] = saver["ticker"]
      BY <1>0, <2>4
    <2>6. fs'.tmp = i /\ fs'.path = fs.path /\ i # fs.path
      BY <1>0, <2>2 DEF TypeOK, LoneSaver
    <2>7. data'[i] = Empty /\ onDisk' = onDisk
      BY <1>0, <2>2, <2>6 DEF onDisk
    <2>8. UNCHANGED <<env, up, pool, ver, newest, answers>>
      BY <1>5 DEF SaveOpen
    <2> QED
      BY <1>0, <2>1, <2>3, <2>5, <2>6, <2>7, <2>8 DEF LoneSaver, Saving
  <1>6. ASSUME NEW s \in Savers, SaveWrite(s) PROVE LoneSaver'
    <2>1. s = "close" /\ c.pc = "write"
      BY <1>0, <1>6 DEF SaveWrite, LoneSaver
    <2>2. fs.tmp \in Inodes /\ c.ino = fs.tmp /\ data[c.ino] = Empty /\ fs.tmp # fs.path
      BY <1>0, <2>1 DEF LoneSaver
    <2>3. data' = [data EXCEPT ![fs.tmp] = Whole(c.snap)]
      BY <1>6, <2>1, <2>2 DEF SaveWrite
    <2> DEFINE q == [c EXCEPT !.pc = "rename"]
    <2>4. q.pc = "rename" /\ q.ino = c.ino /\ q.snap = c.snap
      BY <1>0 DEF Progress
    <2>5. saver' = [saver EXCEPT !["close"] = q] /\ UNCHANGED <<env, up, pool, ver, fs, newest, answers>>
      BY <1>6, <2>1 DEF SaveWrite
    <2> HIDE DEF q
    <2>6. saver'["close"] = q /\ saver'["ticker"] = saver["ticker"]
      BY <1>0, <2>5
    <2>7. data'[fs.tmp] = Whole(c.snap) /\ onDisk' = onDisk
      BY <1>0, <2>2, <2>3, <2>5 DEF onDisk
    <2> QED
      BY <1>0, <2>1, <2>2, <2>4, <2>5, <2>6, <2>7 DEF LoneSaver, Saving
  <1>7. ASSUME NEW s \in Savers, SaveWriteFails(s) PROVE LoneSaver'
    <2>1. s = "close" /\ c.pc = "write"
      BY <1>0, <1>7 DEF SaveWriteFails, LoneSaver
    <2>2. fs.tmp \in Inodes /\ c.ino = fs.tmp /\ fs.tmp # fs.path
      BY <1>0, <2>1 DEF LoneSaver
    <2> DEFINE q == [idle EXCEPT !.pc = "done"]
    <2>3. q.pc = "done"
      BY DEF idle
    <2>4. /\ saver' = [saver EXCEPT !["close"] = q] /\ UNCHANGED <<env, up, pool, ver, fs, newest, answers>>
          /\ data' = [data EXCEPT ![fs.tmp] = Torn]
      BY <1>7, <2>1, <2>2 DEF SaveWriteFails
    <2> HIDE DEF q
    <2>5. saver'["close"] = q /\ saver'["ticker"] = saver["ticker"]
      BY <1>0, <2>4
    <2>6. onDisk' = onDisk
      BY <1>0, <2>2, <2>4 DEF onDisk
    <2> QED
      BY <1>0, <2>1, <2>3, <2>4, <2>5, <2>6 DEF LoneSaver, Saving
  <1>8. ASSUME NEW s \in Savers, SaveRename(s) PROVE LoneSaver'
    <2>1. s = "close" /\ c.pc = "rename"
      BY <1>0, <1>8 DEF SaveRename, LoneSaver
    <2>2. /\ fs.tmp # NoInode /\ fs.tmp \in Inodes /\ data[fs.tmp] = Whole(c.snap)
          /\ newest <= c.snap.ver /\ c.snap.ver <= ver /\ up = "closing"
      BY <1>0, <2>1 DEF LoneSaver, Saving
    <2>3. c.snap.ver \in Nat
      BY <1>0, MaxVersionAssumption DEF Progress, Snapshot
    <2> DEFINE q == [idle EXCEPT !.pc = "done"]
    <2>4. q.pc = "done"
      BY DEF idle
    <2>5. /\ saver' = [saver EXCEPT !["close"] = q] /\ UNCHANGED <<env, up, pool, ver, data, answers>>
          /\ fs' = [tmp |-> NoInode, path |-> fs.tmp] /\ newest' = IF c.snap.ver > newest THEN c.snap.ver ELSE newest
      BY <1>8, <2>1, <2>2 DEF SaveRename
    <2> HIDE DEF q
    <2>6. saver'["close"] = q /\ saver'["ticker"] = saver["ticker"]
      BY <1>0, <2>5
    <2>7. newest' = c.snap.ver
      BY <1>0, <2>2, <2>3, <2>5
    <2>8. onDisk' = Whole(c.snap) /\ fs'.tmp = NoInode
      BY <2>2, <2>5 DEF onDisk
    <2>9. onDisk'.kind = "whole" /\ onDisk'.snap.ver = c.snap.ver
      BY <2>8 DEF Whole
    <2> QED
      BY <1>0, <2>2, <2>3, <2>4, <2>5, <2>6, <2>7, <2>8, <2>9 DEF LoneSaver, Saving
  <1>9. CASE NextMinute
    BY <1>0, <1>9 DEF NextMinute, LoneSaver
  <1>10. ASSUME NEW kept, Start(kept) PROVE LoneSaver'
    <2>1. /\ ver' = onDisk.snap.ver /\ up' = "running" /\ UNCHANGED <<env, fs, data, newest>>
          /\ saver'["close"] = idle /\ saver'["ticker"] = idle
      BY <1>0, <1>10 DEF Start
    <2>2. onDisk' = onDisk
      BY <2>1 DEF onDisk
    <2> QED
      BY <1>0, <2>1, <2>2 DEF LoneSaver
  <1>11. CASE Stop
    BY <1>11 DEF Stop, LoneSaver, onDisk
  <1>12. CASE Down
    <2>1. /\ up' = "down" /\ UNCHANGED <<env, fs, data, newest>>
          /\ saver'["close"] = idle /\ saver'["ticker"] = idle
      BY <1>0, <1>12 DEF Down
    <2>2. onDisk' = onDisk
      BY <2>1 DEF onDisk
    <2> QED
      BY <1>0, <2>1, <2>2 DEF LoneSaver
  <1> QED
    BY <1>1, <1>2, <1>3, <1>4, <1>5, <1>6, <1>7, <1>8, <1>9, <1>10, <1>11, <1>12
       DEF Next, StartAny, Exit, Crash

\* Clean restarts: from the last query to the first one after the restart the
\* table, the snapshot, the file and the table again are the same.
LEMMA CleanStep ==
  ASSUME TypeOK, TablesAgreeEverywhere, Clean, LoneSaver, CleanRestarts, [Next]_vars
  PROVE  CleanRestarts'
  <1> DEFINE c == saver["close"]
  <1>0. /\ "close" \in Savers /\ "ticker" \in Savers /\ Savers = {"ticker", "close"}
        /\ saver \in [Savers -> Progress] /\ c \in Progress /\ idle.pc = "idle"
        /\ OneSaver /\ env.faults = {} /\ ~env.lateDns /\ ver \in Nat /\ answers \subseteq Answers
    BY MaxVersionAssumption DEF TypeOK, Savers, idle, Clean
  <1>1. CASE UNCHANGED vars
    BY <1>1 DEF vars, CleanRestarts, onDisk
  <1>2. ASSUME NEW n \in Names, NEW f \in Fams, Query(n, f) PROVE CleanRestarts'
    <2>1. up # "down" /\ c.pc = "idle"
      BY <1>0, <1>2 DEF Query, LoneSaver
    <2>2. /\ pool' = [pool EXCEPT ![f] = get(@, n)]
          /\ ver' = IF pool[f].byName[n] = NoOff THEN ver + 1 ELSE ver
          /\ \A a \in answers' : a \in answers \/ (a \in Answers /\ Leads(a, pool', ver'))
          /\ UNCHANGED <<env, up, saver, fs, data, newest>>
      BY <1>2, QuerySteps
    <2>3. ASSUME NEW a \in answers' PROVE Leads(a, pool', ver')
      <3>1. CASE a \in answers
        <4>1. a \in Answers /\ Leads(a, pool, ver) /\ pool \in [Fams -> Families]
          BY <1>0, <2>1, <3>1 DEF CleanRestarts, TypeOK
        <4>2. Leads(a, [pool EXCEPT ![f] = get(@, n)], IF pool[f].byName[n] = NoOff THEN ver + 1 ELSE ver)
          BY <1>0, <4>1, StillLeads
        <4> QED
          BY <2>2, <4>2
      <3> QED
        BY <2>2, <2>3, <3>1
    <2> QED
      BY <2>1, <2>2, <2>3 DEF CleanRestarts, Saving
  <1>3. ASSUME NEW a \in answers, Expire(a) PROVE CleanRestarts'
    BY <1>3 DEF Expire, CleanRestarts, onDisk
  <1>4. ASSUME NEW s \in Savers, SaveSnapshot(s) PROVE CleanRestarts'
    <2>1. s = "close" /\ up = "closing"
      BY <1>0, <1>4 DEF SaveSnapshot, OneSaver
    <2>2. /\ saver'["close"] = [pc |-> "open", snap |-> [fam |-> pool, ver |-> ver], ino |-> NoInode]
          /\ UNCHANGED <<env, up, pool, ver, fs, data, newest, answers>>
      BY <1>0, <1>4, <2>1 DEF SaveSnapshot
    <2> QED
      BY <2>1, <2>2 DEF CleanRestarts, Saving
  <1>5. ASSUME NEW s \in Savers, SaveOpen(s) PROVE CleanRestarts'
    <2>1. s = "close" /\ c.pc = "open" /\ up = "closing"
      BY <1>0, <1>5 DEF SaveOpen, LoneSaver
    <2>2. PICK i \in Inodes : saver' = [saver EXCEPT !["close"].pc = "write", !["close"].ino = i]
      BY <1>5, <2>1 DEF SaveOpen
    <2>3. saver'["close"].pc = "write" /\ saver'["close"].snap = c.snap
      BY <1>0, <2>2 DEF Progress
    <2>4. UNCHANGED <<env, up, pool, ver, newest, answers>>
      BY <1>5 DEF SaveOpen
    <2> QED
      BY <2>1, <2>3, <2>4 DEF CleanRestarts, Saving
  <1>6. ASSUME NEW s \in Savers, SaveWrite(s) PROVE CleanRestarts'
    <2>1. s = "close" /\ c.pc = "write" /\ up = "closing"
      BY <1>0, <1>6 DEF SaveWrite, LoneSaver
    <2>2. saver' = [saver EXCEPT !["close"].pc = "rename"] /\ UNCHANGED <<env, up, pool, ver, fs, newest, answers>>
      BY <1>6, <2>1 DEF SaveWrite
    <2>3. saver'["close"].pc = "rename" /\ saver'["close"].snap = c.snap
      BY <1>0, <2>2 DEF Progress
    <2> QED
      BY <2>1, <2>2, <2>3 DEF CleanRestarts, Saving
  <1>7. ASSUME NEW s \in Savers, SaveWriteFails(s) PROVE CleanRestarts'
    BY <1>0, <1>7 DEF SaveWriteFails
  <1>8. ASSUME NEW s \in Savers, SaveRename(s) PROVE CleanRestarts'
    <2>1. s = "close" /\ c.pc = "rename" /\ up = "closing"
      BY <1>0, <1>8 DEF SaveRename, LoneSaver
    <2>2. fs.tmp # NoInode /\ data[fs.tmp] = Whole(c.snap) /\ c.snap = [fam |-> pool, ver |-> ver]
      BY <2>1 DEF LoneSaver, CleanRestarts, Saving
    <2>3. /\ saver' = [saver EXCEPT !["close"] = [idle EXCEPT !.pc = "done"]]
          /\ UNCHANGED <<env, up, pool, ver, data, answers>>
          /\ fs' = [tmp |-> NoInode, path |-> fs.tmp]
      BY <1>8, <2>1, <2>2 DEF SaveRename
    <2>4. saver'["close"].pc = "done"
      BY <1>0, <2>3 DEF idle
    <2>5. onDisk' = Whole(c.snap)
      BY <2>2, <2>3 DEF onDisk
    <2> QED
      BY <2>1, <2>2, <2>3, <2>4, <2>5 DEF CleanRestarts, Saving
  <1>9. CASE NextMinute
    BY <1>0, <1>9 DEF NextMinute, LoneSaver
  <1>10. CASE StartAny
    <2>1. Start(Fams) /\ up = "down"
      BY <1>0, <1>10 DEF StartAny, Start
    <2>2. pool' = onDisk.snap.fam
      <3>1. onDisk.snap.fam \in [Fams -> Families]
        BY OnDiskType
      <3>2. pool' = [f \in Fams |-> onDisk.snap.fam[f]]
        BY <2>1 DEF Start
      <3> QED
        BY <3>1, <3>2
    <2>3. /\ ver' = onDisk.snap.ver /\ answers' \subseteq answers /\ up' = "running"
          /\ saver'["close"] = idle
      BY <1>0, <2>1 DEF Start
    <2> QED
      BY <1>0, <2>1, <2>2, <2>3 DEF CleanRestarts, Saving
  <1>11. CASE Stop
    BY <1>11 DEF Stop, CleanRestarts, onDisk
  <1>12. CASE Exit
    <2>1. c.pc = "done" /\ onDisk = Whole([fam |-> pool, ver |-> ver]) /\ up = "closing"
      BY <1>12 DEF Exit, CleanRestarts
    <2>2. onDisk.snap.fam = pool /\ onDisk.snap.ver = ver
      BY <2>1 DEF Whole
    <2>3. up' = "down" /\ UNCHANGED <<env, fs, data, newest, answers>> /\ saver'["close"] = idle
      BY <1>0, <1>12 DEF Exit, Down
    <2>4. onDisk' = onDisk
      BY <2>3 DEF onDisk
    <2>5. \A a \in answers' : Leads(a, onDisk'.snap.fam, onDisk'.snap.ver)
      BY <2>1, <2>2, <2>3, <2>4 DEF CleanRestarts
    <2> QED
      BY <1>0, <2>3, <2>5 DEF CleanRestarts, Saving
  <1>13. CASE Crash
    BY <1>0, <1>13 DEF Crash
  <1> QED
    BY <1>1, <1>2, <1>3, <1>4, <1>5, <1>6, <1>7, <1>8, <1>9, <1>10, <1>11, <1>12, <1>13 DEF Next

\* Types, agreement, what a lone saver keeps, and clean restarts, together.
LEMMA StoreInvariant == Spec => []StoreInv
  <1>1. Init => StoreInv
    BY StoreStart
  <1>2. StoreInv /\ [Next]_vars => StoreInv'
    BY StoreTypes, SameCircumstances, LoneSaverStep, CleanStep DEF StoreInv, Clean
  <1> QED
    BY <1>1, <1>2, PTL DEF Spec

\* Every variable has its type, across crashes and restarts and with two savers.
THEOREM StoreTypesOK == Spec => []TypeOK
  <1>1. StoreInv => TypeOK
    BY DEF StoreInv
  <1> QED
    BY <1>1, StoreInvariant, PTL

\* The maps byName and byOff are inverses of each other in memory and in
\* whatever a later process loads, with two savers, crashes and torn files.
THEOREM StoreTablesAgree == Spec => []TablesAgreeEverywhere
  <1>1. StoreInv => TablesAgreeEverywhere
    BY DEF StoreInv
  <1> QED
    BY <1>1, StoreInvariant, PTL

\* With one saver Load never meets a half written file: what violates
\* FileWhole is two savers, not crashes, full disks or new prefixes.
THEOREM LoneSaverFileWhole == Spec => [](OneSaver => FileWhole)
  <1>1. StoreInv => (OneSaver => FileWhole)
    BY DEF StoreInv, LoneSaver, FileWhole, onDisk
  <1> QED
    BY <1>1, StoreInvariant, PTL

\* The file is never older than a table that Save has reported written,
\* whatever crashes, fails or is reconfigured (Pool.Save, one saver).
THEOREM StoreNoRegression == Spec => []NoTableRegression
  <1>1. StoreInv => NoTableRegression
    <2> SUFFICES ASSUME TypeOK, OneSaver, LoneSaver, fs.path # NoInode
                 PROVE  data[fs.path].snap.ver >= newest
      BY DEF StoreInv, NoTableRegression
    <2>1. newest <= data[fs.path].snap.ver
      BY DEF LoneSaver, onDisk
    <2>2. fs.path \in Inodes
      BY DEF TypeOK
    <2>3. newest \in Nat /\ data[fs.path].snap.ver \in Nat
      BY <2>2, MaxVersionAssumption DEF TypeOK, Content, Snapshot
    <2> QED
      BY <2>1, <2>3
  <1> QED
    BY <1>1, StoreInvariant, PTL

\* A client's cached answer leads to its name while the process runs and after
\* any number of clean restarts, until the cursor comes round to its address
\* (Server.fakeAnswer, Pool.Save, Pool.Load, Pool.Lookup).
THEOREM StoreAnswersKeepWorking == Spec => []AnswersKeepWorking
  <1>1. StoreInv => AnswersKeepWorking
    <2> SUFFICES ASSUME TypeOK, Clean, CleanRestarts, up # "down", NEW a \in answers, ver <= a.until
                 PROVE  lookup(pool[a.fam], addr(a.off)) = a.name
      BY DEF StoreInv, AnswersKeepWorking, Clean
    <2>1. Leads(a, pool, ver) /\ a.off \in Offsets
      BY DEF CleanRestarts, TypeOK, Answers
    <2>2. pool[a.fam].byOff[a.off] = a.name
      BY <2>1 DEF Leads
    <2>3. inTable(addr(a.off)) /\ offset(addr(a.off)) = a.off
      BY <2>1, SizeType DEF inTable, addr, offset, Offsets
    <2> QED
      BY <2>2, <2>3 DEF lookup
  <1> QED
    BY <1>1, StoreInvariant, PTL

-----------------------------------------------------------------------------
(* The first bytes of a TCP connection: the name in a hello or a request.  *)

\* What a result can be.
HostSet == {"", "cut", stream.name, stream.outer}
SniffPcs == {"none", "first", "header", "record", "http", "decide", "relay"}
Results == [proto : {"", "tls", "http"}, host : HostSet, ech : BOOLEAN]

\* Types: no more is buffered than arrived, and the host is one of the scenario.
SniffTypeOK ==
  /\ stream \in Streams
  /\ arrived \in Nat /\ arrived <= Len(stream.cells)
  /\ buffered \in Nat /\ buffered <= arrived
  /\ sniff \in [pc : SniffPcs, from : Nat, res : Results, buf : Nat]
  /\ sniff.pc # "none" => stream.cells # <<>>

\* h is a true answer to what the client has written.
TrueHost(h) ==
  /\ HeadIsHere => h = stream.name
  /\ ~HeadIsHere /\ stream.outer = "" => h \in {"", "cut", stream.name}

\* What has been looked at at each step of Peek; the lines of a request are all
\* that is buffered, or enough, or more is wanted.
SniffInv ==
  /\ SniffTypeOK
  /\ sniff.pc = "header" => buffered >= 1 /\ cell(1) = "16"
  /\ sniff.pc = "record" => buffered >= 2 /\ cell(1) = "16" /\ cell(2) = "len" /\ stream.cells[2][2] # 0
  /\ sniff.pc = "http" =>
       /\ cell(1) \in {"method", "letter"}
       /\ 1 <= sniff.buf /\ sniff.buf <= buffered
       /\ sniff.buf = buffered \/ sniff.buf >= MaxHTTP \/ ~Enough
  /\ sniff.pc = "decide" => TrueHost(domain(sniff.res))
  /\ sniff.pc = "relay" => TrueHost(sniff.res.host)

\* What is assumed of the scenario, piece by piece.
LEMMA Scenario ==
  ASSUME stream \in Streams
  PROVE  /\ stream.head \in Nat /\ stream.cells \in Seq(Range(stream.cells))
         /\ stream.cells # <<>> =>
              /\ stream.head > 0
              /\ cell(1) = "16" => HelloNames(stream)
              /\ cell(1) = "method" => RequestNames(stream)
              /\ cell(1) \notin {"16", "method"} => stream.name = "" /\ stream.outer = ""
  BY SniffAssumption DEF SniffAssumption, cell

\* No more is buffered than there is.
LEMMA Sizes ==
  ASSUME SniffTypeOK
  PROVE  /\ stream.head \in Nat /\ Len(stream.cells) \in Nat
         /\ buffered \in Nat /\ buffered <= Len(stream.cells)
         /\ stream.cells # <<>> => stream.head > 0
         /\ stream.cells = <<>> => Len(stream.cells) = 0
  <1>1. stream.cells \in Seq(Range(stream.cells))
    BY Scenario DEF SniffTypeOK
  <1>2. Len(stream.cells) \in Nat
    BY <1>1, LenProperties
  <1>3. stream.head \in Nat /\ (stream.cells # <<>> => stream.head > 0)
    BY Scenario DEF SniffTypeOK
  <1>4. arrived \in Nat /\ arrived <= Len(stream.cells) /\ buffered \in Nat /\ buffered <= arrived
    BY DEF SniffTypeOK
  <1> QED
    BY <1>2, <1>3, <1>4

\* The position of a cell of a prefix.
LEMMA CellsAt ==
  ASSUME NEW a \in Nat \ {0}, NEW b \in Nat, SniffTypeOK, a - 1 <= b, b <= Len(stream.cells)
  PROVE  /\ Len(Cells(a, b)) = b - a + 1 /\ DOMAIN Cells(a, b) = 1..(b - a + 1)
         /\ \A i \in 1..(b - a + 1) : Cells(a, b)[i] = stream.cells[a + i - 1]
         /\ (Cells(a, b) = <<>>) = (b = a - 1)
  <1>1. stream.cells \in Seq(Range(stream.cells))
    BY Scenario DEF SniffTypeOK
  <1>2. a \in 1..Len(stream.cells) + 1 /\ b \in a - 1..Len(stream.cells) /\ Len(stream.cells) \in Nat
    BY <1>1, LenProperties
  <1> DEFINE c == stream.cells
             C == SubSeq(c, a, b)
  <1> HIDE DEF c
  <1>3. C \in Seq(Range(c)) /\ Len(C) = b - a + 1 /\ \A i \in 1..b - a + 1 : C[i] = c[a + i - 1]
    <2>1. c \in Seq(Range(c)) /\ a \in 1..Len(c) + 1 /\ b \in a - 1..Len(c) /\ Len(c) \in Nat
      BY <1>1, <1>2 DEF c
    <2> QED
      BY <2>1, SubSeqProperties
  <1> HIDE DEF C
  <1>4. DOMAIN C = 1..(b - a + 1) /\ (C = <<>>) = (Len(C) = 0)
    BY <1>3, LenProperties, EmptySeq
  <1> QED
    BY <1>3, <1>4 DEF C, c, Cells

\* A result with a host of the scenario is a result.
LEMMA ResultOf ==
  ASSUME NEW p \in {"", "tls", "http"}, NEW h \in HostSet, NEW e \in BOOLEAN
  PROVE  [proto |-> p, host |-> h, ech |-> e] \in Results
  BY DEF Results

\* Where nothing is found, only the protocol is told.
LEMMA NothingFound ==
  ASSUME NEW p \in {"", "tls", "http"}
  PROVE  LET r == [noResult EXCEPT !.proto = p]
         IN  /\ r \in Results /\ r.host = "" /\ r.ech = FALSE
             /\ noResult \in Results /\ noResult.host = "" /\ noResult.ech = FALSE
  <1> DEFINE n == noResult
  <1>1. n \in [proto : {"", "tls", "http"}, host : {""}, ech : {FALSE}]
    BY DEF noResult
  <1> HIDE DEF n
  <1>4. n \in Results /\ n.host = "" /\ n.ech = FALSE
    BY <1>1 DEF Results, HostSet
  <1> DEFINE r == [n EXCEPT !.proto = p]
  <1>2. r \in [proto : {"", "tls", "http"}, host : {""}, ech : {FALSE}]
    BY <1>1
  <1> HIDE DEF r
  <1>3. r \in Results /\ r.host = "" /\ r.ech = FALSE
    BY <1>2 DEF Results, HostSet
  <1> QED
    BY <1>3, <1>4 DEF r, n

\* The record, or as much of it as there is, gives a true name: if the head is
\* in it, the one server_name, and none if an ech comes with it.
LEMMA HelloHost ==
  ASSUME SniffTypeOK, stream.cells # <<>>, cell(1) = "16", cell(2) = "len",
         NEW m \in Nat, 2 <= m, m <= Len(stream.cells), m <= 2 + stream.cells[2][2],
         m = 2 + stream.cells[2][2] \/ buffered <= m
  PROVE  /\ parseClientHello(Cells(3, m)) \in Results
         /\ TrueHost(domain(parseClientHello(Cells(3, m))))
  <1> DEFINE c == stream.cells
             s == Cells(3, m)
             r == parseClientHello(s)
             sni == {i \in DOMAIN s : s[i][1] = "sni"}
  <1>1. /\ Len(s) = m - 2 /\ DOMAIN s = 1..(m - 2)
        /\ \A i \in 1..(m - 2) : s[i] = c[i + 2]
    <2>1. 3 \in Nat \ {0} /\ 3 - 1 <= m /\ m - 3 + 1 = m - 2 /\ \A i \in Int : 3 + i - 1 = i + 2
      OBVIOUS
    <2>2. /\ Len(s) = m - 3 + 1 /\ DOMAIN s = 1..(m - 3 + 1)
          /\ \A i \in 1..(m - 3 + 1) : s[i] = c[3 + i - 1]
      BY <2>1, CellsAt
    <2> HIDE DEF s, c
    <2> QED
      BY <2>1, <2>2
  <1>2. /\ stream.head \in Nat /\ stream.head > 0 /\ HelloNames(stream)
        /\ buffered \in Nat /\ buffered <= Len(c) /\ Len(c) \in Nat
    <2>1. HelloNames(stream)
      BY Scenario DEF SniffTypeOK
    <2> QED
      BY <2>1, Sizes
  <1>3. c[2][1] = "len" /\ c[2][2] \in Nat /\ Len(c) >= 2
    <2>1. Len(c) >= 2 /\ c[2][1] = "len"
      BY <1>2 DEF cell
    <2>2. Len(c) >= 2 /\ c[2][1] = "len" => c[2][2] \in Nat
      BY <1>2 DEF HelloNames
    <2> QED
      BY <2>1, <2>2
  <1> HIDE DEF s
  <1>4. \A i \in DOMAIN s : i + 2 \in record(c) /\ s[i] = c[i + 2]
    BY <1>1, <1>3 DEF record
  <1>5. HeadIsHere => \A i \in record(c) : i <= stream.head => i - 2 \in DOMAIN s /\ s[i - 2] = c[i] /\ stream.head <= Len(c)
    <2> SUFFICES ASSUME HeadIsHere, NEW i \in record(c), i <= stream.head
                 PROVE  i - 2 \in DOMAIN s /\ s[i - 2] = c[i] /\ stream.head <= Len(c)
      OBVIOUS
    <2>1. i \in 3..Len(c) /\ i <= 2 + c[2][2] /\ i <= buffered /\ stream.head <= Len(c)
      BY <1>2 DEF record, HeadIsHere
    <2>2. i <= m
      BY <1>2, <1>3, <2>1
    <2>3. i - 2 \in 1..(m - 2) /\ (i - 2) + 2 = i
      BY <2>1, <2>2
    <2> QED
      BY <1>1, <2>1, <2>3
  <1>0. HeadIsHere => stream.head <= Len(c)
    BY <1>2 DEF HeadIsHere
  <1>6. \A i \in sni : s[i][2] \in HostSet /\ (stream.outer = "" => s[i][2] = stream.name)
    <2> SUFFICES ASSUME NEW i \in sni
                 PROVE  s[i][2] \in HostSet /\ (stream.outer = "" => s[i][2] = stream.name)
      OBVIOUS
    <2>1. i + 2 \in record(c) /\ c[i + 2][1] = "sni" /\ s[i] = c[i + 2]
      BY <1>4
    <2>2. c[i + 2][2] = IF stream.outer = "" THEN stream.name ELSE stream.outer
      BY <1>2, <2>1 DEF HelloNames
    <2> QED
      BY <2>1, <2>2 DEF HostSet
  <1>7. sni # {} => Max(sni) \in sni
    <2>1. sni \subseteq 0..(m - 2) /\ m - 2 \in Nat
      BY <1>1
    <2> HIDE DEF sni
    <2> QED
      BY <2>1, MaxIsIn
  <1> DEFINE read2 == Len(s) >= 2 /\ s[1] = <<"hello">> /\ s[2] = <<"fixed">>
             ech == "ech" \in Kinds(s)
             host == IF sni # {} THEN s[Max(sni)][2] ELSE ""
  <1>9. host \in HostSet /\ (stream.outer = "" => host \in {"", stream.name})
    <2>1. "" \in HostSet
      BY DEF HostSet
    <2> HIDE DEF sni
    <2> QED
      BY <1>6, <1>7, <2>1
  <1>10. ech \in BOOLEAN /\ (ech <=> \E i \in DOMAIN s : s[i][1] = "ech")
    BY DEF Kinds
  <1>11. ("sni" \in Kinds(s)) = (sni # {})
    BY DEF Kinds
  <1>12. r \in Results /\ r.host = (IF read2 THEN host ELSE "") /\ r.ech = (IF read2 THEN ech ELSE FALSE)
    <2>1. CASE ~read2
      <3>1. r = [noResult EXCEPT !.proto = "tls"]
        BY <2>1 DEF parseClientHello
      <3> HIDE DEF host, ech, read2, r
      <3>2. r \in Results /\ r.host = "" /\ r.ech = FALSE
        BY <3>1, NothingFound
      <3> QED
        BY <2>1, <3>2
    <2>2. CASE read2
      <3>1. r = [proto |-> "tls", host |-> host, ech |-> ech]
        BY <1>11, <2>2 DEF parseClientHello
      <3> HIDE DEF host, ech, read2, r
      <3>2. r \in Results
        BY <1>9, <1>10, <3>1, ResultOf
      <3> QED
        BY <2>2, <3>1, <3>2
    <2> QED
      BY <2>1, <2>2
  <1>16. domain(r) = IF read2 /\ ~ech THEN host ELSE ""
    <2> HIDE DEF host, ech, read2, r
    <2> QED
      BY <1>10, <1>12 DEF domain
  <1>13. ASSUME HeadIsHere, stream.name # "" PROVE domain(r) = stream.name
    <2>1. /\ stream.outer = "" /\ \A i \in record(c) : c[i][1] # "ech"
          /\ stream.head <= Len(c) => /\ c[3] = <<"hello">> /\ c[4] = <<"fixed">>
                                      /\ \E i \in record(c) : c[i][1] = "sni" /\ i <= stream.head
      BY <1>2, <1>13 DEF HelloNames
    <2>2. stream.head <= Len(c)
      BY <1>0, <1>13
    <2>10. c[3] = <<"hello">> /\ c[4] = <<"fixed">>
      BY <2>1, <2>2, Zenon
    <2>3. PICK i \in record(c) : c[i][1] = "sni" /\ i <= stream.head
      BY <2>1, <2>2
    <2>4. i - 2 \in sni
      BY <1>5, <1>13, <2>3
    <2>5. i \in Nat /\ i >= 5
      <3>1. i \in 3..Len(c)
        BY DEF record
      <3>2. c[3][1] # "sni" /\ c[4][1] # "sni"
        <4>1. <<"hello">>[1] # "sni" /\ <<"fixed">>[1] # "sni"
          OBVIOUS
        <4> QED
          BY <2>10, <4>1
      <3>3. i # 3 /\ i # 4
        BY <2>3, <3>2
      <3> HIDE DEF c
      <3> QED
        BY <1>2, <3>1, <3>3
    <2>6. Len(s) >= 2 /\ 1 \in DOMAIN s /\ 2 \in DOMAIN s
      BY <1>1, <2>4, <2>5
    <2>7. read2
      <3>1. s[1] = c[1 + 2] /\ s[2] = c[2 + 2]
        BY <1>4, <2>6
      <3> QED
        BY <2>6, <2>10, <3>1
    <2>8. ~ech
      BY <1>4, <1>10, <2>1
    <2>9. host = stream.name
      <3>1. sni # {}
        BY <2>4
      <3> HIDE DEF sni
      <3> QED
        BY <1>6, <1>7, <2>1, <3>1
    <2> HIDE DEF host, ech, read2, r
    <2> QED
      BY <1>16, <2>7, <2>8, <2>9
  <1>14. ASSUME HeadIsHere, stream.name = "" PROVE domain(r) = stream.name
    <2>1. CASE stream.outer = ""
      <3> HIDE DEF host, ech, read2, r
      <3> QED
        BY <1>9, <1>16, <1>14, <2>1
    <2>2. CASE stream.outer # ""
      <3>1. stream.head <= Len(c)
        BY <1>0, <1>14
      <3>2. PICK i \in record(c) : c[i][1] = "ech" /\ i <= stream.head
        BY <1>2, <2>2, <3>1 DEF HelloNames
      <3>3. ech
        BY <1>5, <1>10, <1>14, <3>2
      <3> HIDE DEF host, ech, read2, r
      <3> QED
        BY <1>16, <1>14, <3>3
    <2> QED
      BY <2>1, <2>2
  <1>15. TrueHost(domain(r))
    <2> HIDE DEF host, ech, read2, r
    <2> QED
      BY <1>9, <1>16, <1>13, <1>14 DEF TrueHost
  <1> QED
    BY <1>12, <1>15 DEF s

\* The lines of a head, or as many as were looked at, give a true name.
LEMMA RequestHost ==
  ASSUME SniffTypeOK, stream.cells # <<>>, cell(1) \in {"method", "letter"},
         NEW m \in Nat, 1 <= m, m <= buffered, m = buffered \/ m >= MaxHTTP
  PROVE  /\ parseHTTP(Cells(1, m)) \in Results
         /\ TrueHost(domain(parseHTTP(Cells(1, m))))
  <1> DEFINE c == stream.cells
             s == Cells(1, m)
             r == parseHTTP(s)
  <1>1. /\ Len(s) = m /\ DOMAIN s = 1..m /\ s # <<>>
        /\ \A i \in 1..m : s[i] = c[i]
    <2>1. /\ 1 \in Nat \ {0} /\ 1 - 1 <= m /\ m - 1 + 1 = m /\ m # 1 - 1 /\ m <= Len(stream.cells)
          /\ \A i \in Int : 1 + i - 1 = i
      BY Sizes
    <2>2. /\ Len(s) = m - 1 + 1 /\ DOMAIN s = 1..(m - 1 + 1)
          /\ \A i \in 1..(m - 1 + 1) : s[i] = c[1 + i - 1]
          /\ (s = <<>>) = (m = 1 - 1)
      BY <2>1, CellsAt
    <2> HIDE DEF s, c
    <2> QED
      BY <2>1, <2>2
  <1>2. /\ stream.head \in Nat /\ MaxHTTP \in Nat
        /\ buffered \in Nat /\ buffered <= Len(c) /\ Len(c) \in Nat
    <2>1. MaxHTTP \in Nat
      <3>1. MaxPeek \in Nat \ {0} /\ MaxHTTP \in 1..MaxPeek
        BY SniffAssumption, Zenon DEF SniffAssumption
      <3> QED
        BY <3>1
    <2> QED
      BY <2>1, Sizes
  <1>3. HeadIsHere => stream.head <= Len(c)
    BY <1>2 DEF HeadIsHere
  <1> HIDE DEF s
  <1>4. CASE cell(1) = "letter"
    <2>1. stream.name = "" /\ stream.outer = ""
      BY <1>4, Scenario DEF SniffTypeOK
    <2>2. s[1] = c[1] /\ c[1][1] = "letter" /\ <<"method">>[1] = "method"
      BY <1>1, <1>4 DEF cell
    <2>3. s[1] # <<"method">>
      BY <2>2
    <2>4. r = noResult
      BY <2>3 DEF parseHTTP
    <2> HIDE DEF r
    <2>5. r \in Results /\ r.host = ""
      BY <2>4, NothingFound
    <2> QED
      BY <2>1, <2>5 DEF TrueHost, domain, r, s
  <1>5. CASE cell(1) = "method"
    <2>1. RequestNames(stream)
      BY <1>5, Scenario DEF SniffTypeOK
    <2> DEFINE blanks == {i \in DOMAIN s : s[i] = <<"blank">>} \cup {Len(s) + 1}
               blank == Min(blanks)
               hosts == {i \in 1..blank - 1 : s[i][1] = "host1"}
               first == Min(hosts)
               all == {i \in DOMAIN c : c[i][1] = "host1" /\ \A j \in 1..i : c[j] # <<"blank">>}
               host == IF hosts = {} THEN ""
                       ELSE IF first < blank - 1 /\ s[first + 1][1] = "host2" THEN s[first][2]
                       ELSE "cut"
    <2>2. c[1] = <<"method">> /\ stream.outer = "" /\ (all = {} => stream.name = "")
      BY <2>1 DEF RequestNames
    <2>3. \A f \in all : (\A i \in all : f <= i) =>
            /\ c[f][2] = stream.name
            /\ stream.head <= Len(c) => f + 1 <= stream.head /\ f + 1 <= MaxHTTP /\ c[f + 1][1] = "host2"
      BY <2>1 DEF RequestNames
    <2>4. r = [noResult EXCEPT !.proto = "http", !.host = host]
      <3>1. s[1] = <<"method">>
        <4>1. s[1] = c[1]
          BY <1>1
        <4> QED
          BY <2>2, <4>1, Zenon
      <3> QED
        BY <1>1, <3>1 DEF parseHTTP
    <2>5. /\ blank \in 1..m + 1 /\ (blank <= m => s[blank] = <<"blank">>)
          /\ \A i \in 1..m : i < blank => s[i] # <<"blank">>
      <3>1. blanks \subseteq Nat /\ blanks # {}
        BY <1>1
      <3>2. blank \in blanks /\ \A i \in blanks : blank <= i
        <4> HIDE DEF blanks
        <4> QED
          BY <3>1, MinIsLeast
      <3> HIDE DEF blank
      <3> QED
        BY <1>1, <3>2
    <2> HIDE DEF blank
    <2>6. hosts \subseteq all /\ hosts \subseteq 1..m
      <3> SUFFICES ASSUME NEW i \in hosts PROVE i \in all /\ i \in 1..m
        OBVIOUS
      <3>1. i \in 1..m /\ i < blank /\ s[i][1] = "host1"
        BY <2>5
      <3>2. i \in 1..Len(c) /\ c[i][1] = "host1" /\ \A j \in 1..i : c[j] # <<"blank">>
        BY <1>1, <1>2, <2>5, <3>1
      <3>3. DOMAIN c = 1..Len(c)
        BY Scenario, LenProperties DEF SniffTypeOK
      <3> QED
        BY <3>1, <3>2, <3>3
    <2>7. all \subseteq Nat /\ \A i \in all : i <= m => i \in hosts
      <3>1. DOMAIN c = 1..Len(c)
        BY Scenario, LenProperties DEF SniffTypeOK
      <3> SUFFICES ASSUME NEW i \in all PROVE i \in Nat /\ (i <= m => i \in hosts)
        OBVIOUS
      <3>2. i \in 1..Len(c) /\ c[i][1] = "host1" /\ \A j \in 1..i : c[j] # <<"blank">>
        BY <3>1
      <3>3. ASSUME i <= m PROVE i \in hosts
        <4>1. i \in 1..m /\ s[i][1] = "host1"
          BY <1>1, <1>2, <3>2, <3>3
        <4>2. i < blank
          BY <1>1, <2>5, <3>2, <4>1
        <4> QED
          BY <2>5, <4>1, <4>2
      <3> QED
        BY <1>2, <3>2, <3>3
    <2> HIDE DEF all
    <2>8. ASSUME hosts # {}
          PROVE  /\ host \in {"cut", stream.name}
                 /\ HeadIsHere => host = stream.name
      <3>1. first \in hosts /\ \A i \in hosts : first <= i
        <4>1. hosts \subseteq Nat
          BY <2>6
        <4> HIDE DEF hosts
        <4> QED
          BY <2>8, <4>1, MinIsLeast
      <3>2. first \in all /\ first \in 1..m /\ first < blank
        BY <2>5, <2>6, <3>1
      <3> HIDE DEF first
      <3>3. \A i \in all : first <= i
        <4> HIDE DEF hosts
        <4> QED
          BY <2>7, <3>1, <3>2
      <3>4. s[first][2] = stream.name
        BY <1>1, <2>3, <3>2, <3>3
      <3>5. ASSUME HeadIsHere PROVE first < blank - 1 /\ s[first + 1][1] = "host2"
        <4>1. first + 1 <= stream.head /\ first + 1 <= MaxHTTP /\ c[first + 1][1] = "host2"
          BY <1>3, <2>3, <3>2, <3>3, <3>5
        <4>2. first + 1 \in 1..m
          BY <1>2, <3>2, <3>5, <4>1 DEF HeadIsHere
        <4>3. s[first + 1][1] = "host2"
          BY <1>1, <4>1, <4>2
        <4>4. first + 1 # blank
          <5>1. <<"blank">>[1] = "blank"
            OBVIOUS
          <5> QED
            BY <2>5, <4>2, <4>3, <5>1
        <4> QED
          BY <2>5, <3>2, <4>3, <4>4
      <3> HIDE DEF hosts
      <3> QED
        BY <2>8, <3>4, <3>5
    <2>9. ASSUME hosts = {}, HeadIsHere PROVE stream.name = ""
      <3>1. ASSUME all # {} PROVE FALSE
        <4>1. PICK f \in all : \A i \in all : ~(i < f)
          BY <2>7, <3>1, Least
        <4>2. f \in Nat /\ \A i \in all : f <= i
          BY <2>7, <4>1
        <4>3. f + 1 <= stream.head /\ f + 1 <= MaxHTTP
          BY <1>3, <2>3, <2>9, <4>1, <4>2
        <4>4. f <= m
          BY <1>2, <2>9, <4>2, <4>3 DEF HeadIsHere
        <4> QED
          BY <2>7, <2>9, <4>1, <4>4
      <3> QED
        BY <2>2, <3>1
    <2>10. host \in {"", "cut", stream.name} /\ (HeadIsHere => host = stream.name)
      <3> HIDE DEF hosts
      <3>1. CASE hosts = {}
        BY <2>9, <3>1
      <3>2. CASE hosts # {}
        <4> HIDE DEF host
        <4> QED
          BY <2>8, <3>2
      <3> QED
        BY <3>1, <3>2
    <2> HIDE DEF host
    <2>11. r \in Results /\ r.host = host /\ r.ech = FALSE
      <3> DEFINE n == [noResult EXCEPT !.proto = "http"]
      <3>1. n \in Results /\ n.ech = FALSE
        BY NothingFound
      <3>2. r = [n EXCEPT !.host = host]
        BY <2>4
      <3> HIDE DEF n, r
      <3>3. host \in HostSet
        BY <2>10 DEF HostSet
      <3> QED
        BY <3>1, <3>2, <3>3 DEF Results
    <2> HIDE DEF r
    <2>12. TrueHost(domain(r))
      BY <2>2, <2>10, <2>11 DEF TrueHost, domain
    <2> QED
      BY <2>11, <2>12 DEF r, s
  <1> QED
    BY <1>4, <1>5

\* What is taken for granted of the state is there at the start.
LEMMA SniffStart ==
  ASSUME SniffInit
  PROVE  SniffInv
  <1>1. stream \in Streams /\ arrived = 0 /\ buffered = 0
    BY DEF SniffInit
  <1>2. stream.cells \in Seq(Range(stream.cells)) /\ Len(stream.cells) \in Nat
    BY <1>1, Scenario, LenProperties
  <1> DEFINE pc == IF stream.cells = <<>> THEN "none" ELSE "first"
             res == noResult
  <1>3. res \in Results
    BY NothingFound
  <1> HIDE DEF res
  <1>4. sniff = [pc |-> pc, from |-> 0, res |-> res, buf |-> 0]
    BY DEF SniffInit, res
  <1>5. sniff \in [pc : SniffPcs, from : Nat, res : Results, buf : Nat] /\ sniff.pc = pc
    <2>1. pc \in SniffPcs
      BY DEF SniffPcs
    <2> HIDE DEF pc
    <2> QED
      BY <1>3, <1>4, <2>1
  <1>6. SniffTypeOK
    BY <1>1, <1>2, <1>5 DEF SniffTypeOK
  <1> QED
    BY <1>5, <1>6 DEF SniffInv

\* A result that is true of the client is what is to be decided on.
LEMMA TakenUp ==
  ASSUME SniffInv, NEW res, sniff.pc # "none", res \in Results, TrueHost(domain(res)),
         Found(res)
  PROVE  SniffInv'
  <1>1. sniff \in [pc : SniffPcs, from : Nat, res : Results, buf : Nat]
    BY DEF SniffInv, SniffTypeOK
  <1>2. /\ sniff' = [sniff EXCEPT !.pc = "decide", !.res = res]
        /\ UNCHANGED <<stream, arrived, ended, expired, buffered, read>>
    BY DEF Found
  <1>3. sniff' \in [pc : SniffPcs, from : Nat, res : Results, buf : Nat] /\ sniff'.pc = "decide" /\ sniff'.res = res
    BY <1>1, <1>2 DEF SniffPcs
  <1>4. Results' = Results /\ SniffPcs' = SniffPcs
    BY <1>2 DEF Results, HostSet, SniffPcs
  <1>5. SniffTypeOK'
    BY <1>2, <1>3, <1>4 DEF SniffInv, SniffTypeOK
  <1>6. TrueHost(domain(res))'
    BY <1>2 DEF TrueHost, HeadIsHere, domain
  <1>7. TrueHost(domain(sniff.res))'
    BY <1>3, <1>6 DEF domain
  <1> QED
    BY <1>3, <1>5, <1>7 DEF SniffInv

\* No name is the truth when there is none, or its head has not come.
LEMMA NoNameIsTrue ==
  ASSUME HeadIsHere => stream.name = ""
  PROVE  noResult \in Results /\ TrueHost(domain(noResult))
  <1>1. noResult \in Results /\ noResult.host = "" /\ noResult.ech = FALSE
    BY NothingFound
  <1> QED
    BY <1>1 DEF TrueHost, domain

\* A cell of the record that is there is more than the header.
LEMMA BeyondHeader ==
  ASSUME SniffTypeOK, HeadIsHere,
         NEW i \in record(stream.cells), i <= stream.head
  PROVE  buffered >= 3 /\ cell(2) = "len" /\ stream.cells[2][2] # 0
  <1> DEFINE c == stream.cells
  <1>1. stream.head \in Nat /\ buffered \in Nat /\ Len(c) \in Nat
    BY Sizes
  <1>2. i \in 3..Len(c) /\ c[2][1] = "len" /\ i <= 2 + c[2][2]
    BY DEF record
  <1>3. buffered >= stream.head
    BY DEF HeadIsHere
  <1>4. buffered >= 3
    <2> HIDE DEF c
    <2> QED
      BY <1>1, <1>2, <1>3
  <1>5. ASSUME c[2][2] = 0 PROVE FALSE
    <2>1. i <= 2 + 0
      BY <1>2, <1>5
    <2> HIDE DEF c
    <2> QED
      BY <1>1, <1>2, <2>1
  <1> QED
    BY <1>2, <1>4, <1>5 DEF cell

\* What has come is among what there is.
LEMMA HeadIsThere ==
  ASSUME SniffTypeOK, HeadIsHere
  PROVE  stream.head <= Len(stream.cells)
  <1>1. /\ stream.head \in Nat /\ Len(stream.cells) \in Nat
        /\ buffered \in Nat /\ buffered <= Len(stream.cells)
    BY Sizes
  <1>2. buffered >= stream.head
    BY DEF HeadIsHere
  <1> QED
    BY <1>1, <1>2

\* A hello that names a host in the clear is more than the header of a record.
LEMMA NamedHello ==
  ASSUME SniffTypeOK, stream.cells # <<>>, cell(1) = "16", HeadIsHere, stream.name # ""
  PROVE  /\ buffered >= 3 /\ cell(2) = "len" /\ stream.cells[2][2] # 0
  <1>1. HelloNames(stream)
    BY Scenario DEF SniffTypeOK
  <1>2. stream.head <= Len(stream.cells)
    BY HeadIsThere
  <1>3. PICK i \in record(stream.cells) : i <= stream.head
    BY <1>1, <1>2 DEF HelloNames
  <1> QED
    BY <1>3, BeyondHeader

\* Steps that leave Peek and the buffer alone.
LEMMA PeekUntouched ==
  ASSUME SniffInv, UNCHANGED <<stream, buffered, sniff>>,
         arrived' \in Nat, arrived <= arrived', arrived' <= Len(stream.cells)
  PROVE  SniffInv'
  <1>1. SniffTypeOK'
    <2>1. Results' = Results /\ SniffPcs' = SniffPcs
      BY DEF Results, HostSet, SniffPcs
    <2>2. buffered \in Nat /\ buffered <= arrived /\ arrived \in Nat /\ buffered <= arrived'
      BY DEF SniffInv, SniffTypeOK
    <2> QED
      BY <2>1, <2>2 DEF SniffInv, SniffTypeOK
  <1> QED
    BY <1>1 DEF SniffInv, cell, Enough, Cells, TrueHost, HeadIsHere, domain

\* Peek goes on to look at something else.
LEMMA LooksOn ==
  ASSUME SniffInv, sniff.pc # "none", NEW pc \in {"header", "record", "http"}, NEW n \in Nat,
         sniff' = [sniff EXCEPT !.pc = pc, !.buf = n],
         UNCHANGED <<stream, arrived, ended, expired, buffered, read>>
  PROVE  SniffTypeOK' /\ sniff'.pc = pc /\ sniff'.buf = n
  <1>1. sniff \in [pc : SniffPcs, from : Nat, res : Results, buf : Nat]
    BY DEF SniffInv, SniffTypeOK
  <1>2. sniff' \in [pc : SniffPcs, from : Nat, res : Results, buf : Nat] /\ sniff'.pc = pc /\ sniff'.buf = n
    BY <1>1 DEF SniffPcs
  <1>3. Results' = Results /\ SniffPcs' = SniffPcs
    BY DEF Results, HostSet, SniffPcs
  <1> QED
    BY <1>2, <1>3 DEF SniffInv, SniffTypeOK

\* The first cell tells what to look for.
LEMMA FirstKeeps ==
  ASSUME SniffInv, PeekFirst
  PROVE  SniffInv'
  <1>1. SniffTypeOK /\ sniff.pc = "first" /\ stream.cells # <<>> /\ sniff.pc # "none"
    BY DEF SniffInv, SniffTypeOK, PeekFirst
  <1>2. CASE PeekFails(1) /\ Found(noResult)
    <2>1. ~HeadIsHere
      BY <1>1, <1>2, Sizes DEF PeekFails, HeadIsHere
    <2> QED
      BY <1>1, <1>2, <2>1, NoNameIsTrue, TakenUp
  <1>3. CASE PeekHas(1) /\ cell(1) = "16" /\ Then("header")
    <2>1. sniff' = [sniff EXCEPT !.pc = "header", !.buf = sniff.buf] /\ sniff.buf \in Nat
      <3>1. sniff \in [pc : SniffPcs, from : Nat, res : Results, buf : Nat]
        BY <1>1 DEF SniffTypeOK
      <3> QED
        BY <1>3, <3>1 DEF Then
    <2>2. UNCHANGED <<stream, arrived, ended, expired, buffered, read>>
      BY <1>3 DEF Then
    <2>3. SniffTypeOK' /\ sniff'.pc = "header"
      BY <1>1, <2>1, <2>2, LooksOn
    <2> QED
      BY <1>3, <2>2, <2>3 DEF SniffInv, PeekHas, cell
  <1>4. CASE /\ PeekHas(1) /\ cell(1) \in {"method", "letter"}
             /\ sniff' = [sniff EXCEPT !.pc = "http", !.buf = buffered]
             /\ UNCHANGED <<stream, arrived, ended, expired, buffered, read>>
    <2>1. SniffTypeOK' /\ sniff'.pc = "http" /\ sniff'.buf = buffered
      BY <1>1, <1>4, Sizes, LooksOn
    <2> QED
      BY <1>4, <2>1 DEF SniffInv, SniffTypeOK, PeekHas, cell
  <1>5. CASE cell(1) \notin {"16", "method", "letter"} /\ Found(noResult)
    <2>1. stream.name = ""
      BY <1>1, <1>5, Scenario DEF SniffTypeOK
    <2> QED
      BY <1>1, <1>5, <2>1, NoNameIsTrue, TakenUp
  <1> QED
    BY <1>2, <1>3, <1>4, <1>5 DEF PeekFirst

\* A header that has not come, or of another version or length, names nobody.
LEMMA HeaderKeeps ==
  ASSUME SniffInv, PeekHeader
  PROVE  SniffInv'
  <1>1. SniffTypeOK /\ sniff.pc = "header" /\ stream.cells # <<>> /\ sniff.pc # "none" /\ cell(1) = "16"
    BY DEF SniffInv, SniffTypeOK, PeekHeader
  <1>2. CASE PeekFails(2) /\ Found(noResult)
    <2>1. HeadIsHere => stream.name = ""
      <3>1. buffered \in Nat /\ buffered < 2
        BY <1>1, <1>2, Sizes DEF PeekFails
      <3>2. ~(buffered >= 3)
        BY <3>1
      <3> QED
        BY <1>1, <3>2, NamedHello
    <2> QED
      BY <1>1, <1>2, <2>1, NoNameIsTrue, TakenUp
  <1>3. CASE (cell(2) # "len" \/ stream.cells[2][2] = 0) /\ Found(noResult)
    <2>1. HeadIsHere => stream.name = ""
      BY <1>1, <1>3, NamedHello
    <2> QED
      BY <1>1, <1>3, <2>1, NoNameIsTrue, TakenUp
  <1>4. CASE PeekHas(2) /\ cell(2) = "len" /\ stream.cells[2][2] # 0 /\ Then("record")
    <2>1. sniff' = [sniff EXCEPT !.pc = "record", !.buf = sniff.buf] /\ sniff.buf \in Nat
      <3>1. sniff \in [pc : SniffPcs, from : Nat, res : Results, buf : Nat]
        BY <1>1 DEF SniffTypeOK
      <3> QED
        BY <1>4, <3>1 DEF Then
    <2>2. UNCHANGED <<stream, arrived, ended, expired, buffered, read>>
      BY <1>4 DEF Then
    <2>3. SniffTypeOK' /\ sniff'.pc = "record"
      BY <1>1, <2>1, <2>2, LooksOn
    <2> QED
      BY <1>1, <1>4, <2>2, <2>3 DEF SniffInv, PeekHas, cell
  <1> QED
    BY <1>2, <1>3, <1>4 DEF PeekHeader

\* The record is looked at as far as it has come.
LEMMA RecordKeeps ==
  ASSUME SniffInv, PeekRecord
  PROVE  SniffInv'
  <1> DEFINE n == 2 + stream.cells[2][2]
  <1>1. /\ SniffTypeOK /\ sniff.pc = "record" /\ stream.cells # <<>> /\ sniff.pc # "none"
        /\ cell(1) = "16" /\ cell(2) = "len" /\ stream.cells[2][2] # 0 /\ buffered >= 2
    BY DEF SniffInv, SniffTypeOK, PeekRecord
  <1>2. buffered \in Nat /\ buffered <= Len(stream.cells) /\ Len(stream.cells) \in Nat
    BY <1>1, Sizes
  <1>3. stream.cells[2][2] \in Nat /\ n \in Nat /\ n >= 2
    <2>1. HelloNames(stream)
      BY <1>1, Scenario DEF SniffTypeOK
    <2>2. stream.cells[2][2] \in Nat
      <3>1. Len(stream.cells) >= 2 /\ stream.cells[2][1] = "len"
        BY <1>1, <1>2 DEF cell
      <3>2. Len(stream.cells) >= 2 /\ stream.cells[2][1] = "len" => stream.cells[2][2] \in Nat
        BY <2>1 DEF HelloNames
      <3> QED
        BY <3>1, <3>2
    <2> QED
      BY <2>2
  <1>4. PICK m, res : /\ m \in Nat /\ 2 <= m /\ m <= buffered /\ m <= n /\ (m = n \/ buffered <= m)
                      /\ res = parseClientHello(Cells(3, m)) /\ Found(res)
    <2>1. CASE PeekHas(n) /\ n <= MaxPeek /\ Found(parseClientHello(Cells(3, n)))
      <3>1. n <= buffered
        BY <2>1 DEF PeekHas
      <3> QED
        BY <1>3, <2>1, <3>1
    <2>2. CASE Found(parseClientHello(Cells(3, Min({n, buffered}))))
      <3>1. Min({n, buffered}) \in {n, buffered} /\ Min({n, buffered}) <= n /\ Min({n, buffered}) <= buffered
        BY <1>2, <1>3, MinIsLeast
      <3> DEFINE k == Min({n, buffered})
      <3>2. k \in Nat /\ 2 <= k /\ k <= buffered /\ k <= n /\ (k = n \/ buffered <= k)
        <4> HIDE DEF n
        <4>1. k \in {n, buffered} /\ k <= n /\ k <= buffered
          BY <3>1
        <4> HIDE DEF k
        <4> QED
          BY <1>1, <1>2, <1>3, <4>1
      <3>3. Found(parseClientHello(Cells(3, k)))
        BY <2>2
      <3> HIDE DEF k
      <3> QED
        BY <3>2, <3>3
    <2> QED
      BY <2>1, <2>2 DEF PeekRecord
  <1>5. res \in Results /\ TrueHost(domain(res))
    BY <1>1, <1>2, <1>4, HelloHost
  <1> QED
    BY <1>1, <1>4, <1>5, TakenUp

\* The head of a request is looked at when its end or enough of it has come.
LEMMA HTTPKeeps ==
  ASSUME SniffInv, PeekHTTP
  PROVE  SniffInv'
  <1>1. /\ SniffTypeOK /\ sniff.pc = "http" /\ stream.cells # <<>> /\ sniff.pc # "none"
        /\ cell(1) \in {"method", "letter"} /\ 1 <= sniff.buf /\ sniff.buf <= buffered
        /\ sniff.buf = buffered \/ sniff.buf >= MaxHTTP \/ ~Enough
    BY DEF SniffInv, SniffTypeOK, PeekHTTP
  <1>2. buffered \in Nat /\ sniff.buf \in Nat
    BY <1>1 DEF SniffTypeOK
  <1>3. MaxHTTP \in Nat /\ MaxHTTP >= 1
    <2>1. MaxPeek \in Nat \ {0} /\ MaxHTTP \in 1..MaxPeek
      BY SniffAssumption, Zenon DEF SniffAssumption
    <2> QED
      BY <2>1
  <1>4. CASE (Enough \/ PeekFails(sniff.buf + 1)) /\ Found(parseHTTP(Cells(1, sniff.buf)))
    <2>1. sniff.buf = buffered \/ sniff.buf >= MaxHTTP
      BY <1>1, <1>2, <1>4 DEF PeekFails
    <2>2. PICK m, res : m = sniff.buf /\ res = parseHTTP(Cells(1, m)) /\ Found(res)
      BY <1>4
    <2>3. res \in Results /\ TrueHost(domain(res))
      BY <1>1, <1>2, <2>1, <2>2, RequestHost
    <2> QED
      BY <1>1, <2>2, <2>3, TakenUp
  <1>5. CASE /\ PeekHas(sniff.buf + 1)
             /\ sniff' = [sniff EXCEPT !.buf = Min({buffered, MaxHTTP})]
             /\ UNCHANGED <<stream, arrived, ended, expired, buffered, read>>
    <2>1. PICK k : k = Min({buffered, MaxHTTP})
      OBVIOUS
    <2>2. k \in {buffered, MaxHTTP} /\ k <= buffered
      BY <1>2, <1>3, <2>1, MinIsLeast
    <2>3. sniff' = [sniff EXCEPT !.pc = "http", !.buf = k]
      <3>1. sniff \in [pc : SniffPcs, from : Nat, res : Results, buf : Nat]
        BY <1>1 DEF SniffTypeOK
      <3> QED
        BY <1>1, <1>5, <2>1, <3>1
    <2>4. SniffTypeOK' /\ sniff'.pc = "http" /\ sniff'.buf = k
      BY <1>1, <1>2, <1>3, <1>5, <2>2, <2>3, LooksOn
    <2>5. 1 <= k /\ (k = buffered \/ k >= MaxHTTP)
      BY <1>1, <1>2, <1>3, <2>2
    <2> QED
      BY <1>1, <1>5, <2>2, <2>4, <2>5 DEF SniffInv, cell
  <1> QED
    BY <1>4, <1>5 DEF PeekHTTP

\* handle takes the name it may take.
LEMMA DecideKeeps ==
  ASSUME SniffInv, Decide
  PROVE  SniffInv'
  <1> DEFINE h == domain(sniff.res)
  <1>1. /\ sniff \in [pc : SniffPcs, from : Nat, res : Results, buf : Nat]
        /\ sniff.pc = "decide" /\ TrueHost(h)
    BY DEF SniffInv, SniffTypeOK, Decide
  <1>2. h \in HostSet
    BY <1>1 DEF domain, Results, HostSet
  <1>3. /\ sniff' = [sniff EXCEPT !.pc = "relay", !.res.host = h]
        /\ UNCHANGED <<stream, arrived, ended, expired, buffered, read>>
    BY DEF Decide
  <1> HIDE DEF h
  <1>4. sniff' \in [pc : SniffPcs, from : Nat, res : Results, buf : Nat] /\ sniff'.pc = "relay" /\ sniff'.res.host = h
    BY <1>1, <1>2, <1>3 DEF SniffPcs, Results
  <1>5. Results' = Results /\ SniffPcs' = SniffPcs
    BY <1>3 DEF Results, HostSet, SniffPcs
  <1>6. SniffTypeOK'
    BY <1>1, <1>3, <1>4, <1>5 DEF SniffInv, SniffTypeOK
  <1>7. TrueHost(sniff.res.host)'
    BY <1>1, <1>3, <1>4 DEF TrueHost, HeadIsHere
  <1> QED
    BY <1>4, <1>6, <1>7 DEF SniffInv

\* One Read of the connection: only while Peek still wants more.
LEMMA FillKeeps ==
  ASSUME SniffInv, Fill
  PROVE  SniffInv'
  <1>1. /\ SniffTypeOK /\ buffered \in Nat /\ arrived \in Nat /\ UNCHANGED <<stream, arrived, sniff>>
    BY DEF SniffInv, SniffTypeOK, Fill
  <1>2. buffered' \in Nat /\ buffered <= buffered' /\ buffered' <= arrived
    <2>1. MaxPeek \in Nat
      BY SniffAssumption, Zenon DEF SniffAssumption
    <2>2. Min({arrived, MaxPeek}) \in Nat /\ Min({arrived, MaxPeek}) <= arrived
      BY <1>1, <2>1, MinIsLeast
    <2>3. buffered' \in buffered + 1..Min({arrived, MaxPeek})
      BY DEF Fill
    <2> QED
      BY <1>1, <2>2, <2>3
  <1>3. sniff.pc \in {"first", "header", "record"} \/ (sniff.pc = "http" /\ ~Enough)
    <2>1. Wants # 0
      BY <1>1 DEF Fill
    <2> QED
      BY <2>1 DEF Wants
  <1>4. Results' = Results /\ SniffPcs' = SniffPcs /\ Enough' = Enough
    BY <1>1 DEF Results, HostSet, SniffPcs, Enough, Cells
  <1>5. SniffTypeOK'
    BY <1>1, <1>2, <1>4 DEF SniffTypeOK
  <1> QED
    BY <1>1, <1>2, <1>3, <1>4, <1>5 DEF SniffInv, SniffTypeOK, cell

\* What is replayed does not change what was found.
LEMMA ReplayKeeps ==
  ASSUME SniffInv, Replay
  PROVE  SniffInv'
  <1>1. /\ sniff \in [pc : SniffPcs, from : Nat, res : Results, buf : Nat]
        /\ sniff.pc = "relay" /\ TrueHost(sniff.res.host)
    BY DEF SniffInv, SniffTypeOK, Replay
  <1>2. /\ sniff' = [sniff EXCEPT !.from = sniff.from + 1]
        /\ UNCHANGED <<stream, arrived, ended, expired, buffered>>
    BY <1>1 DEF Replay
  <1>3. sniff' \in [pc : SniffPcs, from : Nat, res : Results, buf : Nat] /\ sniff'.pc = "relay" /\ sniff'.res = sniff.res
    BY <1>1, <1>2
  <1>4. Results' = Results /\ SniffPcs' = SniffPcs
    BY <1>2 DEF Results, HostSet, SniffPcs
  <1>5. SniffTypeOK'
    BY <1>2, <1>3, <1>4 DEF SniffInv, SniffTypeOK
  <1>6. TrueHost(sniff.res.host)'
    BY <1>1, <1>2, <1>3 DEF TrueHost, HeadIsHere
  <1> QED
    BY <1>3, <1>5, <1>6 DEF SniffInv

\* Steps of the client and of the clock.
LEMMA ClientKeeps ==
  ASSUME SniffInv, Arrive \/ ClientEnds \/ DeadlinePasses \/ UNCHANGED sniffVars
  PROVE  SniffInv'
  <1>1. arrived \in Nat /\ arrived <= Len(stream.cells) /\ Len(stream.cells) \in Nat
    <2>1. SniffTypeOK
      BY DEF SniffInv
    <2> QED
      BY <2>1, Sizes DEF SniffTypeOK
  <1>2. arrived' \in Nat /\ arrived <= arrived' /\ arrived' <= Len(stream.cells) /\ UNCHANGED <<stream, buffered, sniff>>
    BY <1>1 DEF Arrive, ClientEnds, DeadlinePasses, sniffVars
  <1> QED
    BY <1>2, PeekUntouched

\* However the first bytes come, in whatever pieces, late or cut short, a
\* connection is routed by the name its client said and no other: by that name
\* if its head was there in time, and never by the outer name of a hello whose
\* ech was.
THEOREM SniffNameIsTrue == SniffInit /\ [][SniffNext]_sniffVars => []NameIsTrue
  <1>1. SniffInv /\ [SniffNext]_sniffVars => SniffInv'
    <2> SUFFICES ASSUME SniffInv, [SniffNext]_sniffVars PROVE SniffInv'
      OBVIOUS
    <2>1. CASE Arrive \/ ClientEnds \/ DeadlinePasses \/ UNCHANGED sniffVars
      BY <2>1, ClientKeeps
    <2>2. CASE SniffStep
      BY <2>2, FillKeeps, FirstKeeps, HeaderKeeps, RecordKeeps, HTTPKeeps, DecideKeeps, ReplayKeeps DEF SniffStep
    <2> QED
      BY <2>1, <2>2 DEF SniffNext
  <1>2. SniffInv => NameIsTrue
    BY DEF SniffInv, NameIsTrue, TrueHost
  <1> QED
    BY SniffStart, <1>1, <1>2, PTL

-----------------------------------------------------------------------------
(* A ClientHello in QUIC datagrams: the name is read when all of it came.  *)

Frame == [off : Nat, len : Nat]
Packet == [type : {"initial", "other", "short"}, own : BOOLEAN, frames : Seq(Frame)]
Piece == {fr \in Frame : Fits(fr)}

\* The frames that are collected from one packet lie within the limit.
LEMMA FramesFit ==
  ASSUME NEW p \in Packet
  PROVE  FramesOf(p) \in Seq(Piece)
  <1>0. <<>> \in Seq(Piece)
    OBVIOUS
  <1>1. CASE p.type = "initial" /\ KeysFit(p)
    <2> DEFINE s == p.frames
               bad == {i \in DOMAIN s : ~Fits(s[i])} \cup {Len(s) + 1}
               k == Min(bad)
    <2>1. s \in Seq(Frame) /\ Len(s) \in Nat /\ DOMAIN s = 1..Len(s)
      BY DEF Packet
    <2>2. bad \subseteq Nat /\ bad # {} /\ Len(s) + 1 \in bad /\ \A i \in bad : i >= 1
      BY <2>1
    <2>3. k \in bad /\ \A i \in bad : k <= i
      <3> HIDE DEF bad
      <3> QED
        BY <2>2, MinIsLeast
    <2>4. k \in Nat /\ 1 <= k /\ k <= Len(s) + 1
      BY <2>2, <2>3
    <2> HIDE DEF k
    <2>5. \A i \in 1..(k - 1) : i \in 1..Len(s) /\ Fits(s[i])
      BY <2>1, <2>3, <2>4
    <2>6. FramesOf(p) = SubSeq(s, 1, k - 1)
      BY <1>1 DEF FramesOf, Before, k
    <2> HIDE DEF bad, s
    <2>7. SubSeq(s, 1, k - 1) = [i \in 1..(k - 1) |-> s[i]]
      BY <2>1, <2>4
    <2>8. \A i \in 1..(k - 1) : s[i] \in Piece
      BY <2>1, <2>5 DEF Piece
    <2>9. [i \in 1..(k - 1) |-> s[i]] \in Seq(Piece)
      BY <2>4, <2>8
    <2> QED
      BY <2>6, <2>7, <2>9
  <1>2. CASE ~(p.type = "initial" /\ KeysFit(p))
    BY <1>0, <1>2 DEF FramesOf
  <1> QED
    BY <1>1, <1>2

\* And so do all that are collected from a datagram.
LEMMA CollectedFit ==
  ASSUME NEW d \in Seq(Packet)
  PROVE  Collected(d) \in Seq(Piece)
  <1> DEFINE V == Seq(Piece)
             L == Len(d)
             F == [x \in V \X (1..L) |-> x[1] \o FramesOf(d[x[2]])]
             Is(g) == g = [n \in 0..L |-> IF n = 0 THEN <<>> ELSE g[n - 1] \o FramesOf(d[n])]
             from == CHOOSE g : Is(g)
             k == Min({L, ReadPackets(d) + 1})
  <1>1. L \in Nat /\ <<>> \in V /\ \A n \in 1..L : FramesOf(d[n]) \in V
    BY FramesFit
  <1>2. \A q \in V, n \in 1..L : q \o FramesOf(d[n]) \in V
    BY <1>1
  <1>3. F \in [V \X (1..L) -> V]
    <2> HIDE DEF V
    <2> QED
      BY <1>2
  <1>4. PICK g \in [0..L -> V] : g[0] = <<>> /\ \A i \in 1..L : g[i] = F[<<g[i - 1], i>>]
    <2> HIDE DEF F, V
    <2>1. \E g : Unfolding(L, V, <<>>, F, g)
      BY <1>1, <1>3, Unfolds
    <2> QED
      BY <2>1 DEF Unfolding
  <1>5. \A i \in 1..L : g[i] = g[i - 1] \o FramesOf(d[i])
    <2> SUFFICES ASSUME NEW i \in 1..L PROVE g[i] = g[i - 1] \o FramesOf(d[i])
      OBVIOUS
    <2>1. g[i - 1] \in V
      <3> HIDE DEF V
      <3> QED
        BY <1>1
    <2> HIDE DEF V
    <2>2. <<g[i - 1], i>> \in V \X (1..L)
      BY <2>1
    <2> QED
      BY <1>4, <2>2
  <1>6. Is(g)
    <2>1. g = [n \in 0..L |-> g[n]]
      <3> HIDE DEF V
      <3> QED
        OBVIOUS
    <2>2. \A n \in 0..L : n # 0 => n \in 1..L
      BY <1>1
    <2>3. \A n \in 0..L : g[n] = IF n = 0 THEN <<>> ELSE g[n - 1] \o FramesOf(d[n])
      <3> HIDE DEF V
      <3> QED
        BY <1>4, <1>5, <2>2
    <2> HIDE DEF V, F
    <2> QED
      BY <2>1, <2>3
  <1>7. Is(from)
    <2> HIDE DEF Is
    <2> QED
      BY <1>6
  <1> HIDE DEF F
  <1>8. \A n \in 0..L : from[n] \in V
    <2> DEFINE S == {n \in 0..L : from[n] \in V}
    <2>0. \A n \in 0..L : from[n] = IF n = 0 THEN <<>> ELSE from[n - 1] \o FramesOf(d[n])
      <3> HIDE DEF from
      <3> QED
        BY <1>7
    <2> HIDE DEF from, V
    <2>1. 0 \in S
      BY <1>1, <2>0
    <2>2. ASSUME NEW n \in 1..L, n - 1 \in S PROVE n \in S
      BY <1>2, <2>0, <2>2
    <2> HIDE DEF S
    <2>3. \A n \in 0..L : n \in S
      BY <1>1, <2>1, <2>2, Onwards
    <2> QED
      BY <2>3 DEF S
  <1>9. k \in 0..L
    <2> DEFINE bad == {i \in DOMAIN d : ~Good(d[i])} \cup {Len(d) + 1}
    <2>1. bad \subseteq Nat /\ bad # {} /\ \A i \in bad : i >= 1
      OBVIOUS
    <2> HIDE DEF bad
    <2>2. Min(bad) \in Nat /\ Min(bad) >= 1
      BY <2>1, MinIsLeast
    <2>3. ReadPackets(d) = Min(bad) - 1
      BY DEF ReadPackets, Before, bad
    <2>4. {L, ReadPackets(d) + 1} \subseteq Nat
      BY <1>1, <2>2, <2>3
    <2>5. k \in {L, ReadPackets(d) + 1} /\ k <= L
      BY <2>4, MinIsLeast
    <2> QED
      BY <1>1, <2>4, <2>5
  <1>10. Collected(d) = from[k]
    BY DEF Collected
  <1> HIDE DEF from, k, V
  <1> QED
    BY <1>8, <1>9, <1>10 DEF V

\* What a set of kept fragments is, after the first n frames of frs.
KeptOf(frags, frs, n, K) ==
  /\ frags \subseteq K
  /\ K \subseteq frags \cup ToSet(frs)
  /\ \A i \in 1..n : \E x \in K : x.off = frs[i].off

\* The fragments kept are among those there were and came, and begin where
\* each of these does.
LEMMA KeepsBegins ==
  ASSUME NEW frags \in SUBSET Piece, NEW frs \in Seq(Piece)
  PROVE  KeptOf(frags, frs, Len(frs), keepAll(frags, frs))
  <1> DEFINE V == SUBSET Piece
             L == Len(frs)
             F == [x \in V \X (1..L) |-> keep(x[1], frs[x[2]])]
             Is(g) == g = [n \in 0..L |-> IF n = 0 THEN frags ELSE keep(g[n - 1], frs[n])]
             kept == CHOOSE g : Is(g)
  <1>1. L \in Nat /\ \A n \in 1..L : frs[n] \in Piece
    OBVIOUS
  <1>2. \A q \in V, n \in 1..L : keep(q, frs[n]) \in V
    BY <1>1 DEF keep
  <1>3. F \in [V \X (1..L) -> V]
    <2> HIDE DEF V
    <2> QED
      BY <1>2
  <1>4. PICK g \in [0..L -> V] : g[0] = frags /\ \A i \in 1..L : g[i] = F[<<g[i - 1], i>>]
    <2> HIDE DEF F
    <2>1. frags \in V
      OBVIOUS
    <2> HIDE DEF V
    <2>2. \E g : Unfolding(L, V, frags, F, g)
      BY <1>1, <1>3, <2>1, Unfolds
    <2> QED
      BY <2>2 DEF Unfolding
  <1>5. \A i \in 1..L : g[i] = keep(g[i - 1], frs[i])
    <2> SUFFICES ASSUME NEW i \in 1..L PROVE g[i] = keep(g[i - 1], frs[i])
      OBVIOUS
    <2>1. g[i - 1] \in V
      <3> HIDE DEF V
      <3> QED
        BY <1>1
    <2> HIDE DEF V
    <2>2. <<g[i - 1], i>> \in V \X (1..L)
      BY <2>1
    <2> QED
      BY <1>4, <2>2
  <1>6. Is(g)
    <2>1. g = [n \in 0..L |-> g[n]]
      <3> HIDE DEF V
      <3> QED
        OBVIOUS
    <2>2. \A n \in 0..L : n # 0 => n \in 1..L
      BY <1>1
    <2>3. \A n \in 0..L : g[n] = IF n = 0 THEN frags ELSE keep(g[n - 1], frs[n])
      <3> HIDE DEF V
      <3> QED
        BY <1>4, <1>5, <2>2
    <2> HIDE DEF V, F
    <2> QED
      BY <2>1, <2>3
  <1>7. Is(kept)
    <2> HIDE DEF Is
    <2> QED
      BY <1>6
  <1> HIDE DEF F
  <1>8. \A n \in 0..L : kept[n] = IF n = 0 THEN frags ELSE keep(kept[n - 1], frs[n])
    <2> HIDE DEF kept
    <2> QED
      BY <1>7
  <1> HIDE DEF kept
  <1>9. \A n \in 0..L : KeptOf(frags, frs, n, kept[n])
    <2> DEFINE S == {n \in 0..L : KeptOf(frags, frs, n, kept[n])}
    <2>1. 0 \in S
      <3>1. kept[0] = frags /\ 0 \in 0..L
        BY <1>1, <1>8
      <3> QED
        BY <3>1 DEF KeptOf
    <2>2. ASSUME NEW n \in 1..L, n - 1 \in S PROVE n \in S
      <3> DEFINE K == kept[n - 1]
                 fr == frs[n]
      <3>1. n \in 0..L /\ n # 0 /\ KeptOf(frags, frs, n - 1, K)
        BY <2>2
      <3>2. kept[n] = IF fr.off \in Begins(K) THEN K ELSE K \cup {fr}
        BY <1>8, <3>1 DEF keep
      <3>3. fr \in ToSet(frs)
        BY DEF ToSet
      <3>4. kept[n] = K \/ kept[n] = K \cup {fr}
        BY <3>2
      <3>5. \E x \in kept[n] : x.off = fr.off
        BY <3>2 DEF Begins
      <3>6. \A i \in 1..n : i # n => i \in 1..(n - 1)
        BY <3>1
      <3> HIDE DEF K, fr
      <3>7. frags \subseteq kept[n] /\ kept[n] \subseteq frags \cup ToSet(frs)
        BY <3>1, <3>3, <3>4 DEF KeptOf
      <3>8. ASSUME NEW i \in 1..n PROVE \E x \in kept[n] : x.off = frs[i].off
        <4>1. CASE i = n
          BY <3>5, <4>1 DEF fr
        <4>2. CASE i # n
          <5>1. PICK x \in K : x.off = frs[i].off
            BY <3>1, <3>6, <4>2 DEF KeptOf
          <5> QED
            BY <3>4, <5>1
        <4> QED
          BY <4>1, <4>2
      <3>9. KeptOf(frags, frs, n, kept[n])
        BY <3>7, <3>8 DEF KeptOf
      <3> QED
        BY <3>1, <3>9
    <2> HIDE DEF S
    <2>3. \A n \in 0..L : n \in S
      BY <1>1, <2>1, <2>2, Onwards
    <2> QED
      BY <2>3 DEF S
  <1>10. keepAll(frags, frs) = kept[L]
    BY DEF keepAll, kept
  <1> QED
    BY <1>1, <1>9, <1>10

\* The ends of the fragments of frags that reach beyond n.
EndsPast(frags, n) == {fr.off + fr.len : fr \in {x \in frags : Extends(x, n)}}
\* From n, what has been put together ends at e, and no fragment goes on.
EndsAt(frags, n, e) ==
  /\ e \in Nat
  /\ \A c \in Nat : n <= c /\ c < e => \E x \in frags : x.off <= c /\ c < x.off + x.len
  /\ \A x \in frags : ~Extends(x, e)

\* They end later, and not beyond the limit.
LEMMA EndsLater ==
  ASSUME NEW frags \in SUBSET Piece, NEW n \in 0..MaxCrypto, NEW e \in EndsPast(frags, n)
  PROVE  e \in (n + 1)..MaxCrypto /\ \E fr \in frags : fr.off <= n /\ e = fr.off + fr.len
  <1>0. MaxCrypto \in Nat
    BY QUICAssumption DEF QUICAssumption
  <1>1. PICK fr \in frags : Extends(fr, n) /\ e = fr.off + fr.len
    BY DEF EndsPast
  <1>2. fr.off \in Nat /\ fr.len \in Nat /\ fr.off + fr.len <= MaxCrypto
    BY DEF Piece, Frame, Fits
  <1> QED
    BY <1>0, <1>1, <1>2 DEF Extends

\* However the fragments are put together, it stops where none goes on, and
\* nothing is missing before that.
LEMMA PutTogether ==
  ASSUME NEW frags \in SUBSET Piece, NEW e \in StreamLengths(frags)
  PROVE  EndsAt(frags, 0, e)
  <1> DEFINE M == MaxCrypto
             Val(g, n) == IF EndsPast(frags, n) = {} THEN {n} ELSE UNION {g[m] : m \in EndsPast(frags, n)}
             Is(n, g) == g = [k \in n..M |-> Val(g, k)]
             ends == CHOOSE g : Is(0, g)
  <1>0. M \in Nat
    BY QUICAssumption DEF QUICAssumption
  <1>1. \E g : Is(0, g)
    <2> DEFINE T == {n \in 0..M : ~\E g : Is(n, g)}
    <2>0. 0 \in 0..M
      BY <1>0
    <2> SUFFICES ASSUME T # {} PROVE FALSE
      <3> HIDE DEF Is
      <3> QED
        BY <2>0
    <2>1. PICK n \in T : \A i \in T : ~(i > n)
      <3>1. T \subseteq 0..M
        OBVIOUS
      <3> HIDE DEF T
      <3> QED
        BY <1>0, <3>1, Greatest
    <2>2. n \in 0..M /\ ~\E g : Is(n, g)
      BY <2>1
    <2>3. \E g : \A k \in (n + 1)..M : g[k] = Val(g, k)
      <3>1. CASE n = M
        <4>1. (n + 1)..M = {}
          BY <1>0, <3>1
        <4> QED
          BY <4>1
      <3>2. CASE n # M
        <4>1. n + 1 \in 0..M /\ n + 1 > n
          BY <1>0, <2>2, <3>2
        <4>2. n + 1 \notin T
          BY <2>1, <4>1
        <4>3. PICK g : Is(n + 1, g)
          BY <4>1, <4>2
        <4> HIDE DEF Val
        <4> QED
          BY <4>3
      <3> QED
        BY <3>1, <3>2
    <2>4. PICK g : \A k \in (n + 1)..M : g[k] = Val(g, k)
      BY <2>3
    <2> DEFINE h == [k \in n..M |-> IF k = n THEN Val(g, n) ELSE g[k]]
    <2>5. \A k \in (n + 1)..M : h[k] = g[k]
      <3> HIDE DEF Val
      <3> QED
        BY <1>0, <2>2
    <2>6. ASSUME NEW k \in n..M PROVE Val(h, k) = Val(g, k)
      <3>1. k \in 0..M
        BY <1>0, <2>2
      <3>2. \A m \in EndsPast(frags, k) : m \in (n + 1)..M
        <4>1. \A m \in EndsPast(frags, k) : m \in (k + 1)..M
          BY <3>1, EndsLater
        <4> QED
          BY <1>0, <2>2, <4>1
      <3> HIDE DEF h
      <3>3. \A m \in EndsPast(frags, k) : h[m] = g[m]
        BY <2>5, <3>2
      <3>4. {h[m] : m \in EndsPast(frags, k)} = {g[m] : m \in EndsPast(frags, k)}
        BY <3>3
      <3> QED
        BY <3>4
    <2>7. ASSUME NEW k \in n..M PROVE h[k] = Val(h, k)
      <3>1. CASE k = n
        <4>1. h[k] = Val(g, n)
          <5> HIDE DEF Val
          <5> QED
            BY <3>1
        <4> HIDE DEF Val, h
        <4> QED
          BY <2>6, <3>1, <4>1
      <3>2. CASE k # n
        <4>1. k \in (n + 1)..M
          BY <1>0, <2>2, <3>2
        <4> HIDE DEF Val, h
        <4> QED
          BY <2>4, <2>5, <2>6, <4>1
      <3> QED
        BY <3>1, <3>2
    <2>8. h = [k \in n..M |-> h[k]]
      <3> HIDE DEF Val
      <3> QED
        OBVIOUS
    <2> HIDE DEF Val, h
    <2>9. Is(n, h)
      BY <2>7, <2>8
    <2> QED
      BY <2>2, <2>9
  <1>2. Is(0, ends)
    <2> HIDE DEF Is
    <2> QED
      BY <1>1
  <1> HIDE DEF ends
  <1>3. \A k \in 0..M : ends[k] = Val(ends, k)
    <2> HIDE DEF Val
    <2> QED
      BY <1>2
  <1>4. \A n \in 0..M : \A x \in ends[n] : EndsAt(frags, n, x)
    <2> DEFINE T == {n \in 0..M : ~\A x \in ends[n] : EndsAt(frags, n, x)}
    <2> SUFFICES ASSUME T # {} PROVE FALSE
      OBVIOUS
    <2>1. PICK n \in T : \A i \in T : ~(i > n)
      <3>1. T \subseteq 0..M
        OBVIOUS
      <3> HIDE DEF T
      <3> QED
        BY <1>0, <3>1, Greatest
    <2>2. PICK x \in ends[n] : ~EndsAt(frags, n, x)
      BY <2>1
    <2>3. n \in 0..M /\ ends[n] = Val(ends, n)
      BY <1>3, <2>1
    <2>4. CASE EndsPast(frags, n) = {}
      <3>1. x = n
        BY <2>2, <2>3, <2>4
      <3>2. \A y \in frags : ~Extends(y, n)
        BY <2>4 DEF EndsPast
      <3> QED
        BY <2>2, <2>3, <3>1, <3>2 DEF EndsAt
    <2>5. CASE EndsPast(frags, n) # {}
      <3>1. PICK m \in EndsPast(frags, n) : x \in ends[m]
        BY <2>2, <2>3, <2>5
      <3>2. m \in (n + 1)..M /\ \E fr \in frags : fr.off <= n /\ m = fr.off + fr.len
        BY <2>3, <3>1, EndsLater
      <3>3. m \in 0..M /\ m > n
        BY <1>0, <2>3, <3>2
      <3>4. EndsAt(frags, m, x)
        BY <2>1, <3>1, <3>3
      <3>5. PICK fr \in frags : fr.off <= n /\ m = fr.off + fr.len
        BY <3>2
      <3>6. ASSUME NEW c \in Nat, n <= c, c < x
            PROVE  \E y \in frags : y.off <= c /\ c < y.off + y.len
        <4>1. CASE c < m
          <5>1. fr.off \in Nat /\ fr.len \in Nat
            BY DEF Piece, Frame
          <5>2. fr.off <= c /\ c < fr.off + fr.len
            BY <2>3, <3>5, <3>6, <4>1, <5>1
          <5> QED
            BY <5>2
        <4>2. CASE ~(c < m)
          <5>1. m <= c
            BY <3>3, <4>2
          <5> QED
            BY <3>4, <3>6, <5>1 DEF EndsAt
        <4> QED
          BY <4>1, <4>2
      <3> QED
        BY <2>2, <3>4, <3>6 DEF EndsAt
    <2> QED
      BY <2>4, <2>5
  <1>5. StreamLengths(frags) = ends[0]
    BY DEF StreamLengths, ends, EndsPast
  <1> QED
    BY <1>0, <1>4, <1>5

-----------------------------------------------------------------------------

\* The fragments that are held begin where all that was heard does, and
\* nothing but QUIC with something in it was heard.
HelloInv ==
  /\ client \in Clients
  /\ quic.any \in BOOLEAN
  /\ quic.frags \subseteq heard /\ heard \subseteq Piece
  /\ \A x \in heard : \E y \in quic.frags : y.off = x.off
  /\ ~quic.any => heard = {}
  /\ HelloFound

\* It is so before anything is heard.
LEMMA HelloStarts == QUICInit => HelloInv
  <1> SUFFICES ASSUME QUICInit PROVE HelloInv
    OBVIOUS
  <1>1. client.hello \in Nat /\ 1 <= client.hello
    BY QUICAssumption DEF QUICAssumption, QUICInit
  <1>2. 0 \in 0..client.hello - 1
    BY <1>1
  <1>3. Covered = {}
    BY DEF QUICInit, Covered
  <1>4. HelloFound
    BY <1>2, <1>3 DEF QUICInit, HelloFound
  <1> QED
    BY <1>4 DEF QUICInit, HelloInv

\* Add keeps it, with any datagram.
LEMMA HelloGoesOn ==
  ASSUME HelloInv, NEW d \in client.datagrams, Add(d)
  PROVE  HelloInv'
  <1> DEFINE C == Collected(d)
             K == keepAll(quic.frags, C)
             any == quic.any \/ C # <<>>
  <1>1. client \in Clients /\ client' = client /\ client.hello \in Nat /\ 1 <= client.hello
    BY QUICAssumption DEF QUICAssumption, HelloInv, Add
  <1>2. d \in Seq(Packet)
    BY <1>1, QUICAssumption DEF QUICAssumption, Packet, Frame
  <1>3. C \in Seq(Piece)
    BY <1>2, CollectedFit
  <1>4. quic.frags \in SUBSET Piece
    BY DEF HelloInv
  <1>5. KeptOf(quic.frags, C, Len(C), K)
    <2> HIDE DEF C
    <2> QED
      BY <1>3, <1>4, KeepsBegins
  <1>6. /\ quic'.frags = K
        /\ quic'.any = any
        /\ heard' = heard \cup ToSet(C)
        /\ \E n \in StreamLengths(K) :
             hello' = IF ReadPackets(d) = 0 /\ ~any THEN "notquic"
                      ELSE IF n >= client.hello THEN "name"
                      ELSE IF quic.packets + 1 >= MaxPackets \/ Total(K) > MaxCrypto THEN "noname"
                      ELSE "more"
    <2> HIDE DEF C, K, any
    <2> QED
      BY DEF Add, C, K, any
  <1>7. PICK n \in StreamLengths(K) :
          hello' = IF ReadPackets(d) = 0 /\ ~any THEN "notquic"
                   ELSE IF n >= client.hello THEN "name"
                   ELSE IF quic.packets + 1 >= MaxPackets \/ Total(K) > MaxCrypto THEN "noname"
                   ELSE "more"
    BY <1>6
  <1> HIDE DEF K, C, any
  <1>8. ToSet(C) \subseteq Piece
    BY <1>3 DEF ToSet
  <1>9. K \subseteq heard' /\ heard' \subseteq Piece
    BY <1>5, <1>6, <1>8 DEF HelloInv, KeptOf
  <1>10. \A x \in heard' : \E y \in K : y.off = x.off
    <2> SUFFICES ASSUME NEW x \in heard' PROVE \E y \in K : y.off = x.off
      OBVIOUS
    <2>1. CASE x \in heard
      BY <1>5, <2>1 DEF HelloInv, KeptOf
    <2>2. CASE x \in ToSet(C)
      <3>1. PICK i \in 1..Len(C) : x = C[i]
        BY <1>3, <2>2 DEF ToSet
      <3> QED
        BY <1>5, <3>1 DEF KeptOf
    <2> QED
      BY <1>6, <2>1, <2>2
  <1>11. ~any => heard' = {}
    <2> SUFFICES ASSUME ~any PROVE heard' = {}
      OBVIOUS
    <2>1. ~quic.any /\ C = <<>>
      BY DEF any
    <2>2. ToSet(C) = {}
      BY <2>1 DEF ToSet
    <2> QED
      BY <1>6, <2>1, <2>2 DEF HelloInv
  <1>12. EndsAt(K, 0, n)
    <2>1. K \in SUBSET Piece
      BY <1>9
    <2> QED
      BY <2>1, PutTogether
  <1>13. n \in Nat
    BY <1>12 DEF EndsAt
  <1>14. \A c \in Nat : c \in Covered' <=> \E x \in heard' : x.off <= c /\ c < x.off + x.len
    <2>1. \A x \in heard' : x.off \in Nat /\ x.len \in Nat
      BY <1>9 DEF Piece, Frame
    <2>2. \A c \in Nat : \A x \in heard' : c \in x.off..(x.off + x.len - 1) <=> x.off <= c /\ c < x.off + x.len
      BY <2>1
    <2> QED
      BY <2>2 DEF Covered
  <1>15. (hello = "name" => 0..client.hello - 1 \subseteq Covered)'
    <2> SUFFICES ASSUME hello' = "name", NEW c \in 0..client.hello - 1 PROVE c \in Covered'
      BY <1>1
    <2>1. n >= client.hello
      BY <1>7
    <2>2. c \in Nat /\ 0 <= c /\ c < n
      BY <1>1, <1>13, <2>1
    <2>3. \E x \in K : x.off <= c /\ c < x.off + x.len
      BY <1>12, <2>2 DEF EndsAt
    <2> QED
      BY <1>9, <1>14, <2>2, <2>3
  <1>16. (0..client.hello - 1 \subseteq Covered /\ OneLength => hello = "name")'
    <2> SUFFICES ASSUME 0..client.hello - 1 \subseteq Covered', OneLength'
                 PROVE  hello' = "name"
      BY <1>1
    <2>1. any
      <3>1. 0 \in Covered'
        BY <1>1
      <3>2. heard' # {}
        BY <1>14, <3>1
      <3> QED
        BY <1>11, <3>2
    <2>2. heard' \subseteq K
      <3> SUFFICES ASSUME NEW x \in heard' PROVE x \in K
        OBVIOUS
      <3>1. PICK y \in K : y.off = x.off
        BY <1>10
      <3>2. y \in heard'
        BY <1>9
      <3>3. y = x
        BY <3>1, <3>2 DEF OneLength
      <3> QED
        BY <3>3
    <2>3. n >= client.hello
      <3> SUFFICES ASSUME ~(n >= client.hello) PROVE FALSE
        OBVIOUS
      <3>1. n \in 0..client.hello - 1
        BY <1>1, <1>13
      <3>2. PICK x \in heard' : x.off <= n /\ n < x.off + x.len
        BY <1>13, <1>14, <3>1
      <3>3. x \in K /\ x.off \in Nat /\ x.len \in Nat
        BY <1>9, <2>2 DEF Piece, Frame
      <3>4. Extends(x, n)
        BY <1>13, <3>2, <3>3 DEF Extends
      <3> QED
        BY <1>12, <3>3, <3>4 DEF EndsAt
    <2> QED
      BY <1>7, <2>1, <2>3
  <1>17. HelloFound'
    BY <1>15, <1>16 DEF HelloFound
  <1>18. any \in BOOLEAN
    BY DEF any
  <1> QED
    BY <1>1, <1>6, <1>9, <1>10, <1>11, <1>17, <1>18 DEF HelloInv

\* Whatever the hello, the limits and the datagrams, in whatever order and
\* however often they come, the name is read exactly when all of it has come.
THEOREM QUICHelloFound == QUICInit /\ [][QUICNext]_quicVars => []HelloFound
  <1>1. HelloInv /\ [QUICNext]_quicVars => HelloInv'
    <2> SUFFICES ASSUME HelloInv, [QUICNext]_quicVars PROVE HelloInv'
      OBVIOUS
    <2>1. CASE QUICNext
      BY <2>1, HelloGoesOn DEF QUICNext
    <2>2. CASE UNCHANGED quicVars
      BY <2>2 DEF quicVars, HelloInv, HelloFound, Covered, OneLength
    <2> QED
      BY <2>1, <2>2
  <1>2. HelloInv => HelloFound
    BY DEF HelloInv
  <1> QED
    BY HelloStarts, <1>1, <1>2, PTL

-----------------------------------------------------------------------------
(* A DNS query: each client gets the answer to its own, once.              *)

Datagrams == {"stray", "ok", "tc"}
QuerySet == [via : {"udp", "tcp"}, form : {"good", "noquestion", "bad"}, name : SUBSET {"canary", "block", "route"},
             type : {"A", "AAAA", "HTTPS", "SVCB", "TXT"}]

\* What the scenario is made of.
LEMMA FrontIs ==
  ASSUME front \in Fronts
  PROVE  /\ front.queries \in Seq(QuerySet)
         /\ front.given \in Seq(Resolvers) /\ front.files \in Seq(Seq(Resolvers))
         /\ front.spec \in {"system", "given"} /\ front.ttls \in Seq(Nat)
         /\ front.strip \in BOOLEAN /\ front.fake \in BOOLEAN
  BY DNSAssumption DEF DNSAssumption, QuerySet

\* What the model knows of a query that the scenario contains.
LEMMA QueryIs ==
  ASSUME front \in Fronts, NEW i \in Queries
  PROVE  i \in Nat /\ i # 0 /\ front.queries[i] \in QuerySet
  BY FrontIs DEF Queries

\* What is kept of a list that names resolvers is usable.
LEMMA UsableKept ==
  ASSUME NEW list \in Seq(Resolvers)
  PROVE  usableIn(list) \in Seq({u \in Resolvers : usable(u)})
  <1> DEFINE V == Seq({u \in Resolvers : usable(u)})
             L == Len(list)
             Step(q, n) == IF usable(list[n]) THEN Append(q, list[n]) ELSE q
             F == [x \in V \X (1..L) |-> Step(x[1], x[2])]
             Is(g) == g = [n \in 0..L |-> IF n = 0 THEN <<>> ELSE Step(g[n - 1], n)]
             kept == CHOOSE g : Is(g)
  <1>1. L \in Nat /\ <<>> \in V /\ \A n \in 1..L : list[n] \in Resolvers
    OBVIOUS
  <1>2. \A q \in V, n \in 1..L : Step(q, n) \in V
    <2> SUFFICES ASSUME NEW q \in V, NEW n \in 1..L PROVE Step(q, n) \in V
      OBVIOUS
    <2>1. CASE usable(list[n])
      <3> DEFINE u == list[n]
                 W == {x \in Resolvers : usable(x)}
      <3>1. u \in W /\ q \in Seq(W)
        BY <1>1, <2>1
      <3> HIDE DEF u, W
      <3>2. Append(q, u) \in Seq(W)
        BY <3>1
      <3> USE DEF u, W
      <3> QED
        BY <2>1, <3>2
    <2>2. CASE ~usable(list[n])
      BY <2>2
    <2> QED
      BY <2>1, <2>2
  <1> HIDE DEF Step, V
  <1>3. F \in [V \X (1..L) -> V]
    BY <1>2
  <1>4. PICK g \in [0..L -> V] : g[0] = <<>> /\ \A i \in 1..L : g[i] = F[<<g[i - 1], i>>]
    <2> HIDE DEF F
    <2>1. \E g : Unfolding(L, V, <<>>, F, g)
      BY <1>1, <1>3, Unfolds
    <2> QED
      BY <2>1 DEF Unfolding
  <1>5. \A i \in 1..L : g[i] = Step(g[i - 1], i)
    <2> SUFFICES ASSUME NEW i \in 1..L PROVE g[i] = Step(g[i - 1], i)
      OBVIOUS
    <2>1. g[i - 1] \in V
      BY <1>1
    <2>2. <<g[i - 1], i>> \in V \X (1..L)
      BY <2>1
    <2> QED
      BY <1>4, <2>2
  <1>6. Is(g)
    <2>1. g = [n \in 0..L |-> g[n]]
      OBVIOUS
    <2>2. \A n \in 0..L : n # 0 => n \in 1..L
      BY <1>1
    <2>3. \A n \in 0..L : g[n] = IF n = 0 THEN <<>> ELSE Step(g[n - 1], n)
      BY <1>4, <1>5, <2>2
    <2> HIDE DEF F
    <2> QED
      BY <2>1, <2>3
  <1>7. Is(kept)
    <2> HIDE DEF Is
    <2> QED
      BY <1>6
  <1> HIDE DEF F
  <1>8. \A n \in 0..L : kept[n] \in V
    <2> DEFINE S == {n \in 0..L : kept[n] \in V}
    <2>0. \A n \in 0..L : kept[n] = IF n = 0 THEN <<>> ELSE Step(kept[n - 1], n)
      <3> HIDE DEF kept
      <3> QED
        BY <1>7
    <2> HIDE DEF kept
    <2>1. 0 \in S
      BY <1>1, <2>0
    <2>2. ASSUME NEW n \in 1..L, n - 1 \in S PROVE n \in S
      BY <1>2, <2>0, <2>2
    <2> HIDE DEF S
    <2>3. \A n \in 0..L : n \in S
      BY <1>1, <2>1, <2>2, Onwards
    <2> QED
      BY <2>3 DEF S
  <1>9. usableIn(list) = kept[L]
    BY DEF usableIn, kept, Step
  <1> HIDE DEF kept
  <1> QED
    BY <1>1, <1>8, <1>9 DEF V

\* The upstreams; those the system names are public.
LEMMA UpstreamsAre ==
  ASSUME front \in Fronts
  PROVE  /\ Upstreams \in Seq(Resolvers)
         /\ front.spec = "system" => \A k \in DOMAIN Upstreams : Upstreams[k].who = "public"
  <1> DEFINE W == {u \in Resolvers : usable(u)}
             lists == [i \in DOMAIN front.files |-> usableIn(front.files[i])]
             named == {i \in DOMAIN lists : lists[i] # <<>>}
  <1>1. front.given \in Seq(Resolvers) /\ front.files \in Seq(Seq(Resolvers))
    BY FrontIs
  <1>2. \A i \in DOMAIN front.files : i \in Nat /\ usableIn(front.files[i]) \in Seq(W)
    BY <1>1, UsableKept
  <1>3. systemResolvers \in Seq(W)
    <2>1. CASE named = {}
      <3>1. systemResolvers = <<>>
        BY <2>1 DEF systemResolvers
      <3> QED
        BY <3>1
    <2>2. CASE named # {}
      <3>1. named \subseteq Nat
        BY <1>2
      <3> DEFINE m == Min(named)
      <3>2. m \in named
        <4> HIDE DEF named
        <4> QED
          BY <2>2, <3>1, MinIsLeast
      <3>3. systemResolvers = lists[m]
        BY <2>2 DEF systemResolvers
      <3> HIDE DEF m
      <3>4. lists[m] = usableIn(front.files[m]) /\ m \in DOMAIN front.files
        BY <3>2
      <3> HIDE DEF W, lists
      <3> QED
        BY <1>2, <3>3, <3>4
    <2> QED
      BY <2>1, <2>2
  <1>4. \A u \in W : u \in Resolvers /\ u.who = "public"
    BY DEF usable, Resolvers
  <1> HIDE DEF W
  <1>5. CASE front.spec = "system"
    <2>1. Upstreams = systemResolvers
      BY <1>5 DEF Upstreams
    <2>2. \A k \in DOMAIN Upstreams : Upstreams[k] \in W
      BY <1>3, <2>1
    <2>3. W \subseteq Resolvers
      BY <1>4
    <2>4. Upstreams \in Seq(Resolvers)
      BY <1>3, <2>1, <2>3
    <2> QED
      BY <1>4, <2>2, <2>4
  <1>6. CASE front.spec # "system"
    BY <1>1, <1>6 DEF Upstreams
  <1> QED
    BY <1>5, <1>6

\* The TTL of an answer is that of no address beyond its own, where none is 0.
LEMMA LeastTTL ==
  ASSUME NEW ttls \in Seq(Nat)
  PROVE  /\ answerTTL(ttls) \in Nat
         /\ 0 \notin ToSet(ttls) => \A t \in ToSet(ttls) : answerTTL(ttls) <= t
  <1> DEFINE L == Len(ttls)
             Step(q, n) == IF q = 0 \/ ttls[n] < q THEN ttls[n] ELSE q
             F == [x \in Nat \X (1..L) |-> Step(x[1], x[2])]
             Is(g) == g = [n \in 0..L |-> IF n = 0 THEN 0 ELSE Step(g[n - 1], n)]
             ttl == CHOOSE g : Is(g)
  <1>1. L \in Nat /\ \A n \in 1..L : ttls[n] \in Nat
    OBVIOUS
  <1>2. \A q \in Nat, n \in 1..L : Step(q, n) \in Nat
    BY <1>1
  <1>a. \A q \in Nat, n \in 1..L : ttls[n] # 0 => Step(q, n) # 0 /\ Step(q, n) <= ttls[n] /\ (q # 0 => Step(q, n) <= q)
    BY <1>1
  <1> HIDE DEF Step
  <1>3. F \in [Nat \X (1..L) -> Nat]
    BY <1>2
  <1>4. PICK g \in [0..L -> Nat] : g[0] = 0 /\ \A i \in 1..L : g[i] = F[<<g[i - 1], i>>]
    <2> HIDE DEF F
    <2>1. \E g : Unfolding(L, Nat, 0, F, g)
      BY <1>1, <1>3, Unfolds
    <2> QED
      BY <2>1 DEF Unfolding
  <1>5. \A i \in 1..L : g[i] = Step(g[i - 1], i)
    <2> SUFFICES ASSUME NEW i \in 1..L PROVE g[i] = Step(g[i - 1], i)
      OBVIOUS
    <2>1. g[i - 1] \in Nat
      <3> HIDE DEF L, F
      <3>1. i - 1 \in 0..L
        BY <1>1
      <3> QED
        BY <3>1
    <2>2. <<g[i - 1], i>> \in Nat \X (1..L)
      BY <2>1
    <2> QED
      BY <1>4, <2>2
  <1>6. Is(g)
    <2>1. g = [n \in 0..L |-> g[n]]
      OBVIOUS
    <2>2. \A n \in 0..L : n # 0 => n \in 1..L
      BY <1>1
    <2>3. \A n \in 0..L : g[n] = IF n = 0 THEN 0 ELSE Step(g[n - 1], n)
      BY <1>4, <1>5, <2>2
    <2> HIDE DEF F
    <2> QED
      BY <2>1, <2>3
  <1>7. Is(ttl)
    <2> HIDE DEF Is
    <2> QED
      BY <1>6
  <1> HIDE DEF F
  <1>8. \A n \in 0..L : ttl[n] = IF n = 0 THEN 0 ELSE Step(ttl[n - 1], n)
    <2> HIDE DEF ttl
    <2> QED
      BY <1>7
  <1>9. answerTTL(ttls) = ttl[L]
    BY DEF answerTTL, ttl, Step
  <1> HIDE DEF ttl
  <1>10. \A n \in 0..L : ttl[n] \in Nat /\ (0 \notin ToSet(ttls) => (n # 0 => ttl[n] # 0) /\ \A k \in 1..n : ttl[n] <= ttls[k])
    <2> DEFINE S == {n \in 0..L : ttl[n] \in Nat /\ (0 \notin ToSet(ttls) => (n # 0 => ttl[n] # 0) /\ \A k \in 1..n : ttl[n] <= ttls[k])}
    <2>1. 0 \in S
      <3>1. ttl[0] = 0 /\ 0 \in 0..L
        BY <1>1, <1>8
      <3> QED
        BY <3>1
    <2>2. ASSUME NEW n \in 1..L, n - 1 \in S PROVE n \in S
      <3>1. n \in 0..L /\ n # 0 /\ ttl[n - 1] \in Nat /\ ttl[n] = Step(ttl[n - 1], n) /\ ttls[n] \in Nat
        BY <1>1, <1>8, <2>2
      <3>2. ttl[n] \in Nat
        BY <1>2, <3>1
      <3>3. ASSUME 0 \notin ToSet(ttls) PROVE ttl[n] # 0 /\ \A k \in 1..n : ttl[n] <= ttls[k]
        <4>1. \A k \in 1..L : ttls[k] \in Nat /\ ttls[k] # 0
          BY <1>1, <3>3 DEF ToSet
        <4>2. ttl[n] # 0 /\ ttl[n] <= ttls[n] /\ (ttl[n - 1] # 0 => ttl[n] <= ttl[n - 1])
          BY <1>a, <3>1, <4>1
        <4>3. ASSUME NEW k \in 1..n, k # n PROVE ttl[n] <= ttls[k]
          <5>1. k \in 1..(n - 1) /\ n - 1 # 0 /\ k \in 1..L
            BY <4>3
          <5>2. ttl[n - 1] # 0 /\ ttl[n - 1] <= ttls[k]
            BY <2>2, <3>3, <5>1
          <5> QED
            BY <3>1, <3>2, <4>1, <4>2, <5>1, <5>2
        <4> QED
          BY <4>2, <4>3
      <3> QED
        BY <3>1, <3>2, <3>3
    <2> HIDE DEF S
    <2>3. \A n \in 0..L : n \in S
      BY <1>1, <2>1, <2>2, Onwards
    <2> QED
      BY <2>3 DEF S
  <1>11. L \in 0..L /\ ToSet(ttls) = {ttls[k] : k \in 1..L}
    BY <1>1 DEF ToSet
  <1> QED
    BY <1>9, <1>10, <1>11

\* Whether an upstream has sent something with the query's identifier does
\* not change when a stray datagram is thrown away.
LEMMA OwnComes ==
  ASSUME NEW s \in Seq(Datagrams)
  PROVE  /\ s = <<>> => FirstOwn(s) = "none"
         /\ s # <<>> /\ Head(s) # "stray" => FirstOwn(s) = Head(s)
         /\ s # <<>> /\ Head(s) = "stray" => FirstOwn(Tail(s)) = FirstOwn(s)
  <1> DEFINE own(q) == {k \in DOMAIN q : q[k] # "stray"}
  <1>0. Len(s) \in Nat /\ DOMAIN s = 1..Len(s)
    OBVIOUS
  <1>1. s = <<>> => FirstOwn(s) = "none"
    BY DEF FirstOwn
  <1>2. ASSUME s # <<>>, Head(s) # "stray" PROVE FirstOwn(s) = Head(s)
    <2>1. 1 \in own(s) /\ own(s) \subseteq Nat /\ \A k \in own(s) : 1 <= k
      BY <1>0, <1>2
    <2> DEFINE O == own(s)
    <2>2. Min(O) = 1
      <3> HIDE DEF own
      <3>1. O \subseteq Nat /\ O # {}
        BY <2>1
      <3>2. Min(O) \in O /\ Min(O) <= 1 /\ 1 <= Min(O)
        <4> HIDE DEF O
        <4>1. Min(O) \in O /\ \A y \in O : Min(O) <= y
          BY <3>1, MinIsLeast
        <4> USE DEF O
        <4> QED
          BY <2>1, <4>1
      <3> QED
        BY <3>1, <3>2
    <2>3. FirstOwn(s) = s[1]
      BY <2>1, <2>2 DEF FirstOwn
    <2> QED
      BY <1>2, <2>3
  <1>3. ASSUME s # <<>>, Head(s) = "stray" PROVE FirstOwn(Tail(s)) = FirstOwn(s)
    <2> DEFINE t == Tail(s)
               O == own(s)
               P == own(t)
    <2>1. /\ t \in Seq(Datagrams) /\ Len(t) = Len(s) - 1 /\ DOMAIN t = 1..Len(t)
          /\ \A k \in 1..Len(t) : t[k] = s[k + 1]
      BY <1>0, <1>3
    <2>2. s[1] = "stray" /\ Len(s) >= 1
      BY <1>0, <1>3
    <2>3. \A k \in P : k \in Nat /\ k + 1 \in O
      <3> HIDE DEF t
      <3> QED
        BY <1>0, <2>1, <2>2
    <2>4. \A k \in O : k \in Nat /\ k - 1 \in P
      <3> SUFFICES ASSUME NEW k \in O PROVE k \in Nat /\ k - 1 \in P
        OBVIOUS
      <3>1. k \in 1..Len(s) /\ s[k] # "stray" /\ k # 1
        BY <1>0, <2>2
      <3>2. k - 1 \in 1..Len(t) /\ t[k - 1] = s[(k - 1) + 1] /\ (k - 1) + 1 = k
        <4> HIDE DEF t
        <4> QED
          BY <1>0, <2>1, <2>2, <3>1
      <3> HIDE DEF t
      <3> QED
        BY <2>1, <3>1, <3>2
    <2>5. FirstOwn(s) = IF O = {} THEN "none" ELSE s[Min(O)]
      BY DEF FirstOwn
    <2>6. FirstOwn(t) = IF P = {} THEN "none" ELSE t[Min(P)]
      BY DEF FirstOwn
    <2>7. O \subseteq Nat /\ P \subseteq Nat /\ P \subseteq 1..Len(t)
      BY <2>1, <2>3, <2>4
    <2> HIDE DEF O, P, own, t
    <2>8. CASE O = {}
      BY <2>3, <2>5, <2>6, <2>8 DEF t
    <2>9. CASE O # {}
      <3>1. P # {}
        BY <2>4, <2>9
      <3>2. Min(O) \in O /\ \A y \in O : Min(O) <= y
        BY <2>7, <2>9, MinIsLeast
      <3>3. Min(P) \in P /\ \A y \in P : Min(P) <= y
        BY <2>7, <3>1, MinIsLeast
      <3> DEFINE a == Min(O)
                 b == Min(P)
      <3>4. b + 1 \in O /\ a - 1 \in P /\ a \in Nat /\ b \in Nat
        BY <2>3, <2>4, <2>7, <3>2, <3>3
      <3>5. a <= b + 1 /\ b <= a - 1
        BY <3>2, <3>3, <3>4
      <3>6. a = b + 1
        <4> HIDE DEF a, b
        <4> QED
          BY <2>7, <3>4, <3>5
      <3>7. t[b] = s[a]
        BY <2>1, <2>7, <3>3, <3>6
      <3> QED
        BY <2>5, <2>6, <2>9, <3>1, <3>7 DEF t
    <2> QED
      BY <2>8, <2>9
  <1> QED
    BY <1>1, <1>2, <1>3

-----------------------------------------------------------------------------

AnswerCodes == {"formerr", "nxdomain", "fake", "servfail", "forwarded"}
FullAnswer == [code : AnswerCodes, for : Nat, up : Nat, tc : BOOLEAN, ech : BOOLEAN]
JobRec == [pc : {"wait", "handle", "forward", "seen", "answer", "drop", "answered", "lost"}, up : Nat, net : {"udp", "tcp"},
           left : Seq(Datagrams), resp : {[code |-> "none"]} \cup FullAnswer]
Sight == [query : Nat, ttl : Nat]
AtRest == {"wait", "answered", "lost"}

DNSTypes ==
  /\ front \in Fronts
  /\ job \in [Queries -> JobRec]
  /\ tcpConn \in [open : BOOLEAN, late : BOOLEAN, at : Nat]
  /\ responses \in Seq(FullAnswer) /\ observed \in Seq(Sight)
  /\ serving # "no" => Upstreams # <<>>

\* The rules have nothing to say of query i.
Passed(i) == front.queries[i].form = "good" /\ ~Listed(front.queries[i]) /\ ~Routed(front.queries[i])

\* No upstream before the one that is asked replies; over TCP it is asked
\* because the query came so, or because what it sent first was truncated;
\* over UDP what has not been read yet is all that matters.
AsksInTurn(i) ==
  LET j == job[i] IN
  /\ j.up \in DOMAIN Upstreams
  /\ \A k \in 1..(j.up - 1) : ~Replies(Upstreams[k], front.queries[i].via)
  /\ j.net = "tcp" => front.queries[i].via = "tcp" \/ FirstOwn(Upstreams[j.up].udp) = "tc"
  /\ j.net = "udp" => front.queries[i].via = "udp" /\ FirstOwn(j.left) = FirstOwn(Upstreams[j.up].udp)

QueryInv(i) ==
  LET j == job[i] IN
  /\ j.pc # "wait" => serving # "no"
  /\ j.pc \in {"wait", "handle"} => j.up = 1
  /\ j.pc = "forward" => Passed(i) /\ AsksInTurn(i)
  /\ j.pc = "seen" =>
       /\ Passed(i) /\ j.resp \in FullAnswer
       /\ j.resp.code = "forwarded" /\ j.resp.for = i /\ ~j.resp.tc
       /\ j.resp.up = Min(Replying(i)) /\ j.resp.up \in DOMAIN Upstreams
  /\ j.pc = "answer" => j.resp \in FullAnswer /\ j.resp.for = i /\ RightFor(i, j.resp)

\* On the connection queries are read in order, one at a time.
ConnInv ==
  /\ \A i \in OnTCP : job[i].pc \notin AtRest => i = tcpConn.at
  /\ \A i, j \in OnTCP : job[i].pc # "wait" /\ j < i => job[j].pc # "wait"
  /\ \A i, j \in OnTCP : job[i].pc # "wait" /\ job[j].pc \notin AtRest => i <= j

GivenInv ==
  /\ \A k \in DOMAIN responses :
       responses[k].for \in Queries /\ job[responses[k].for].pc = "answered" /\ RightFor(responses[k].for, responses[k])
  /\ \A j, k \in DOMAIN responses :
       /\ j # k => responses[j].for # responses[k].for
       /\ j < k /\ responses[j].for \in OnTCP /\ responses[k].for \in OnTCP => responses[j].for < responses[k].for

TTLsRight == 0 \notin ToSet(front.ttls) => \A k \in DOMAIN observed : \A t \in ToSet(front.ttls) : observed[k].ttl <= t

AnswerInv ==
  /\ DNSTypes
  /\ \A i \in Queries : QueryInv(i)
  /\ ConnInv /\ GivenInv /\ TTLsRight

\* It says that each client has the answer to its own query.
LEMMA AnswerInvSays == AnswerInv => AnswersRight
  <1> SUFFICES ASSUME AnswerInv PROVE AnswersRight
    OBVIOUS
  <1>1. ASSUME NEW i \in AnsweredQueries PROVE RightFor(i, AnswerOf(i))
    <2>1. PICK k \in DOMAIN responses : responses[k].for = i
      BY DEF AnsweredQueries
    <2>2. responses[k] \in ToSet(responses)
      BY <2>1 DEF ToSet
    <2>3. AnswerOf(i) \in ToSet(responses) /\ AnswerOf(i).for = i
      BY <2>1, <2>2 DEF AnswerOf
    <2>4. PICK m \in DOMAIN responses : AnswerOf(i) = responses[m]
      BY <2>3 DEF ToSet
    <2> QED
      BY <2>3, <2>4 DEF AnswerInv, GivenInv
  <1>2. \A j, k \in DOMAIN responses :
          j < k /\ {responses[j].for, responses[k].for} \subseteq OnTCP => responses[j].for < responses[k].for
    BY DEF AnswerInv, GivenInv
  <1> QED
    BY <1>1, <1>2 DEF AnswersRight, AnswerInv, GivenInv, TTLsRight

\* What follows from the scenario, which does not change.
LEMMA SameFront ==
  ASSUME front' = front
  PROVE  /\ Queries' = Queries /\ OnTCP' = OnTCP /\ Upstreams' = Upstreams
         /\ \A i : Replying(i)' = Replying(i)
         /\ \A i : Passed(i)' = Passed(i)
  <1>1. Upstreams' = Upstreams
    BY DEF Upstreams, systemResolvers
  <1>2. Queries' = Queries /\ OnTCP' = OnTCP
    BY DEF Queries, OnTCP
  <1> QED
    BY <1>1, <1>2 DEF Replying, Passed, Routed

\* What has happened since makes no answer wrong.
LEMMA RightStays ==
  ASSUME front' = front, serving = "cancelled" => serving' = "cancelled", Learned \subseteq Learned',
         NEW i, NEW a, RightFor(i, a)
  PROVE  RightFor(i, a)'
  <1>1. Upstreams' = Upstreams /\ Replying(i)' = Replying(i)
    BY SameFront
  <1> QED
    BY <1>1 DEF RightFor, FromUpstream, Routed

\* An answer that was right stays right: what was learned is not forgotten, and a
\* server that was cancelled stays so.
LEMMA GivenStays ==
  ASSUME front' = front, serving = "cancelled" => serving' = "cancelled", Learned \subseteq Learned',
         NEW k, responses'[k] = responses[k], RightFor(responses[k].for, responses[k])
  PROVE  RightFor(responses[k].for, responses[k])'
  <1>1. PICK a : a = responses[k]
    OBVIOUS
  <1>2. PICK i : i = a.for
    OBVIOUS
  <1>3. RightFor(i, a)
    BY <1>1, <1>2
  <1>4. RightFor(i, a)'
    BY <1>3, RightStays
  <1> QED
    BY <1>1, <1>2, <1>4 DEF RightFor, FromUpstream

\* A query that does not move keeps its part of the invariant.
LEMMA QueryStays ==
  ASSUME front' = front, serving = "cancelled" => serving' = "cancelled", Learned \subseteq Learned',
         serving # "no" => serving' # "no",
         NEW i, job'[i] = job[i], QueryInv(i)
  PROVE  QueryInv(i)'
  <1>1. Upstreams' = Upstreams /\ Replying(i)' = Replying(i) /\ Passed(i)' = Passed(i)
    BY SameFront
  <1>2. AsksInTurn(i) => AsksInTurn(i)'
    BY <1>1 DEF AsksInTurn
  <1>3. ASSUME RightFor(i, job[i].resp) PROVE RightFor(i, job[i].resp)'
    <2>1. PICK a : a = job[i].resp
      OBVIOUS
    <2>2. RightFor(i, a)'
      BY <1>3, <2>1, RightStays
    <2> QED
      BY <2>1, <2>2 DEF RightFor, FromUpstream
  <1> QED
    BY <1>1, <1>2, <1>3 DEF QueryInv

\* A step of one query's own handler.
LEMMA HandlerStep ==
  ASSUME AnswerInv, NEW i \in Queries, job' \in [Queries -> JobRec], \A k \in Queries : k # i => job'[k] = job[k],
         job[i].pc # "answered", job[i].pc \notin AtRest \/ (i \notin OnTCP), job'[i].pc # "wait",
         UNCHANGED <<front, tcpConn, serving, responses>>, serving # "no",
         observed' \in Seq(Sight), Learned \subseteq Learned', TTLsRight',
         QueryInv(i)'
  PROVE  AnswerInv'
  <1>1. Queries' = Queries /\ OnTCP' = OnTCP /\ Upstreams' = Upstreams
    BY SameFront
  <1>2. DNSTypes'
    BY <1>1 DEF AnswerInv, DNSTypes
  <1>3. \A k \in Queries' : QueryInv(k)'
    <2> SUFFICES ASSUME NEW k \in Queries PROVE QueryInv(k)'
      BY <1>1
    <2>1. CASE k = i
      BY <2>1
    <2>2. CASE k # i
      BY <2>2, QueryStays DEF AnswerInv
    <2> QED
      BY <2>1, <2>2
  <1>4. ConnInv'
    <2>1. \A k \in OnTCP : k \in Queries
      BY DEF OnTCP
    <2>2. tcpConn'.at = tcpConn.at
      OBVIOUS
    <2>3. \A k \in OnTCP : job'[k].pc = "wait" <=> job[k].pc = "wait"
      BY <2>1 DEF AtRest
    <2>4. \A k \in OnTCP : job'[k].pc \notin AtRest => job[k].pc \notin AtRest
      BY <2>1
    <2> QED
      BY <1>1, <2>2, <2>3, <2>4 DEF ConnInv, AnswerInv
  <1>5. GivenInv'
    <2>1. \A k \in DOMAIN responses : responses[k].for # i /\ responses[k].for \in Queries
      BY DEF AnswerInv, GivenInv
    <2>2. \A k \in DOMAIN responses : RightFor(responses[k].for, responses[k])'
      <3> SUFFICES ASSUME NEW k \in DOMAIN responses PROVE RightFor(responses[k].for, responses[k])'
        OBVIOUS
      <3>1. RightFor(responses[k].for, responses[k])
        BY DEF AnswerInv, GivenInv
      <3> QED
        BY <3>1, GivenStays
    <2> QED
      BY <1>1, <2>1, <2>2 DEF AnswerInv, GivenInv
  <1> QED
    BY <1>2, <1>3, <1>4, <1>5 DEF AnswerInv

\* A step in which no handler does anything and no client gets anything.
LEMMA QuietStep ==
  ASSUME AnswerInv, UNCHANGED <<front, job, responses, observed>>,
         tcpConn' \in [open : BOOLEAN, late : BOOLEAN, at : Nat], tcpConn'.at = tcpConn.at,
         serving = "cancelled" => serving' = "cancelled", serving # "no" => serving' # "no",
         serving' # "no" => Upstreams # <<>>
  PROVE  AnswerInv'
  <1>1. Queries' = Queries /\ OnTCP' = OnTCP /\ Upstreams' = Upstreams
    BY SameFront
  <1>2. Learned \subseteq Learned'
    BY DEF Learned
  <1>3. DNSTypes'
    BY <1>1 DEF AnswerInv, DNSTypes
  <1>4. \A k \in Queries' : QueryInv(k)'
    <2> SUFFICES ASSUME NEW k \in Queries PROVE QueryInv(k)'
      BY <1>1
    <2>1. QueryInv(k) /\ job'[k] = job[k]
      BY DEF AnswerInv
    <2> QED
      BY <1>2, <2>1, QueryStays
  <1>5. ConnInv'
    BY <1>1 DEF ConnInv, AnswerInv
  <1>6. GivenInv'
    <2>1. \A k \in DOMAIN responses : RightFor(responses[k].for, responses[k])'
      <3> SUFFICES ASSUME NEW k \in DOMAIN responses PROVE RightFor(responses[k].for, responses[k])'
        OBVIOUS
      <3>1. RightFor(responses[k].for, responses[k]) /\ responses'[k] = responses[k]
        BY DEF AnswerInv, GivenInv
      <3> QED
        BY <1>2, <3>1, GivenStays
    <2> QED
      BY <1>1, <2>1 DEF AnswerInv, GivenInv
  <1>7. TTLsRight'
    BY DEF AnswerInv, TTLsRight
  <1> QED
    BY <1>3, <1>4, <1>5, <1>6, <1>7 DEF AnswerInv

\* Before anything is bound no query has been read.
LEMMA QueriesStart == DNSInit => AnswerInv
  <1> SUFFICES ASSUME DNSInit PROVE AnswerInv
    OBVIOUS
  <1>1. DNSTypes
    <2>1. newJob \in JobRec
      BY DEF newJob, JobRec
    <2> QED
      BY <2>1 DEF DNSInit, DNSTypes
  <1>2. \A i \in Queries : job[i].pc = "wait" /\ job[i].up = 1
    BY DEF DNSInit, newJob
  <1>3. \A i \in Queries : QueryInv(i)
    BY <1>2 DEF QueryInv
  <1>4. ConnInv
    BY <1>2 DEF ConnInv, OnTCP, AtRest
  <1>5. GivenInv /\ TTLsRight
    BY DEF DNSInit, GivenInv, TTLsRight
  <1> QED
    BY <1>1, <1>3, <1>4, <1>5 DEF AnswerInv

\* Listen, Serve and the connection, where nothing is read.
LEMMA SocketStep ==
  ASSUME AnswerInv, ListenUDP \/ ListenTCP \/ StartServing \/ StopServing \/ TCPEnds \/ TCPLate
  PROVE  AnswerInv'
  <1>1. tcpConn \in [open : BOOLEAN, late : BOOLEAN, at : Nat] /\ (serving # "no" => Upstreams # <<>>)
    BY DEF AnswerInv, DNSTypes
  <1>2. CASE ListenUDP
    BY <1>1, <1>2, QuietStep DEF ListenUDP
  <1>3. CASE ListenTCP
    BY <1>1, <1>3, QuietStep DEF ListenTCP
  <1>4. CASE StartServing
    BY <1>1, <1>4, QuietStep DEF StartServing
  <1>5. CASE StopServing
    BY <1>1, <1>5, QuietStep DEF StopServing
  <1>6. CASE TCPEnds
    BY <1>1, <1>6, QuietStep DEF TCPEnds
  <1>7. CASE TCPLate
    BY <1>1, <1>7, QuietStep DEF TCPLate
  <1> QED
    BY <1>2, <1>3, <1>4, <1>5, <1>6, <1>7

\* What there is at each place of a list of upstreams.
LEMMA UpstreamsHave ==
  ASSUME NEW U \in Seq(Resolvers)
  PROVE  /\ \A k \in DOMAIN U : k \in 1..Len(U) /\ k \in Nat /\ U[k].udp \in Seq(Datagrams) /\ U[k].tcp \in BOOLEAN
         /\ U # <<>> => 1 \in DOMAIN U
         /\ Len(U) \in Nat /\ DOMAIN U = 1..Len(U)
  <1>1. Len(U) \in Nat /\ DOMAIN U = 1..Len(U) /\ \A k \in DOMAIN U : U[k] \in Resolvers
    OBVIOUS
  <1>2. U # <<>> => Len(U) # 0
    OBVIOUS
  <1>3. \A u \in Resolvers : u.udp \in Seq(Datagrams) /\ u.tcp \in BOOLEAN
    BY DEF Resolvers, Datagrams
  <1> QED
    BY <1>1, <1>2, <1>3

\* What every handler's step can use.
LEMMA HandlerHas ==
  ASSUME AnswerInv, NEW i \in Queries
  PROVE  /\ front \in Fronts /\ i \in Nat /\ i # 0 /\ front.queries[i] \in QuerySet
         /\ job \in [Queries -> JobRec] /\ job[i] \in JobRec /\ QueryInv(i)
         /\ Upstreams \in Seq(Resolvers) /\ (serving # "no" => Upstreams # <<>>)
         /\ observed \in Seq(Sight) /\ TTLsRight
  BY QueryIs, UpstreamsAre DEF AnswerInv, DNSTypes

\* A datagram is read: a query of its own begins.
LEMMA ReadUDPStep ==
  ASSUME AnswerInv, NEW i \in Queries, ReadUDP(i)
  PROVE  AnswerInv'
  <1>1. job \in [Queries -> JobRec] /\ job[i] \in JobRec /\ QueryInv(i) /\ observed \in Seq(Sight) /\ TTLsRight
    BY HandlerHas
  <1>2. job' = [job EXCEPT ![i].pc = "handle"] /\ serving # "no" /\ i \notin OnTCP
    BY DEF ReadUDP, OnTCP
  <1>3. job' \in [Queries -> JobRec] /\ \A k \in Queries : k # i => job'[k] = job[k]
    BY <1>1, <1>2 DEF JobRec
  <1>4. job'[i].pc = "handle" /\ job'[i].up = 1
    BY <1>1, <1>2 DEF JobRec, QueryInv, ReadUDP
  <1>5. QueryInv(i)'
    BY <1>2, <1>4 DEF QueryInv, ReadUDP
  <1>6. Learned \subseteq Learned' /\ TTLsRight'
    BY <1>1 DEF ReadUDP, Learned, TTLsRight
  <1> QED
    BY <1>1, <1>2, <1>3, <1>4, <1>5, <1>6, HandlerStep DEF ReadUDP

\* A query is answered from the lists, or goes to the first upstream.
LEMMA HandleStep ==
  ASSUME AnswerInv, NEW i \in Queries, Handle(i)
  PROVE  AnswerInv'
  <1> DEFINE q == front.queries[i]
  <1>1. /\ front \in Fronts /\ i \in Nat /\ q \in QuerySet
        /\ job \in [Queries -> JobRec] /\ job[i] \in JobRec /\ QueryInv(i)
        /\ observed \in Seq(Sight) /\ TTLsRight /\ Upstreams \in Seq(Resolvers)
    BY HandlerHas
  <1>2. job[i].pc = "handle" /\ serving # "no" /\ Upstreams # <<>>
    BY <1>1, HandlerHas DEF Handle, QueryInv
  <1>3. Learned \subseteq Learned' /\ TTLsRight'
    BY <1>1 DEF Handle, Learned, TTLsRight
  <1>4. UNCHANGED <<front, bound, tcpConn, serving, responses, observed>>
    BY DEF Handle
  <1>5. front' = front /\ serving' = serving
    BY <1>4
  <1>6. Passed(i)' = Passed(i) /\ Upstreams' = Upstreams /\ Replying(i)' = Replying(i)
    BY <1>5, SameFront
  <1>7. SUFFICES /\ job' \in [Queries -> JobRec] /\ \A k \in Queries : k # i => job'[k] = job[k]
                 /\ job'[i].pc # "wait" /\ QueryInv(i)'
    BY <1>1, <1>2, <1>3, <1>4, HandlerStep DEF AtRest
  <1>8. ASSUME NEW code \in AnswerCodes, job' = Answer(i, code),
               \/ q.form = "noquestion" /\ code = "formerr"
               \/ q.form = "good" /\ Listed(q) /\ code = "nxdomain"
               \/ q.form = "good" /\ ~Listed(q) /\ Routed(q) /\ code = "fake"
        PROVE  /\ job' \in [Queries -> JobRec] /\ \A k \in Queries : k # i => job'[k] = job[k]
               /\ job'[i].pc # "wait" /\ QueryInv(i)'
    <2> DEFINE r == [code |-> code, for |-> i, up |-> 0, tc |-> FALSE, ech |-> FALSE]
    <2>1. r \in FullAnswer /\ r.for = i /\ r.code = code
      BY <1>1, <1>8 DEF FullAnswer
    <2>2. job' = [job EXCEPT ![i].pc = "answer", ![i].resp = r]
      BY <1>8 DEF Answer
    <2> HIDE DEF r
    <2>3. job' \in [Queries -> JobRec] /\ \A k \in Queries : k # i => job'[k] = job[k]
      BY <1>1, <2>1, <2>2 DEF JobRec
    <2>4. job'[i].pc = "answer" /\ job'[i].resp = r
      BY <1>1, <2>2 DEF JobRec
    <2>5. RightFor(i, job[i].resp)'
      BY <1>5, <1>8, <2>1, <2>4 DEF RightFor, Routed
    <2> QED
      BY <1>2, <1>5, <2>1, <2>3, <2>4, <2>5 DEF QueryInv
  <1>9. CASE q.form = "bad"
    <2>1. job' = [job EXCEPT ![i].pc = "drop"]
      BY <1>9 DEF Handle
    <2>2. job' \in [Queries -> JobRec] /\ job'[i].pc = "drop" /\ \A k \in Queries : k # i => job'[k] = job[k]
      BY <1>1, <2>1 DEF JobRec
    <2> QED
      BY <1>2, <1>5, <2>2 DEF QueryInv
  <1>10. CASE q.form = "noquestion"
    <2>1. job' = Answer(i, "formerr")
      BY <1>10 DEF Handle
    <2> QED
      BY <1>8, <1>10, <2>1 DEF AnswerCodes
  <1>11. CASE q.form = "good" /\ Listed(q)
    <2>1. job' = Answer(i, "nxdomain")
      BY <1>11 DEF Handle, Listed
    <2> QED
      BY <1>8, <1>11, <2>1 DEF AnswerCodes
  <1>12. CASE q.form = "good" /\ ~Listed(q) /\ Routed(q)
    <2>1. job' = Answer(i, "fake")
      BY <1>12 DEF Handle, Listed, Routed
    <2> QED
      BY <1>8, <1>12, <2>1 DEF AnswerCodes
  <1>13. CASE Passed(i)
    <2> DEFINE left == Upstreams[1].udp
    <2>1. job' = [job EXCEPT ![i].pc = "forward", ![i].net = q.via, ![i].left = left]
      BY <1>13 DEF Handle, Passed, Listed, Routed
    <2>2. 1 \in DOMAIN Upstreams /\ left \in Seq(Datagrams)
      BY <1>1, <1>2, UpstreamsHave
    <2>3. job[i].up = 1
      BY <1>2, <1>1 DEF QueryInv
    <2> HIDE DEF left
    <2>4. job' \in [Queries -> JobRec] /\ \A k \in Queries : k # i => job'[k] = job[k]
      BY <1>1, <2>1, <2>2 DEF JobRec, QuerySet
    <2>5. job'[i].pc = "forward" /\ job'[i].net = q.via /\ job'[i].left = left /\ job'[i].up = 1
      BY <1>1, <2>1, <2>3 DEF JobRec
    <2>6. AsksInTurn(i)'
      BY <1>1, <1>5, <1>6, <2>2, <2>5 DEF AsksInTurn, QuerySet, left
    <2> QED
      BY <1>2, <1>5, <1>6, <1>13, <2>4, <2>5, <2>6 DEF QueryInv
  <1> QED
    BY <1>1, <1>9, <1>10, <1>11, <1>12, <1>13 DEF QuerySet, Passed

\* The one that replies when none before it does is the first.
LEMMA FirstReply ==
  ASSUME AnswerInv, NEW i \in Queries, AsksInTurn(i), Replies(Upstreams[job[i].up], front.queries[i].via)
  PROVE  job[i].up = Min(Replying(i))
  <1> DEFINE asked == job[i].up
             T == Replying(i)
  <1>1. Upstreams \in Seq(Resolvers) /\ front \in Fronts
    BY HandlerHas
  <1>2. asked \in DOMAIN Upstreams /\ DOMAIN Upstreams = 1..Len(Upstreams) /\ Len(Upstreams) \in Nat
    BY <1>1, UpstreamsHave DEF AsksInTurn
  <1>3. asked \in T /\ T \subseteq DOMAIN Upstreams
    BY <1>2 DEF Replying
  <1>4. \A k \in T : ~(k < asked)
    <2> SUFFICES ASSUME NEW k \in T, k < asked PROVE FALSE
      OBVIOUS
    <2>1. k \in 1..(asked - 1)
      BY <1>2, <1>3
    <2>2. Replies(Upstreams[k], front.queries[i].via)
      BY DEF Replying
    <2> QED
      BY <2>1, <2>2 DEF AsksInTurn
  <1>5. T \subseteq Nat
    BY <1>2, <1>3
  <1> HIDE DEF T, asked
  <1>6. Min(T) \in T /\ Min(T) <= asked
    BY <1>3, <1>5, MinIsLeast
  <1>7. Min(T) = asked
    BY <1>3, <1>4, <1>5, <1>6
  <1> QED
    BY <1>7 DEF T, asked

\* An upstream that replies has been asked in turn: the answer is its own.
LEMMA SeenStep ==
  ASSUME AnswerInv, NEW i \in Queries, job[i].pc = "forward",
         Replies(Upstreams[job[i].up], front.queries[i].via),
         job' = [job EXCEPT ![i].pc = "seen", ![i].resp = Response(i)],
         UNCHANGED <<front, bound, tcpConn, serving, responses, observed>>
  PROVE  AnswerInv'
  <1> DEFINE r == Response(i)
  <1>1. /\ front \in Fronts /\ i \in Nat
        /\ job \in [Queries -> JobRec] /\ job[i] \in JobRec /\ QueryInv(i)
        /\ observed \in Seq(Sight) /\ TTLsRight /\ Upstreams \in Seq(Resolvers)
    BY HandlerHas
  <1>2. serving # "no" /\ Passed(i) /\ AsksInTurn(i)
    BY <1>1 DEF QueryInv
  <1>3. Learned \subseteq Learned' /\ TTLsRight'
    BY <1>1 DEF Learned, TTLsRight
  <1>4. Passed(i)' = Passed(i) /\ Upstreams' = Upstreams /\ Replying(i)' = Replying(i)
    BY SameFront
  <1>5. job[i].up = Min(Replying(i))
    BY <1>2, FirstReply
  <1>6. r \in FullAnswer /\ r.code = "forwarded" /\ r.for = i /\ ~r.tc /\ r.up = job[i].up
    BY <1>1 DEF Response, FullAnswer, AnswerCodes, JobRec
  <1>7. job' = [job EXCEPT ![i].pc = "seen", ![i].resp = r]
    OBVIOUS
  <1> HIDE DEF r
  <1>8. job' \in [Queries -> JobRec] /\ \A k \in Queries : k # i => job'[k] = job[k]
    <2>1. \A k \in Queries : k # i => job'[k] = job[k]
      BY <1>1, <1>7
    <2>2. job'[i] = [job[i] EXCEPT !.pc = "seen", !.resp = r]
      BY <1>1, <1>7 DEF JobRec
    <2>3. job'[i] \in JobRec
      BY <1>1, <1>6, <2>2 DEF JobRec
    <2>4. job' = [k \in Queries |-> job'[k]]
      BY <1>1, <1>7
    <2> QED
      BY <1>1, <2>1, <2>3, <2>4
  <1>9. job'[i].pc = "seen" /\ job'[i].resp = r
    BY <1>1, <1>7 DEF JobRec
  <1>10. job[i].up \in DOMAIN Upstreams
    BY <1>2 DEF AsksInTurn
  <1>11. QueryInv(i)'
    BY <1>2, <1>4, <1>5, <1>6, <1>9, <1>10 DEF QueryInv
  <1> QED
    BY <1>1, <1>2, <1>3, <1>8, <1>9, <1>11, HandlerStep DEF AtRest

\* The upstream replies over TCP.
LEMMA ExchangeTCPStep ==
  ASSUME AnswerInv, NEW i \in Queries, ExchangeTCP(i)
  PROVE  AnswerInv'
  <1>1. QueryInv(i)
    BY HandlerHas
  <1>2. job[i].pc = "forward" /\ job[i].net = "tcp" /\ Upstreams[job[i].up].tcp
    BY DEF ExchangeTCP, Forwarding
  <1>3. AsksInTurn(i)
    BY <1>1, <1>2 DEF QueryInv
  <1>4. Replies(Upstreams[job[i].up], front.queries[i].via)
    BY <1>2, <1>3 DEF AsksInTurn, Replies
  <1> QED
    BY <1>2, <1>4, SeenStep DEF ExchangeTCP

\* A datagram is dropped as stray, or is the upstream's reply, or its truncated
\* form, which is asked for again over TCP.
LEMMA ExchangeUDPStep ==
  ASSUME AnswerInv, NEW i \in Queries, ExchangeUDP(i)
  PROVE  AnswerInv'
  <1> DEFINE s == job[i].left
             u == Upstreams[job[i].up]
  <1>1. /\ front \in Fronts /\ job \in [Queries -> JobRec] /\ job[i] \in JobRec /\ QueryInv(i)
        /\ observed \in Seq(Sight) /\ TTLsRight
    BY HandlerHas
  <1>2. job[i].pc = "forward" /\ job[i].net = "udp" /\ s # <<>> /\ UNCHANGED <<front, bound, tcpConn, serving, responses, observed>>
    BY DEF ExchangeUDP, Forwarding
  <1>3. serving # "no" /\ Passed(i) /\ AsksInTurn(i) /\ s \in Seq(Datagrams)
    BY <1>1, <1>2 DEF QueryInv, JobRec
  <1>4. front.queries[i].via = "udp" /\ FirstOwn(s) = FirstOwn(u.udp)
    BY <1>2, <1>3 DEF AsksInTurn
  <1>5. /\ Head(s) # "stray" => FirstOwn(s) = Head(s)
        /\ Head(s) = "stray" => FirstOwn(Tail(s)) = FirstOwn(s)
    <2> HIDE DEF s
    <2> QED
      BY <1>2, <1>3, OwnComes
  <1>6. Head(s) \in Datagrams /\ Tail(s) \in Seq(Datagrams)
    <2> HIDE DEF s
    <2> QED
      BY <1>2, <1>3
  <1>7. Learned \subseteq Learned' /\ TTLsRight'
    BY <1>1, <1>2 DEF Learned, TTLsRight
  <1>8. Passed(i)' = Passed(i) /\ Upstreams' = Upstreams
    BY <1>2, SameFront
  <1>9. CASE Head(s) = "stray"
    <2> DEFINE t == Tail(s)
    <2>1. job' = [job EXCEPT ![i].left = t]
      BY <1>1, <1>9 DEF ExchangeUDP, JobRec
    <2> HIDE DEF t
    <2>2. t \in Seq(Datagrams)
      BY <1>6 DEF t
    <2>3. job' \in [Queries -> JobRec] /\ \A k \in Queries : k # i => job'[k] = job[k]
      BY <1>1, <2>1, <2>2 DEF JobRec
    <2>4. job'[i].pc = "forward" /\ job'[i].net = "udp" /\ job'[i].left = t /\ job'[i].up = job[i].up
      BY <1>1, <1>2, <2>1 DEF JobRec
    <2>5. AsksInTurn(i)'
      BY <1>2, <1>3, <1>4, <1>5, <1>8, <1>9, <2>4 DEF AsksInTurn, t
    <2>6. QueryInv(i)'
      BY <1>2, <1>3, <1>8, <2>4, <2>5 DEF QueryInv
    <2> QED
      BY <1>1, <1>2, <1>3, <1>7, <2>3, <2>4, <2>6, HandlerStep DEF AtRest
  <1>10. CASE Head(s) = "tc"
    <2>1. job' = [job EXCEPT ![i].net = "tcp"]
      BY <1>10 DEF ExchangeUDP
    <2>2. job' \in [Queries -> JobRec] /\ \A k \in Queries : k # i => job'[k] = job[k]
      BY <1>1, <2>1 DEF JobRec
    <2>3. job'[i].pc = "forward" /\ job'[i].net = "tcp" /\ job'[i].up = job[i].up
      BY <1>1, <1>2, <2>1 DEF JobRec
    <2>4. FirstOwn(u.udp) = "tc"
      BY <1>4, <1>5, <1>10
    <2>5. AsksInTurn(i)'
      BY <1>2, <1>3, <1>8, <2>3, <2>4 DEF AsksInTurn
    <2>6. QueryInv(i)'
      BY <1>2, <1>3, <1>8, <2>3, <2>5 DEF QueryInv
    <2> QED
      BY <1>1, <1>2, <1>3, <1>7, <2>2, <2>3, <2>6, HandlerStep DEF AtRest
  <1>11. CASE Head(s) = "ok"
    <2>1. job' = [job EXCEPT ![i].pc = "seen", ![i].resp = Response(i)]
      BY <1>11 DEF ExchangeUDP
    <2>2. Replies(u, front.queries[i].via)
      BY <1>4, <1>5, <1>11 DEF Replies
    <2> QED
      BY <1>2, <2>1, <2>2, SeenStep
  <1> QED
    BY <1>6, <1>9, <1>10, <1>11 DEF Datagrams

\* The upstream has no reply: the next one is asked, or there is none left.
LEMMA ExchangeFailsStep ==
  ASSUME AnswerInv, NEW i \in Queries, ExchangeFails(i)
  PROVE  AnswerInv'
  <1> DEFINE asked == job[i].up
             u == Upstreams[asked]
             q == front.queries[i]
  <1>1. /\ front \in Fronts /\ i \in Nat /\ q \in QuerySet
        /\ job \in [Queries -> JobRec] /\ job[i] \in JobRec /\ QueryInv(i)
        /\ observed \in Seq(Sight) /\ TTLsRight /\ Upstreams \in Seq(Resolvers)
    BY HandlerHas
  <1>2. job[i].pc = "forward" /\ UNCHANGED <<front, bound, tcpConn, serving, responses, observed>>
    BY DEF ExchangeFails
  <1>3. serving # "no" /\ Passed(i) /\ AsksInTurn(i) /\ job[i].net \in {"udp", "tcp"}
    BY <1>1, <1>2 DEF QueryInv, JobRec
  <1>4. Learned \subseteq Learned' /\ TTLsRight'
    BY <1>1, <1>2 DEF Learned, TTLsRight
  <1>5. Passed(i)' = Passed(i) /\ Upstreams' = Upstreams /\ Replying(i)' = Replying(i)
    BY <1>2, SameFront
  <1>6. asked \in 1..Len(Upstreams) /\ Len(Upstreams) \in Nat /\ DOMAIN Upstreams = 1..Len(Upstreams)
    BY <1>1, <1>3, UpstreamsHave DEF AsksInTurn
  <1>7. serving # "cancelled" => ~Replies(u, q.via)
    <2> SUFFICES ASSUME serving # "cancelled" PROVE ~Replies(u, q.via)
      OBVIOUS
    <2>1. CASE job[i].net = "udp" /\ job[i].left = <<>>
      <3>1. FirstOwn(job[i].left) = "none"
        BY <2>1 DEF FirstOwn
      <3>2. q.via = "udp" /\ FirstOwn(u.udp) = "none"
        BY <1>3, <2>1, <3>1 DEF AsksInTurn
      <3> QED
        BY <3>2 DEF Replies
    <2>2. CASE job[i].net = "tcp" /\ ~u.tcp
      BY <1>3, <2>2 DEF AsksInTurn, Replies
    <2> QED
      BY <2>1, <2>2 DEF ExchangeFails
  <1>8. CASE asked = Len(Upstreams) \/ serving = "cancelled"
    <2> DEFINE r == [code |-> "servfail", for |-> i, up |-> 0, tc |-> FALSE, ech |-> FALSE]
    <2>1. r \in FullAnswer /\ r.for = i /\ r.code = "servfail"
      BY <1>1 DEF FullAnswer, AnswerCodes
    <2>2. job' = [job EXCEPT ![i].pc = "answer", ![i].resp = r]
      BY <1>8 DEF ExchangeFails, Answer
    <2> HIDE DEF r
    <2>3. job' \in [Queries -> JobRec] /\ \A k \in Queries : k # i => job'[k] = job[k]
      BY <1>1, <2>1, <2>2 DEF JobRec
    <2>4. job'[i].pc = "answer" /\ job'[i].resp = r
      BY <1>1, <2>2 DEF JobRec
    <2>5. Replying(i) = {} \/ serving = "cancelled"
      <3> SUFFICES ASSUME serving # "cancelled", NEW k \in Replying(i) PROVE FALSE
        OBVIOUS
      <3>1. k \in 1..Len(Upstreams) /\ Replies(Upstreams[k], q.via)
        BY <1>6 DEF Replying
      <3>2. asked = Len(Upstreams) /\ ~Replies(u, q.via)
        BY <1>7, <1>8
      <3>3. k \in 1..(asked - 1)
        <4> DEFINE n == Len(Upstreams)
        <4>1. k # asked
          BY <3>1, <3>2
        <4>2. n \in Nat /\ k \in 1..n /\ asked = n
          BY <1>6, <3>1, <3>2
        <4> HIDE DEF n, asked
        <4> QED
          BY <4>1, <4>2
      <3> QED
        BY <1>3, <3>1, <3>3 DEF AsksInTurn
    <2>6. RightFor(i, job[i].resp)'
      BY <1>2, <1>3, <1>5, <2>1, <2>4, <2>5 DEF RightFor, Passed, Routed
    <2>7. QueryInv(i)'
      BY <1>2, <1>3, <2>1, <2>4, <2>6 DEF QueryInv
    <2> QED
      BY <1>1, <1>2, <1>3, <1>4, <2>3, <2>4, <2>7, HandlerStep DEF AtRest
  <1>9. CASE ~(asked = Len(Upstreams) \/ serving = "cancelled")
    <2> DEFINE left == Upstreams[asked + 1].udp
    <2>1. job' = [job EXCEPT ![i].up = asked + 1, ![i].net = q.via, ![i].left = left]
      BY <1>1, <1>9 DEF ExchangeFails, JobRec
    <2>2. asked + 1 \in DOMAIN Upstreams /\ asked + 1 \in Nat /\ (asked + 1) - 1 = asked
      BY <1>6, <1>9
    <2>3. left \in Seq(Datagrams)
      BY <1>1, <2>2, UpstreamsHave
    <2>4. ASSUME NEW k \in 1..asked PROVE ~Replies(Upstreams[k], q.via)
      <3>1. CASE k = asked
        BY <1>7, <1>9, <3>1
      <3>2. CASE k # asked
        <4>1. k \in 1..(asked - 1)
          BY <1>6, <3>2
        <4> QED
          BY <1>3, <4>1 DEF AsksInTurn
      <3> QED
        BY <3>1, <3>2
    <2> HIDE DEF left
    <2>5. job' \in [Queries -> JobRec] /\ \A k \in Queries : k # i => job'[k] = job[k]
      BY <1>1, <2>1, <2>2, <2>3 DEF JobRec, QuerySet
    <2>6. job'[i].pc = "forward" /\ job'[i].up = asked + 1 /\ job'[i].net = q.via /\ job'[i].left = left
      BY <1>1, <1>2, <2>1 DEF JobRec
    <2>7. q' = q /\ q.via \in {"udp", "tcp"}
      BY <1>1, <1>2 DEF QuerySet
    <2>8. AsksInTurn(i)'
      <3>1. job'[i].up \in DOMAIN Upstreams /\ \A k \in 1..(job'[i].up - 1) : ~Replies(Upstreams[k], q.via)
        BY <2>2, <2>4, <2>6
      <3> QED
        BY <1>5, <2>6, <2>7, <3>1 DEF AsksInTurn, left
    <2>9. QueryInv(i)'
      BY <1>2, <1>3, <1>5, <2>6, <2>8 DEF QueryInv
    <2> QED
      BY <1>1, <1>2, <1>3, <1>4, <2>5, <2>6, <2>9, HandlerStep DEF AtRest
  <1> QED
    BY <1>8, <1>9

\* What the answer shows is learned before the answer goes out.
LEMMA SeeStep ==
  ASSUME AnswerInv, NEW i \in Queries, See(i)
  PROVE  AnswerInv'
  <1> DEFINE q == front.queries[i]
             r == [job[i].resp EXCEPT !.ech = @ /\ ~front.strip]
             x == [query |-> i, ttl |-> answerTTL(front.ttls)]
             learns == q.type \in {"A", "AAAA"} /\ front.ttls # <<>>
  <1>1. /\ front \in Fronts /\ i \in Nat /\ q \in QuerySet
        /\ job \in [Queries -> JobRec] /\ job[i] \in JobRec /\ QueryInv(i)
        /\ observed \in Seq(Sight) /\ TTLsRight /\ Upstreams \in Seq(Resolvers)
    BY HandlerHas
  <1>2. job[i].pc = "seen" /\ UNCHANGED <<front, bound, tcpConn, serving, responses>>
    BY DEF See
  <1>3. front' = front /\ serving' = serving
    BY <1>2
  <1>4. /\ serving # "no" /\ Passed(i) /\ job[i].resp \in FullAnswer
        /\ job[i].resp.code = "forwarded" /\ job[i].resp.for = i /\ ~job[i].resp.tc
        /\ job[i].resp.up = Min(Replying(i)) /\ job[i].resp.up \in DOMAIN Upstreams
    BY <1>1, <1>2 DEF QueryInv
  <1>5. front.strip \in BOOLEAN /\ front.ttls \in Seq(Nat)
    BY <1>1, FrontIs
  <1>6. /\ r \in FullAnswer /\ r.code = "forwarded" /\ r.for = i /\ ~r.tc /\ (front.strip => ~r.ech)
        /\ r.up = job[i].resp.up
    BY <1>4, <1>5 DEF FullAnswer
  <1>7. job' = [job EXCEPT ![i].pc = "answer", ![i].resp.ech = @ /\ ~front.strip]
    BY DEF See
  <1>8. job'[i] = [job[i] EXCEPT !.pc = "answer", !.resp = r]
    BY <1>1, <1>7 DEF JobRec
  <1>9. \A k \in Queries : k # i => job'[k] = job[k]
    BY <1>1, <1>7
  <1>10. observed' = IF learns THEN Append(observed, x) ELSE observed
    BY DEF See
  <1> HIDE DEF r
  <1>11. job' \in [Queries -> JobRec]
    <2>1. job'[i] \in JobRec
      BY <1>1, <1>6, <1>8 DEF JobRec
    <2>2. job' = [k \in Queries |-> job'[k]]
      BY <1>1, <1>7
    <2> QED
      BY <1>1, <1>9, <2>1, <2>2
  <1>12. job'[i].pc = "answer" /\ job'[i].resp = r
    BY <1>1, <1>8 DEF JobRec
  <1>13. /\ x \in Sight /\ x.query = i
         /\ 0 \notin ToSet(front.ttls) => \A t \in ToSet(front.ttls) : x.ttl <= t
    BY <1>1, <1>5, LeastTTL DEF Sight
  <1> HIDE DEF x
  <1>14. /\ observed' \in Seq(Sight)
         /\ \A k \in DOMAIN observed : k \in DOMAIN observed' /\ observed'[k] = observed[k]
         /\ \A k \in DOMAIN observed' : k \in DOMAIN observed \/ (learns /\ observed'[k] = x)
         /\ learns => \E k \in DOMAIN observed' : observed'[k] = x
    <2>1. CASE learns
      <3>1. observed' = Append(observed, x)
        BY <1>10, <2>1
      <3> HIDE DEF learns
      <3>2. DOMAIN observed = 1..Len(observed) /\ Len(observed) \in Nat
        BY <1>1
      <3>3. /\ observed' \in Seq(Sight) /\ DOMAIN observed' = 1..(Len(observed) + 1)
            /\ \A k \in 1..Len(observed) : observed'[k] = observed[k]
            /\ observed'[Len(observed) + 1] = x
        BY <1>1, <1>13, <3>1
      <3>4. Len(observed) + 1 \in DOMAIN observed'
        BY <3>2, <3>3
      <3>5. \A k \in DOMAIN observed' : k \in DOMAIN observed \/ k = Len(observed) + 1
        BY <3>2, <3>3
      <3>6. \A k \in DOMAIN observed : k \in DOMAIN observed' /\ observed'[k] = observed[k]
        BY <3>2, <3>3
      <3> QED
        BY <2>1, <3>3, <3>4, <3>5, <3>6
    <2>2. CASE ~learns
      <3> HIDE DEF learns
      <3> QED
        BY <1>1, <1>10, <2>2
    <2> QED
      BY <2>1, <2>2
  <1>15. Learned \subseteq Learned' /\ (learns => i \in Learned')
    BY <1>13, <1>14 DEF Learned
  <1>16. TTLsRight'
    BY <1>1, <1>3, <1>13, <1>14 DEF TTLsRight
  <1>17. Passed(i)' = Passed(i) /\ Upstreams' = Upstreams /\ Replying(i)' = Replying(i)
    BY <1>3, SameFront
  <1>18. front.spec = "system" => Upstreams[r.up].who = "public"
    BY <1>1, <1>4, <1>6, UpstreamsAre
  <1>19. FromUpstream(i, job[i].resp)'
    BY <1>3, <1>4, <1>6, <1>12, <1>15, <1>17, <1>18 DEF FromUpstream
  <1>20. RightFor(i, job[i].resp)'
    BY <1>3, <1>4, <1>19 DEF RightFor, Passed, Routed
  <1>21. QueryInv(i)'
    BY <1>3, <1>4, <1>6, <1>12, <1>20 DEF QueryInv
  <1> QED
    BY <1>1, <1>2, <1>4, <1>9, <1>11, <1>12, <1>14, <1>15, <1>16, <1>21, HandlerStep DEF AtRest

\* The next query of the connection is read: the one before has its answer.
LEMMA ReadTCPStep ==
  ASSUME AnswerInv, ReadTCP
  PROVE  AnswerInv'
  <1> DEFINE m == Min(Unread)
  <1>0. /\ Unread # {} /\ tcpConn.at = 0 /\ serving # "no" /\ UNCHANGED <<front, bound, serving, responses, observed>>
        /\ job' = [job EXCEPT ![m].pc = "handle"] /\ tcpConn' = [tcpConn EXCEPT !.at = m]
    BY DEF ReadTCP
  <1>1. /\ front \in Fronts /\ job \in [Queries -> JobRec] /\ tcpConn \in [open : BOOLEAN, late : BOOLEAN, at : Nat]
    BY DEF AnswerInv, DNSTypes
  <1>2. \A k \in Queries : k \in Nat /\ k # 0 /\ QueryInv(k)
    BY <1>1, QueryIs DEF AnswerInv
  <1>3. OnTCP \subseteq Queries /\ Unread = {k \in OnTCP : job[k].pc = "wait"}
    BY DEF OnTCP, Unread
  <1>4. m \in Unread /\ \A k \in Unread : m <= k
    <2>1. Unread \subseteq Nat
      BY <1>2, <1>3
    <2> QED
      BY <1>0, <2>1, MinIsLeast
  <1> HIDE DEF m
  <1>5. m \in OnTCP /\ m \in Queries /\ m \in Nat /\ m # 0 /\ job[m].pc = "wait"
    BY <1>2, <1>3, <1>4
  <1>6. job' \in [Queries -> JobRec] /\ \A k \in Queries : k # m => job'[k] = job[k]
    BY <1>0, <1>1, <1>5 DEF JobRec
  <1>7. job'[m].pc = "handle" /\ job'[m].up = job[m].up
    BY <1>0, <1>1, <1>5 DEF JobRec
  <1>8. Queries' = Queries /\ OnTCP' = OnTCP /\ Upstreams' = Upstreams
    BY <1>0, SameFront
  <1>9. Learned \subseteq Learned'
    BY <1>0 DEF Learned
  <1>10. tcpConn' \in [open : BOOLEAN, late : BOOLEAN, at : Nat] /\ tcpConn'.at = m
    BY <1>0, <1>1, <1>5
  <1>11. DNSTypes'
    BY <1>0, <1>6, <1>8, <1>10 DEF AnswerInv, DNSTypes
  <1>12. \A k \in Queries' : QueryInv(k)'
    <2> SUFFICES ASSUME NEW k \in Queries PROVE QueryInv(k)'
      BY <1>8
    <2>1. CASE k = m
      BY <1>0, <1>2, <1>5, <1>7, <2>1 DEF QueryInv
    <2>2. CASE k # m
      BY <1>0, <1>2, <1>6, <1>9, <2>2, QueryStays
    <2> QED
      BY <2>1, <2>2
  <1>13. \A k \in OnTCP : job[k].pc \in AtRest
    BY <1>0, <1>2, <1>3 DEF AnswerInv, ConnInv
  <1>14. \A k \in OnTCP : job[k].pc # "wait" => k < m
    <2> SUFFICES ASSUME NEW k \in OnTCP, job[k].pc # "wait", ~(k < m) PROVE FALSE
      OBVIOUS
    <2>1. k # m /\ k \in Nat
      BY <1>2, <1>3, <1>5
    <2>2. m < k
      BY <1>5, <2>1
    <2> QED
      BY <1>5, <2>2 DEF AnswerInv, ConnInv
  <1>15. ConnInv'
    <2>1. \A k \in OnTCP : job'[k].pc \notin AtRest => k = m
      BY <1>3, <1>6, <1>13
    <2>2. \A i, j \in OnTCP : job'[i].pc # "wait" /\ j < i => job'[j].pc # "wait"
      <3> SUFFICES ASSUME NEW i \in OnTCP, NEW j \in OnTCP, job'[i].pc # "wait", j < i PROVE job'[j].pc # "wait"
        OBVIOUS
      <3>1. CASE j = m
        BY <1>7, <3>1
      <3>2. CASE j # m /\ i = m
        <4>0. j \in Nat /\ j < m
          BY <1>2, <1>3, <3>2
        <4>1. j \notin Unread
          <5>1. j \in Unread => m <= j
            BY <1>4
          <5> QED
            BY <1>5, <4>0, <5>1
        <4> QED
          BY <1>3, <1>6, <3>2, <4>1
      <3>3. CASE j # m /\ i # m
        BY <1>3, <1>6, <3>3 DEF AnswerInv, ConnInv
      <3> QED
        BY <3>1, <3>2, <3>3
    <2>3. \A i, j \in OnTCP : job'[i].pc # "wait" /\ job'[j].pc \notin AtRest => i <= j
      <3> SUFFICES ASSUME NEW i \in OnTCP, NEW j \in OnTCP, job'[i].pc # "wait", job'[j].pc \notin AtRest PROVE i <= j
        OBVIOUS
      <3>1. j = m
        BY <2>1
      <3>2. CASE i = m
        BY <1>5, <3>1, <3>2
      <3>3. CASE i # m
        <4>1. job[i].pc # "wait"
          BY <1>3, <1>6, <3>3
        <4>2. i < m
          BY <1>14, <4>1
        <4>3. i \in Nat
          BY <1>2, <1>3
        <4> QED
          BY <1>5, <3>1, <4>2, <4>3
      <3> QED
        BY <3>2, <3>3
    <2> QED
      BY <1>8, <1>10, <2>1, <2>2, <2>3 DEF ConnInv
  <1>16. GivenInv'
    <2>1. \A k \in DOMAIN responses : responses[k].for \in Queries /\ responses[k].for # m
      BY <1>5 DEF AnswerInv, GivenInv
    <2>2. \A k \in DOMAIN responses : RightFor(responses[k].for, responses[k])'
      <3> SUFFICES ASSUME NEW k \in DOMAIN responses PROVE RightFor(responses[k].for, responses[k])'
        OBVIOUS
      <3>1. RightFor(responses[k].for, responses[k]) /\ responses'[k] = responses[k]
        BY <1>0 DEF AnswerInv, GivenInv
      <3> QED
        BY <1>0, <1>9, <3>1, GivenStays
    <2>3. responses' = responses
      BY <1>0
    <2> QED
      BY <1>6, <1>8, <2>1, <2>2, <2>3 DEF AnswerInv, GivenInv
  <1>17. TTLsRight'
    BY <1>0 DEF AnswerInv, TTLsRight
  <1> QED
    BY <1>11, <1>12, <1>15, <1>16, <1>17 DEF AnswerInv

\* The answer goes out and is the one this query was given.
LEMMA WriteStep ==
  ASSUME AnswerInv, NEW i \in Queries, Write(i)
  PROVE  AnswerInv'
  <1> DEFINE tcp == front.queries[i].via = "tcp"
             sent == job[i].pc = "answer" /\ IF tcp THEN ~tcpConn.late ELSE serving = "yes"
             r == job[i].resp
             pc == IF sent THEN "answered" ELSE "lost"
             L == Len(responses)
  <1>1. /\ front \in Fronts /\ job \in [Queries -> JobRec] /\ QueryInv(i)
        /\ tcpConn \in [open : BOOLEAN, late : BOOLEAN, at : Nat] /\ responses \in Seq(FullAnswer)
    BY DEF AnswerInv, DNSTypes
  <1>2. /\ job[i].pc \in {"answer", "drop"} /\ UNCHANGED <<front, bound, serving, observed>>
        /\ responses' = IF sent THEN Append(responses, r) ELSE responses
        /\ tcpConn' = IF tcp THEN [open |-> sent, late |-> FALSE, at |-> 0] ELSE tcpConn
        /\ job' = [job EXCEPT ![i] = [newJob EXCEPT !.pc = pc]]
    BY DEF Write
  <1>3. serving # "no" /\ (job[i].pc = "answer" => r \in FullAnswer /\ r.for = i /\ RightFor(i, r))
    BY <1>1, <1>2 DEF QueryInv
  <1>4. \A k \in Queries : k \in Nat /\ QueryInv(k)
    BY <1>1, QueryIs DEF AnswerInv
  <1>5. Queries' = Queries /\ OnTCP' = OnTCP /\ Upstreams' = Upstreams
    BY <1>2, SameFront
  <1>6. sent \in BOOLEAN /\ pc \in {"answered", "lost"}
    BY <1>1
  <1>a. L \in Nat /\ DOMAIN responses = 1..L
    BY <1>1
  <1>7. [newJob EXCEPT !.pc = pc] \in JobRec /\ [newJob EXCEPT !.pc = pc].pc = pc
    <2>1. newJob \in JobRec
      BY DEF newJob, JobRec
    <2> HIDE DEF pc
    <2> QED
      BY <1>6, <2>1 DEF JobRec
  <1>8. job' \in [Queries -> JobRec] /\ job'[i].pc = pc /\ \A k \in Queries : k # i => job'[k] = job[k]
    <2> DEFINE y == [newJob EXCEPT !.pc = pc]
    <2>1. y \in JobRec /\ y.pc = pc /\ job' = [job EXCEPT ![i] = y]
      BY <1>2, <1>7
    <2> HIDE DEF y, pc
    <2> QED
      BY <1>1, <2>1
  <1>9. tcpConn' \in [open : BOOLEAN, late : BOOLEAN, at : Nat]
    <2> HIDE DEF sent, tcp
    <2> QED
      BY <1>1, <1>2, <1>6
  <1>10. sent => job[i].pc = "answer"
    OBVIOUS
  <1>11. pc = "answered" <=> sent
    <2> HIDE DEF sent
    <2> QED
      OBVIOUS
  <1> HIDE DEF sent, pc
  <1>12. /\ responses' \in Seq(FullAnswer)
         /\ \A k \in 1..L : k \in DOMAIN responses' /\ responses'[k] = responses[k]
         /\ \A k \in DOMAIN responses' : k \in 1..L \/ (sent /\ k = L + 1 /\ responses'[k] = r)
    <2>1. CASE sent
      <3>1. r \in FullAnswer /\ responses' = Append(responses, r)
        BY <1>2, <1>3, <1>10, <2>1
      <3> HIDE DEF r, L
      <3>2. /\ responses' \in Seq(FullAnswer) /\ DOMAIN responses' = 1..(Len(responses) + 1)
            /\ \A k \in 1..Len(responses) : responses'[k] = responses[k]
            /\ responses'[Len(responses) + 1] = r
        BY <1>1, <3>1
      <3> QED
        BY <1>a, <2>1, <3>2 DEF L
    <2>2. CASE ~sent
      BY <1>1, <1>2, <1>a, <2>2
    <2> QED
      BY <2>1, <2>2
  <1> HIDE DEF L
  <1>13. Learned \subseteq Learned'
    BY <1>2 DEF Learned
  <1>14. DNSTypes'
    BY <1>2, <1>5, <1>8, <1>9, <1>12 DEF AnswerInv, DNSTypes
  <1>15. \A k \in Queries' : QueryInv(k)'
    <2> SUFFICES ASSUME NEW k \in Queries PROVE QueryInv(k)'
      BY <1>5
    <2>1. CASE k = i
      BY <1>2, <1>3, <1>6, <1>8, <2>1 DEF QueryInv
    <2>2. CASE k # i
      BY <1>2, <1>4, <1>8, <1>13, <2>2, QueryStays
    <2> QED
      BY <2>1, <2>2
  <1>16. OnTCP \subseteq Queries /\ (i \in OnTCP <=> tcp)
    BY DEF OnTCP
  <1>17. ConnInv'
    <2>1. \A k \in OnTCP : job'[k].pc = "wait" <=> job[k].pc = "wait"
      BY <1>2, <1>6, <1>8, <1>16
    <2>2. \A k \in OnTCP : job'[k].pc \notin AtRest => k # i /\ job[k].pc \notin AtRest
      BY <1>6, <1>8, <1>16 DEF AtRest
    <2>3. \A k \in OnTCP : job'[k].pc \notin AtRest => k = tcpConn'.at
      <3> SUFFICES ASSUME NEW k \in OnTCP, job'[k].pc \notin AtRest PROVE k = tcpConn'.at
        OBVIOUS
      <3>1. k # i /\ k = tcpConn.at
        BY <2>2 DEF AnswerInv, ConnInv
      <3>2. ~tcp
        <4>1. i \in OnTCP => i = tcpConn.at
          BY <1>2 DEF AnswerInv, ConnInv, AtRest
        <4> QED
          BY <1>16, <3>1, <4>1
      <3> QED
        BY <1>2, <3>1, <3>2
    <2> QED
      BY <1>5, <2>1, <2>2, <2>3 DEF AnswerInv, ConnInv
  <1>18. GivenInv'
    <2>1. \A k \in 1..L : responses[k].for \in Queries /\ job[responses[k].for].pc = "answered" /\ responses[k].for # i
      BY <1>2, <1>a DEF AnswerInv, GivenInv
    <2>2. \A k \in 1..L : RightFor(responses[k].for, responses[k])'
      <3> SUFFICES ASSUME NEW k \in 1..L PROVE RightFor(responses[k].for, responses[k])'
        OBVIOUS
      <3>1. RightFor(responses[k].for, responses[k]) /\ responses'[k] = responses[k]
        BY <1>a, <1>12 DEF AnswerInv, GivenInv
      <3> QED
        BY <1>2, <1>13, <3>1, GivenStays
    <2>3. ASSUME sent PROVE job'[i].pc = "answered" /\ r.for = i
      BY <1>3, <1>8, <1>10, <1>11, <2>3
    <2>4. ASSUME NEW k \in DOMAIN responses', k \notin 1..L PROVE RightFor(responses[k].for, responses[k])'
      <3>1. sent /\ responses'[k] = r
        BY <1>12, <2>4
      <3>2. r.for = i /\ RightFor(i, r)
        BY <1>3, <1>10, <3>1
      <3>3. PICK a : a = r
        OBVIOUS
      <3>4. RightFor(i, a)'
        BY <1>2, <1>13, <3>2, <3>3, RightStays
      <3>5. responses'[k] = a /\ responses'[k].for = i
        BY <3>1, <3>2, <3>3
      <3> QED
        BY <3>4, <3>5 DEF RightFor, FromUpstream
    <2>5. \A k \in DOMAIN responses' :
            responses'[k].for \in Queries /\ job'[responses'[k].for].pc = "answered" /\ RightFor(responses[k].for, responses[k])'
      <3> SUFFICES ASSUME NEW k \in DOMAIN responses'
                   PROVE  responses'[k].for \in Queries /\ job'[responses'[k].for].pc = "answered" /\ RightFor(responses[k].for, responses[k])'
        OBVIOUS
      <3>1. CASE k \in 1..L
        BY <1>8, <1>12, <2>1, <2>2, <3>1
      <3>2. CASE k \notin 1..L
        <4>1. sent /\ responses'[k] = r
          BY <1>12, <3>2
        <4> QED
          BY <2>3, <2>4, <3>2, <4>1
      <3> QED
        BY <3>1, <3>2
    <2>6. ASSUME NEW j \in DOMAIN responses', NEW k \in DOMAIN responses', j # k
          PROVE  responses'[j].for # responses'[k].for
      <3>1. CASE j \in 1..L /\ k \in 1..L
        BY <1>a, <1>12, <2>6, <3>1 DEF AnswerInv, GivenInv
      <3>2. CASE j \in 1..L /\ k \notin 1..L
        BY <1>12, <2>1, <2>3, <3>2
      <3>3. CASE j \notin 1..L /\ k \in 1..L
        BY <1>12, <2>1, <2>3, <3>3
      <3>4. CASE j \notin 1..L /\ k \notin 1..L
        BY <1>12, <2>6, <3>4
      <3> QED
        BY <3>1, <3>2, <3>3, <3>4
    <2>7. ASSUME NEW j \in DOMAIN responses', NEW k \in DOMAIN responses', j < k,
                 responses'[j].for \in OnTCP, responses'[k].for \in OnTCP
          PROVE  responses'[j].for < responses'[k].for
      <3>0. (j \in 1..L \/ j = L + 1) /\ (k \in 1..L \/ k = L + 1)
        BY <1>12
      <3>1. CASE j \in 1..L /\ k \in 1..L
        BY <1>a, <1>12, <2>7, <3>1 DEF AnswerInv, GivenInv
      <3>2. CASE ~(j \in 1..L /\ k \in 1..L)
        <4>1. k = L + 1 /\ j \in 1..L /\ k \notin 1..L
          BY <1>a, <2>7, <3>0, <3>2
        <4>2. sent /\ responses'[k] = r /\ r.for = i
          BY <1>12, <2>3, <4>1
        <4> DEFINE f == responses[j].for
        <4>3. f \in Queries /\ job[f].pc = "answered" /\ f # i /\ responses'[j].for = f
          BY <1>12, <2>1, <4>1
        <4>4. f <= i
          <5>1. f \in OnTCP /\ i \in OnTCP /\ job[f].pc # "wait" /\ job[i].pc \notin AtRest
            BY <1>2, <2>7, <4>2, <4>3 DEF AtRest
          <5> HIDE DEF f
          <5> QED
            BY <5>1 DEF AnswerInv, ConnInv
        <4>5. f \in Nat /\ i \in Nat
          BY <1>4, <4>3
        <4> HIDE DEF f
        <4>6. f < i
          BY <4>3, <4>4, <4>5
        <4> QED
          BY <4>2, <4>3, <4>6
      <3> QED
        BY <3>1, <3>2
    <2> QED
      BY <1>5, <2>5, <2>6, <2>7 DEF GivenInv
  <1>19. TTLsRight'
    BY <1>2 DEF AnswerInv, TTLsRight
  <1> QED
    BY <1>14, <1>15, <1>17, <1>18, <1>19 DEF AnswerInv

\* Whatever the queries, the rules and the upstreams, and however the handlers
\* of the queries interleave, every client that gets an answer gets the right
\* one to its own query, once.
THEOREM QueriesAnsweredRight == DNSInit /\ [][DNSNext]_dnsVars => []AnswersRight
  <1>1. AnswerInv /\ [DNSNext]_dnsVars => AnswerInv'
    <2> SUFFICES ASSUME AnswerInv, [DNSNext]_dnsVars PROVE AnswerInv'
      OBVIOUS
    <2>1. CASE ReadTCP
      BY <2>1, ReadTCPStep
    <2>2. CASE ListenUDP \/ ListenTCP \/ StartServing \/ StopServing \/ TCPEnds \/ TCPLate
      BY <2>2, SocketStep
    <2>3. ASSUME NEW i \in Queries,
                 \/ ReadUDP(i) \/ Handle(i) \/ ExchangeTCP(i) \/ ExchangeUDP(i) \/ ExchangeFails(i)
                 \/ See(i) \/ Write(i)
          PROVE  AnswerInv'
      BY <2>3, ReadUDPStep, HandleStep, ExchangeTCPStep, ExchangeUDPStep, ExchangeFailsStep, SeeStep, WriteStep
    <2>4. CASE UNCHANGED dnsVars
      <3>1. UNCHANGED <<front, job, responses, observed, tcpConn, serving>>
        BY <2>4 DEF dnsVars
      <3>2. tcpConn \in [open : BOOLEAN, late : BOOLEAN, at : Nat] /\ (serving # "no" => Upstreams # <<>>)
        BY DEF AnswerInv, DNSTypes
      <3> QED
        BY <3>1, <3>2, QuietStep
    <2> QED
      BY <2>1, <2>2, <2>3, <2>4 DEF DNSNext, DNSStep
  <1> QED
    BY QueriesStart, AnswerInvSays, <1>1, PTL

-----------------------------------------------------------------------------
(* Resolving at an exit: what is served was so not long ago.               *)

ZoneRec == [changes : Nat, family : SUBSET RecordTypes, ttl : Nat, faults : Nat, until : Nat]
QueryRec == [state : {"ask", "again", "ok", "error"}, val : Nat, ttl : Nat]
LookRec == [pc : {"idle", "ask", "done"}, begun : Nat, got : [RecordTypes -> QueryRec], val : [RecordTypes -> Nat], whole : BOOLEAN]

DoHTypeOK ==
  /\ plan \in ZoneRec
  /\ zone \in [RecordTypes -> Nat]
  /\ now \in Nat \ {0}
  /\ held \in [RecordTypes -> [1..now -> SUBSET Nat]]
  /\ cache \in [val : [RecordTypes -> Nat], expires : Nat]
  /\ look \in [Lookups -> LookRec]

\* Since the time `from`, the records of family f were v.
HeldSince(f, v, from) == \E t \in 1..now : t >= from /\ v \in held[f][t]

\* A lookup that asks began in this unit of time or in the one before; an
\* answer it has was true since; what another has returned was true within
\* the longest TTL and one unit more.
AskingTrue(l) ==
  look[l].pc = "ask" =>
    /\ 1 <= look[l].begun /\ look[l].begun <= now /\ now <= look[l].begun + 1
    /\ \A f \in RecordTypes : look[l].got[f].state \in {"ask", "again"} => look[l].got[f].val = 0
    /\ \A f \in RecordTypes :
         look[l].got[f].val # 0 \/ look[l].got[f].state = "ok" => HeldSince(f, look[l].got[f].val, look[l].begun)
ReturnedTrue(l) ==
  look[l].pc = "done" =>
    \A f \in RecordTypes : look[l].val[f] # 0 \/ look[l].whole => HeldSince(f, look[l].val[f], look[l].begun - MaxTTL - 1)
\* The entry ends the longest TTL after it was stored at the latest, and was
\* true a unit of time before that.
EntryTrue ==
  cache.expires > 0 => \A f \in RecordTypes : HeldSince(f, cache.val[f], cache.expires - MaxTTL - 1)

ResolveInv ==
  /\ DoHTypeOK
  /\ \A f \in RecordTypes : zone[f] \in held[f][now]
  /\ \A l \in Lookups : AskingTrue(l) /\ ReturnedTrue(l)
  /\ EntryTrue

\* The greater of what the code compares.
LEMMA MaxOfTwo ==
  ASSUME NEW a \in Int, NEW b \in Int
  PROVE  /\ Max({a, b}) \in {a, b}
         /\ a <= Max({a, b}) /\ b <= Max({a, b})
  <1>1. \E x \in {a, b} : \A y \in {a, b} : x >= y
    <2>1. CASE a >= b
      BY <2>1
    <2>2. CASE b >= a
      BY <2>2
    <2> QED
      BY <2>1, <2>2
  <1>2. Max({a, b}) \in {a, b} /\ \A y \in {a, b} : Max({a, b}) >= y
    BY <1>1 DEF Max
  <1> QED
    BY <1>2

\* No entry is kept longer than maxCacheTTL.
LEMMA ClampBounds ==
  ASSUME NEW ttl \in Nat
  PROVE  Clamp(ttl) \in Nat /\ Clamp(ttl) <= MaxTTL
  <1>1. MinTTL \in Nat /\ MaxTTL \in Nat
    BY DoHAssumption DEF DoHAssumption
  <1> DEFINE x == Max({ttl, MinTTL})
  <1>2. x \in Nat
    <2>1. ttl \in Int /\ MinTTL \in Int
      BY <1>1
    <2>2. Max({ttl, MinTTL}) \in {ttl, MinTTL}
      BY <2>1, MaxOfTwo
    <2> QED
      BY <1>1, <2>2
  <1> HIDE DEF x
  <1>3. Min({x, MaxTTL}) \in {x, MaxTTL} /\ Min({x, MaxTTL}) <= MaxTTL
    BY <1>1, <1>2, MinIsLeast
  <1>4. Clamp(ttl) = Min({x, MaxTTL})
    BY DEF Clamp, x
  <1> QED
    BY <1>1, <1>2, <1>3, <1>4

\* What happens to the record does not undo what it says.
LEMMA HeldOn ==
  ASSUME ResolveInv, DoHTypeOK',
         now' >= now,
         \A f \in RecordTypes, t \in 1..now : held[f][t] \subseteq held'[f][t],
         NEW f \in RecordTypes, NEW v, NEW from, HeldSince(f, v, from)
  PROVE  HeldSince(f, v, from)'
  <1>1. PICK t \in 1..now : t >= from /\ v \in held[f][t]
    BY DEF HeldSince
  <1>2. now \in Nat /\ now' \in Nat
    BY DEF ResolveInv, DoHTypeOK
  <1>3. t \in 1..now'
    BY <1>1, <1>2
  <1>4. v \in held'[f][t]
    BY <1>1
  <1> QED
    BY <1>1, <1>3, <1>4 DEF HeldSince

\* So a lookup which a step leaves alone keeps what it says, unless its time
\* is over; and the entry too.
LEMMA LookOn ==
  ASSUME ResolveInv, DoHTypeOK',
         now' >= now,
         \A f \in RecordTypes, t \in 1..now : held[f][t] \subseteq held'[f][t],
         NEW l \in Lookups, look'[l] = look[l],
         look[l].pc = "ask" => now' <= look[l].begun + 1
  PROVE  AskingTrue(l)' /\ ReturnedTrue(l)'
  <1>1. AskingTrue(l) /\ ReturnedTrue(l)
    BY DEF ResolveInv
  <1>2. now \in Nat /\ now' \in Nat /\ look[l].begun \in Nat
    BY DEF ResolveInv, DoHTypeOK, LookRec
  <1>3. AskingTrue(l)'
    <2>1. SUFFICES ASSUME look[l].pc = "ask"
                   PROVE  /\ 1 <= look[l].begun /\ look[l].begun <= now' /\ now' <= look[l].begun + 1
                          /\ \A f \in RecordTypes : look[l].got[f].state \in {"ask", "again"} => look[l].got[f].val = 0
                          /\ \A f \in RecordTypes :
                               look[l].got[f].val # 0 \/ look[l].got[f].state = "ok" => HeldSince(f, look[l].got[f].val, look[l].begun)'
      BY DEF AskingTrue, HeldSince
    <2>2. /\ 1 <= look[l].begun /\ look[l].begun <= now' /\ now' <= look[l].begun + 1
          /\ \A f \in RecordTypes : look[l].got[f].state \in {"ask", "again"} => look[l].got[f].val = 0
      BY <1>1, <1>2, <2>1 DEF AskingTrue
    <2>3. ASSUME NEW f \in RecordTypes, look[l].got[f].val # 0 \/ look[l].got[f].state = "ok"
          PROVE  HeldSince(f, look[l].got[f].val, look[l].begun)'
      <3>1. HeldSince(f, look[l].got[f].val, look[l].begun)
        BY <1>1, <2>1, <2>3 DEF AskingTrue
      <3> DEFINE v == look[l].got[f].val
                 b == look[l].begun
      <3>2. v = v' /\ b = b'
        OBVIOUS
      <3> HIDE DEF v, b
      <3>3. \E t \in 1..now' : t >= b /\ v \in held'[f][t]
        <4>1. PICK t \in 1..now : t >= b /\ v \in held[f][t]
          BY <3>1 DEF HeldSince, v, b
        <4> QED
          BY <1>2, <4>1
      <3> QED
        BY <3>2, <3>3 DEF HeldSince, v, b
    <2> QED
      BY <2>2, <2>3
  <1>4. ReturnedTrue(l)'
    <2>1. SUFFICES ASSUME look'[l].pc = "done", NEW f \in RecordTypes, look'[l].val[f] # 0 \/ look'[l].whole
                   PROVE  HeldSince(f, look[l].val[f], look[l].begun - MaxTTL - 1)'
      BY DEF ReturnedTrue
    <2>2. PICK t \in 1..now : t >= look[l].begun - MaxTTL - 1 /\ look[l].val[f] \in held[f][t]
      BY <1>1, <2>1 DEF ReturnedTrue, HeldSince
    <2>3. t \in 1..now' /\ look[l].val[f] \in held'[f][t]
      BY <1>2, <2>2
    <2> QED
      BY <2>2, <2>3 DEF HeldSince
  <1> QED
    BY <1>3, <1>4

\* An entry that was true stays true while time only passes.
LEMMA EntryOn ==
  ASSUME ResolveInv, DoHTypeOK',
         now' >= now,
         \A f \in RecordTypes, t \in 1..now : held[f][t] \subseteq held'[f][t],
         cache' = cache
  PROVE  EntryTrue'
  <1>1. SUFFICES ASSUME cache.expires > 0, NEW f \in RecordTypes
                 PROVE  HeldSince(f, cache.val[f], cache.expires - MaxTTL - 1)'
    BY DEF EntryTrue
  <1>2. PICK t \in 1..now : t >= cache.expires - MaxTTL - 1 /\ cache.val[f] \in held[f][t]
    BY <1>1 DEF ResolveInv, EntryTrue, HeldSince
  <1>3. t \in 1..now'
    BY <1>2 DEF ResolveInv, DoHTypeOK
  <1> QED
    BY <1>2, <1>3 DEF HeldSince

\* A step of one lookup, which leaves the records and the time alone.
LEMMA OneLooks ==
  ASSUME ResolveInv, NEW l \in Lookups, NEW r \in LookRec,
         plan' \in ZoneRec,
         cache' \in [val : [RecordTypes -> Nat], expires : Nat],
         UNCHANGED <<zone, held, now>>,
         look' = [look EXCEPT ![l] = r],
         AskingTrue(l)', ReturnedTrue(l)', EntryTrue'
  PROVE  ResolveInv'
  <1>1. look' \in [Lookups -> LookRec]
    BY DEF ResolveInv, DoHTypeOK
  <1>2. DoHTypeOK'
    BY <1>1 DEF ResolveInv, DoHTypeOK
  <1>3. now' >= now /\ \A f \in RecordTypes, t \in 1..now : held[f][t] \subseteq held'[f][t]
    BY DEF ResolveInv, DoHTypeOK
  <1>4. ASSUME NEW k \in Lookups PROVE AskingTrue(k)' /\ ReturnedTrue(k)'
    <2>1. CASE k = l
      BY <2>1
    <2>2. CASE k # l
      <3>1. look'[k] = look[k]
        BY <2>2 DEF ResolveInv, DoHTypeOK
      <3>2. look[k].pc = "ask" => now' <= look[k].begun + 1
        BY DEF ResolveInv, AskingTrue
      <3> QED
        BY <1>2, <1>3, <3>1, <3>2, LookOn
    <2> QED
      BY <2>1, <2>2
  <1>5. \A f \in RecordTypes : zone'[f] \in held'[f][now']
    BY DEF ResolveInv
  <1> QED
    BY <1>2, <1>4, <1>5 DEF ResolveInv

\* What is left to a scenario.
LEMMA Spent ==
  ASSUME NEW p \in ZoneRec
  PROVE  /\ p.faults > 0 => [p EXCEPT !.faults = @ - 1] \in ZoneRec
         /\ p.changes > 0 => [p EXCEPT !.changes = @ - 1] \in ZoneRec
  <1>1. p.faults \in Nat /\ p.changes \in Nat
    BY DEF ZoneRec
  <1>2. /\ p.faults > 0 => p.faults - 1 \in Nat
        /\ p.changes > 0 => p.changes - 1 \in Nat
    BY <1>1
  <1> DEFINE x == p.faults - 1
             y == p.changes - 1
  <1>3. /\ x \in Nat => [p EXCEPT !.faults = x] \in ZoneRec
        /\ y \in Nat => [p EXCEPT !.changes = y] \in ZoneRec
    <2> HIDE DEF x, y
    <2> QED
      BY DEF ZoneRec
  <1> QED
    BY <1>2, <1>3

\* A lookup starts: a live entry is returned as it is, otherwise both families
\* are asked for.
LEMMA LookedUp ==
  ASSUME ResolveInv, NEW l \in Lookups, Lookup(l)
  PROVE  ResolveInv'
  <1> DEFINE hit == [idleLook EXCEPT !.pc = "done", !.begun = now, !.val = cache.val, !.whole = TRUE]
             ask == [idleLook EXCEPT !.pc = "ask", !.begun = now]
  <1>1. /\ now \in Nat \ {0} /\ cache.val \in [RecordTypes -> Nat] /\ cache.expires \in Nat
        /\ look \in [Lookups -> LookRec] /\ MaxTTL \in Nat
    BY DoHAssumption DEF ResolveInv, DoHTypeOK, DoHAssumption
  <1>2. EntryTrue' /\ UNCHANGED <<plan, zone, held, now, cache>>
    BY DEF Lookup, ResolveInv, EntryTrue, HeldSince
  <1>3. CASE now < cache.expires
    <2>1. look' = [look EXCEPT ![l] = hit]
      BY <1>3 DEF Lookup
    <2>2. /\ hit.pc = "done" /\ hit.begun = now /\ hit.val = cache.val /\ hit \in LookRec
      BY <1>1 DEF idleLook, unasked, LookRec, QueryRec
    <2> HIDE DEF hit
    <2>3. look'[l] = hit
      BY <1>1, <2>1
    <2>4. AskingTrue(l)'
      BY <2>2, <2>3 DEF AskingTrue
    <2>5. ReturnedTrue(l)'
      <3>1. SUFFICES ASSUME NEW f \in RecordTypes
                     PROVE  HeldSince(f, cache.val[f], now - MaxTTL - 1)'
        BY <1>2, <2>2, <2>3 DEF ReturnedTrue, HeldSince
      <3>2. PICK t \in 1..now : t >= cache.expires - MaxTTL - 1 /\ cache.val[f] \in held[f][t]
        BY <1>1, <1>3 DEF ResolveInv, EntryTrue, HeldSince
      <3>3. t >= now - MaxTTL - 1
        BY <1>1, <1>3, <3>2
      <3> QED
        BY <1>2, <3>2, <3>3 DEF HeldSince
    <2> QED
      BY <1>2, <2>1, <2>2, <2>4, <2>5, OneLooks DEF ResolveInv, DoHTypeOK
  <1>4. CASE ~(now < cache.expires)
    <2>1. look' = [look EXCEPT ![l] = ask]
      BY <1>4 DEF Lookup
    <2>2. /\ ask.pc = "ask" /\ ask.begun = now /\ ask \in LookRec
          /\ \A f \in RecordTypes : ask.got[f].val = 0 /\ ask.got[f].state = "ask"
      BY <1>1 DEF idleLook, unasked, LookRec, QueryRec
    <2> HIDE DEF ask
    <2>3. look'[l] = ask
      BY <1>1, <2>1
    <2>4. AskingTrue(l)' /\ ReturnedTrue(l)'
      BY <1>1, <1>2, <2>2, <2>3 DEF AskingTrue, ReturnedTrue
    <2> QED
      BY <1>2, <2>1, <2>2, <2>4, OneLooks DEF ResolveInv, DoHTypeOK
  <1> QED
    BY <1>3, <1>4

\* An answer is what the zone holds now.
LEMMA AnswerTaken ==
  ASSUME ResolveInv, NEW l \in Lookups, NEW f \in RecordTypes, NEW q \in QueryRec,
         look[l].pc = "ask",
         q.val # 0 \/ q.state = "ok" => q.val = zone[f],
         q.state \in {"ask", "again"} => q.val = 0,
         plan' \in ZoneRec,
         look' = [look EXCEPT ![l].got[f] = q],
         UNCHANGED <<zone, held, now, cache>>
  PROVE  ResolveInv'
  <1> DEFINE r == [look[l] EXCEPT !.got[f] = q]
  <1>1. look[l] \in LookRec /\ look \in [Lookups -> LookRec] /\ now \in Nat \ {0}
    BY DEF ResolveInv, DoHTypeOK
  <1>2. look' = [look EXCEPT ![l] = r]
    BY <1>1
  <1>3. /\ r.pc = "ask" /\ r.begun = look[l].begun /\ r \in LookRec /\ r.got[f] = q
        /\ \A g \in RecordTypes \ {f} : r.got[g] = look[l].got[g]
    BY <1>1 DEF LookRec
  <1> HIDE DEF r
  <1>4. look'[l] = r
    BY <1>1, <1>2
  <1>5. EntryTrue'
    BY DEF ResolveInv, EntryTrue, HeldSince
  <1>6. AskingTrue(l)' /\ ReturnedTrue(l)'
    <2>1. AskingTrue(l)
      BY DEF ResolveInv
    <2>2. 1 <= r.begun /\ r.begun <= now /\ now <= r.begun + 1
      BY <1>3, <2>1 DEF AskingTrue
    <2>4. ASSUME NEW g \in RecordTypes, r.got[g].state \in {"ask", "again"}
          PROVE  r.got[g].val = 0
      BY <1>3, <2>1, <2>4 DEF AskingTrue
    <2>3. ASSUME NEW g \in RecordTypes, r.got[g].val # 0 \/ r.got[g].state = "ok"
          PROVE  HeldSince(g, r.got[g].val, r.begun)
      <3>1. CASE g = f
        <4>1. r.got[g].val \in held[g][now]
          BY <1>3, <2>3, <3>1 DEF ResolveInv
        <4>2. now \in 1..now /\ now >= r.begun
          BY <1>1, <2>2
        <4> QED
          BY <4>1, <4>2 DEF HeldSince
      <3>2. CASE g # f
        BY <1>3, <2>1, <2>3, <3>2 DEF AskingTrue
      <3> QED
        BY <3>1, <3>2
    <2> QED
      BY <1>3, <1>4, <2>2, <2>3, <2>4 DEF AskingTrue, ReturnedTrue, HeldSince
  <1> QED
    BY <1>2, <1>3, <1>5, <1>6, OneLooks DEF ResolveInv, DoHTypeOK

\* A query gets the records that are held now.
LEMMA QueryAnswered ==
  ASSUME ResolveInv, NEW l \in Lookups, NEW f \in RecordTypes, QueryAnswers(l, f)
  PROVE  ResolveInv'
  <1> DEFINE ttl == IF zone[f] = 0 THEN MaxTTL ELSE Min({plan.ttl, MaxTTL})
             q == [state |-> IF Exists THEN "ok" ELSE "error", val |-> zone[f], ttl |-> ttl]
  <1>1. ttl \in Nat
    <2>1. MaxTTL \in Nat /\ plan.ttl \in Nat
      BY DoHAssumption DEF ResolveInv, DoHTypeOK, DoHAssumption, ZoneRec
    <2>2. Min({plan.ttl, MaxTTL}) \in {plan.ttl, MaxTTL}
      BY <2>1, MinIsLeast
    <2> QED
      BY <2>1, <2>2
  <1>2. look' = [look EXCEPT ![l].got[f] = q]
    BY DEF QueryAnswers
  <1> HIDE DEF ttl
  <1>3. zone[f] \in Nat
    BY DEF ResolveInv, DoHTypeOK
  <1>4. q \in QueryRec /\ q.val = zone[f] /\ q.state \in {"ok", "error"}
    BY <1>1, <1>3 DEF QueryRec
  <1> HIDE DEF q
  <1> QED
    BY <1>2, <1>4, AnswerTaken DEF QueryAnswers, ResolveInv, DoHTypeOK

\* A query fails, and is asked once more.
LEMMA QueryFailed ==
  ASSUME ResolveInv, NEW l \in Lookups, NEW f \in RecordTypes, QueryFails(l, f)
  PROVE  ResolveInv'
  <1> DEFINE q == [look[l].got[f] EXCEPT !.state = IF @ = "ask" THEN "again" ELSE "error"]
  <1>1. look \in [Lookups -> LookRec] /\ look[l].got \in [RecordTypes -> QueryRec]
    BY DEF ResolveInv, DoHTypeOK, LookRec
  <1>2. look' = [look EXCEPT ![l].got[f] = q]
    BY <1>1 DEF QueryFails
  <1>3. q \in QueryRec /\ q.state # "ok" /\ q.val = look[l].got[f].val
    BY <1>1 DEF QueryRec
  <1>4. q.val = 0
    BY <1>3 DEF QueryFails, ResolveInv, AskingTrue
  <1> HIDE DEF q
  <1>5. plan' \in ZoneRec
    BY Spent DEF QueryFails, ResolveInv, DoHTypeOK
  <1> QED
    BY <1>2, <1>3, <1>4, <1>5, AnswerTaken DEF QueryFails

\* A lookup without any answer returns none and stores none.
LEMMA LookFailed ==
  ASSUME ResolveInv, NEW l \in Lookups, LookupFails(l)
  PROVE  ResolveInv'
  <1>1. idleLook \in LookRec /\ idleLook.pc = "idle"
    BY DEF idleLook, unasked, LookRec, QueryRec
  <1>2. look' = [look EXCEPT ![l] = idleLook] /\ look'[l] = idleLook
    BY DEF LookupFails, ResolveInv, DoHTypeOK
  <1>3. EntryTrue' /\ AskingTrue(l)' /\ ReturnedTrue(l)'
    BY <1>1, <1>2 DEF LookupFails, ResolveInv, EntryTrue, HeldSince, AskingTrue, ReturnedTrue
  <1> QED
    BY <1>1, <1>2, <1>3, OneLooks DEF LookupFails, ResolveInv, DoHTypeOK

\* What is stored is what both queries said, and ends in time.
LEMMA Stored ==
  ASSUME ResolveInv, NEW l \in Lookups, Both(l)
  PROVE  /\ Values(l) \in [RecordTypes -> Nat]
         /\ \A f \in RecordTypes :
              Values(l)[f] # 0 \/ Errors(l) = {} => HeldSince(f, Values(l)[f], look[l].begun)
         /\ Entry(l) \in [val : [RecordTypes -> Nat], expires : Nat]
         /\ Entry(l).val = Values(l) /\ Entry(l).expires <= now + MaxTTL
  <1>1. /\ look \in [Lookups -> LookRec] /\ look[l].got \in [RecordTypes -> QueryRec] /\ now \in Nat
        /\ MaxTTL \in Nat
    BY DoHAssumption DEF ResolveInv, DoHTypeOK, LookRec, DoHAssumption
  <1>2. Values(l) \in [RecordTypes -> Nat]
    BY <1>1 DEF Values, QueryRec
  <1>3. ASSUME NEW f \in RecordTypes, Values(l)[f] # 0 \/ Errors(l) = {}
        PROVE  HeldSince(f, Values(l)[f], look[l].begun)
    <2>1. Values(l)[f] = look[l].got[f].val
      BY DEF Values
    <2>2. look[l].got[f].val # 0 \/ look[l].got[f].state = "ok"
      BY <1>3, <2>1 DEF Both, Errors
    <2> QED
      BY <2>1, <2>2 DEF Both, ResolveInv, AskingTrue
  <1> DEFINE T == {MaxTTL} \cup {look[l].got[f].ttl : f \in WithRecords(l)}
  <1>4. Min(T) \in Nat
    <2>1. T \subseteq Nat /\ T # {}
      BY <1>1 DEF WithRecords, QueryRec
    <2> HIDE DEF T
    <2> QED
      BY <2>1, MinIsLeast
  <1>5. Entry(l) = [val |-> Values(l), expires |-> now + Clamp(Min(T))]
    BY DEF Entry
  <1> HIDE DEF T
  <1>6. Clamp(Min(T)) \in Nat /\ Clamp(Min(T)) <= MaxTTL
    BY <1>4, ClampBounds
  <1> QED
    BY <1>1, <1>2, <1>3, <1>5, <1>6

\* A lookup returns what it has, and stores it if both queries were answered.
LEMMA StoredBoth ==
  ASSUME ResolveInv, NEW l \in Lookups, Store(l)
  PROVE  ResolveInv'
  <1> DEFINE whole == Errors(l) = {}
             r == [idleLook EXCEPT !.pc = "done", !.begun = look[l].begun, !.val = Values(l), !.whole = whole]
  <1>1. /\ look \in [Lookups -> LookRec] /\ look[l].begun \in Nat /\ now \in Nat /\ MaxTTL \in Nat
        /\ Values(l) \in [RecordTypes -> Nat] /\ cache \in [val : [RecordTypes -> Nat], expires : Nat]
    BY Stored, DoHAssumption DEF ResolveInv, DoHTypeOK, LookRec, DoHAssumption, Store
  <1>2. look' = [look EXCEPT ![l] = r]
    BY DEF Store, Done
  <1>3. r.pc = "done" /\ r.begun = look[l].begun /\ r.val = Values(l) /\ r.whole = whole /\ r \in LookRec
    BY <1>1 DEF idleLook, unasked, LookRec, QueryRec
  <1> HIDE DEF r
  <1>4. look'[l] = r
    BY <1>1, <1>2
  <1>5. UNCHANGED <<plan, zone, held, now>> /\ cache' = (IF whole THEN Entry(l) ELSE cache)
    BY DEF Store
  <1>6. \A f \in RecordTypes : Values(l)[f] # 0 \/ whole => HeldSince(f, Values(l)[f], look[l].begun)
    BY Stored DEF Store
  <1>7. now <= look[l].begun + 1
    BY DEF Store, Both, ResolveInv, AskingTrue
  <1>8. AskingTrue(l)' /\ ReturnedTrue(l)'
    <2>1. SUFFICES ASSUME NEW f \in RecordTypes, Values(l)[f] # 0 \/ whole
                   PROVE  HeldSince(f, Values(l)[f], look[l].begun - MaxTTL - 1)
      BY <1>3, <1>4, <1>5 DEF AskingTrue, ReturnedTrue, HeldSince
    <2>2. PICK t \in 1..now : t >= look[l].begun /\ Values(l)[f] \in held[f][t]
      BY <1>6, <2>1 DEF HeldSince
    <2>3. t >= look[l].begun - MaxTTL - 1
      BY <1>1, <2>2
    <2> QED
      BY <2>2, <2>3 DEF HeldSince
  <1>9. EntryTrue'
    <2>1. CASE whole
      <3>1. /\ cache'.val = Values(l) /\ cache'.expires <= now + MaxTTL /\ cache'.expires \in Nat
        BY <1>5, <2>1, Stored DEF Store
      <3>2. SUFFICES ASSUME NEW f \in RecordTypes
                     PROVE  HeldSince(f, Values(l)[f], cache'.expires - MaxTTL - 1)
        BY <1>5, <3>1 DEF EntryTrue, HeldSince
      <3>3. PICK t \in 1..now : t >= look[l].begun /\ Values(l)[f] \in held[f][t]
        BY <1>6, <2>1 DEF HeldSince
      <3>4. t >= cache'.expires - MaxTTL - 1
        BY <1>1, <1>7, <3>1, <3>3
      <3> QED
        BY <3>3, <3>4 DEF HeldSince
    <2>2. CASE ~whole
      BY <1>5, <2>2 DEF ResolveInv, EntryTrue, HeldSince
    <2> QED
      BY <2>1, <2>2
  <1>10. cache' \in [val : [RecordTypes -> Nat], expires : Nat]
    BY <1>1, <1>5, Stored DEF Store
  <1> QED
    BY <1>2, <1>3, <1>5, <1>8, <1>9, <1>10, OneLooks DEF ResolveInv, DoHTypeOK

\* The name's owner changes the records: what was held is remembered.
LEMMA Changed ==
  ASSUME ResolveInv, Change
  PROVE  ResolveInv'
  <1>1. PICK f \in plan.family, v \in {0, now + 1} :
          zone' = [zone EXCEPT ![f] = v] /\ held' = [held EXCEPT ![f][now] = @ \cup {v}]
    BY DEF Change
  <1>2. /\ now \in Nat \ {0} /\ f \in RecordTypes /\ v \in Nat /\ now \in 1..now
        /\ held \in [RecordTypes -> [1..now -> SUBSET Nat]]
    BY DEF ResolveInv, DoHTypeOK, ZoneRec
  <1>3. UNCHANGED <<now, cache, look>>
    BY DEF Change
  <1>4. held' \in [RecordTypes -> [1..now -> SUBSET Nat]]
    BY <1>1, <1>2
  <1>5. zone' \in [RecordTypes -> Nat]
    BY <1>1, <1>2 DEF ResolveInv, DoHTypeOK
  <1>6. plan' \in ZoneRec
    BY Spent DEF Change, ResolveInv, DoHTypeOK
  <1>7. DoHTypeOK'
    BY <1>3, <1>4, <1>5, <1>6 DEF ResolveInv, DoHTypeOK
  <1>8. now' >= now /\ \A g \in RecordTypes, t \in 1..now : held[g][t] \subseteq held'[g][t]
    BY <1>1, <1>2, <1>3
  <1>9. ASSUME NEW l \in Lookups PROVE AskingTrue(l)' /\ ReturnedTrue(l)'
    <2>1. look[l].pc = "ask" => now' <= look[l].begun + 1
      BY <1>3 DEF ResolveInv, AskingTrue
    <2> QED
      BY <1>3, <1>7, <1>8, <2>1, LookOn
  <1>10. EntryTrue'
    BY <1>3, <1>7, <1>8, EntryOn
  <1>11. \A g \in RecordTypes : zone'[g] \in held'[g][now']
    <2>1. \A g \in RecordTypes : zone[g] \in held[g][now]
      BY DEF ResolveInv
    <2> QED
      BY <1>1, <1>2, <1>3, <2>1 DEF ResolveInv, DoHTypeOK
  <1> QED
    BY <1>7, <1>9, <1>10, <1>11 DEF ResolveInv

\* Time passes.
LEMMA Ticked ==
  ASSUME ResolveInv, Tick
  PROVE  ResolveInv'
  <1>1. /\ now \in Nat \ {0} /\ now' = now + 1
        /\ UNCHANGED <<plan, zone, cache, look>>
        /\ held \in [RecordTypes -> [1..now -> SUBSET Nat]] /\ zone \in [RecordTypes -> Nat]
        /\ held' = [f \in RecordTypes |-> [t \in 1..now + 1 |-> IF t = now + 1 THEN {zone[f]} ELSE held[f][t]]]
    BY DEF Tick, ResolveInv, DoHTypeOK
  <1>2. \A t \in 1..now : t \in 1..now + 1 /\ t # now + 1
    BY <1>1
  <1>3. \A g \in RecordTypes, t \in 1..now : held'[g][t] = held[g][t]
    BY <1>1, <1>2
  <1>4. \A t \in 1..now + 1 : t # now + 1 => t \in 1..now
    BY <1>1
  <1>5. held' \in [RecordTypes -> [1..now + 1 -> SUBSET Nat]]
    BY <1>1, <1>4
  <1>6. DoHTypeOK'
    BY <1>1, <1>5 DEF ResolveInv, DoHTypeOK
  <1>7. now' >= now /\ \A g \in RecordTypes, t \in 1..now : held[g][t] \subseteq held'[g][t]
    BY <1>1, <1>3
  <1>8. ASSUME NEW l \in Lookups PROVE AskingTrue(l)' /\ ReturnedTrue(l)'
    <2>1. look[l].pc = "ask" => now' <= look[l].begun + 1
      BY <1>1 DEF Tick
    <2> QED
      BY <1>1, <1>6, <1>7, <2>1, LookOn
  <1>9. EntryTrue'
    BY <1>1, <1>6, <1>7, EntryOn
  <1>10. \A g \in RecordTypes : zone'[g] \in held'[g][now']
    <2>1. now + 1 \in 1..now + 1
      BY <1>1
    <2> QED
      BY <1>1, <2>1
  <1> QED
    BY <1>6, <1>8, <1>9, <1>10 DEF ResolveInv

\* Nothing is stored or asked at first.
LEMMA ResolveStarts ==
  ASSUME DoHInit
  PROVE  ResolveInv
  <1>1. idleLook \in LookRec /\ idleLook.pc = "idle"
    BY DEF idleLook, unasked, LookRec, QueryRec
  <1>2. noEntry \in [val : [RecordTypes -> Nat], expires : Nat] /\ noEntry.expires = 0
    BY DEF noEntry
  <1>3. plan \in ZoneRec
    BY DoHAssumption DEF DoHInit, DoHAssumption, RecordTypes, ZoneRec
  <1>4. <<{1}>> \in [1..1 -> SUBSET Nat] /\ <<{1}>>[1] = {1} /\ 1 \in Nat \ {0}
    OBVIOUS
  <1>5. DoHTypeOK
    BY <1>1, <1>2, <1>3, <1>4 DEF DoHInit, DoHTypeOK
  <1>6. \A l \in Lookups : AskingTrue(l) /\ ReturnedTrue(l)
    BY <1>1 DEF DoHInit, AskingTrue, ReturnedTrue
  <1>7. EntryTrue
    BY <1>2 DEF DoHInit, EntryTrue
  <1>8. \A f \in RecordTypes : zone[f] \in held[f][now]
    BY <1>4 DEF DoHInit
  <1> QED
    BY <1>5, <1>6, <1>7, <1>8 DEF ResolveInv

\* Every step keeps the invariant.
LEMMA ResolveSteps ==
  ASSUME ResolveInv, DoHNext
  PROVE  ResolveInv'
  <1>1. ASSUME NEW l \in Lookups, Lookup(l) PROVE ResolveInv'
    BY <1>1, LookedUp
  <1>2. ASSUME NEW l \in Lookups, Store(l) PROVE ResolveInv'
    BY <1>2, StoredBoth
  <1>3. ASSUME NEW l \in Lookups, LookupFails(l) PROVE ResolveInv'
    BY <1>3, LookFailed
  <1>4. ASSUME NEW l \in Lookups, NEW f \in RecordTypes, QueryAnswers(l, f) PROVE ResolveInv'
    BY <1>4, QueryAnswered
  <1>5. ASSUME NEW l \in Lookups, NEW f \in RecordTypes, QueryFails(l, f) PROVE ResolveInv'
    BY <1>5, QueryFailed
  <1>6. CASE Change
    BY <1>6, Changed
  <1>7. CASE Tick
    BY <1>7, Ticked
  <1> QED
    BY <1>1, <1>2, <1>3, <1>4, <1>5, <1>6, <1>7 DEF DoHNext

\* So does a step of the others.
LEMMA ResolveStutters ==
  ASSUME ResolveInv, UNCHANGED dohVars
  PROVE  ResolveInv'
  BY DEF ResolveInv, DoHTypeOK, AskingTrue, ReturnedTrue, EntryTrue, HeldSince, dohVars

\* The invariant says what the property does.
LEMMA ResolveSays ==
  ASSUME ResolveInv
  PROVE  ServedTrue
  <1>1. SUFFICES ASSUME NEW l \in Lookups, look[l].pc = "done", NEW f \in RecordTypes, look[l].val[f] # 0 \/ look[l].whole
                 PROVE  \E t \in Max({1, look[l].begun - MaxTTL - 1})..now : look[l].val[f] \in held[f][t]
    BY DEF ServedTrue
  <1> DEFINE from == look[l].begun - MaxTTL - 1
  <1>2. from \in Int /\ now \in Nat
    BY DoHAssumption DEF ResolveInv, DoHTypeOK, LookRec, DoHAssumption
  <1>3. PICK t \in 1..now : t >= from /\ look[l].val[f] \in held[f][t]
    BY <1>1 DEF ResolveInv, ReturnedTrue, HeldSince
  <1> HIDE DEF from
  <1>4. Max({1, from}) \in {1, from}
    BY <1>2, MaxOfTwo
  <1>5. t \in Max({1, from})..now
    BY <1>2, <1>3, <1>4
  <1> QED
    BY <1>3, <1>5 DEF from

\* For any number of lookups, any TTLs and any way the records change: what a
\* lookup returns, from the entry or from the servers, was so not long ago
\* (doh.go:52).
THEOREM LookupsServeTrue ==
  DoHInit /\ [][DoHNext]_dohVars => []ServedTrue
  <1>1. DoHInit => ResolveInv
    BY ResolveStarts
  <1>2. ResolveInv /\ [DoHNext]_dohVars => ResolveInv'
    BY ResolveSteps, ResolveStutters
  <1>3. ResolveInv => ServedTrue
    BY ResolveSays
  <1> QED
    BY <1>1, <1>2, <1>3, PTL
=============================================================================
