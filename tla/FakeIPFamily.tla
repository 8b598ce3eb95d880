---------------------------- MODULE FakeIPFamily ----------------------------
(***************************************************************************)
(* One address family of the FakeIP pool (internal/fakeip/pool.go, type    *)
(* family) as operators on a record.  Addresses are counted from the       *)
(* start of the prefix: 0 is the network address, Span - 1 the last one.   *)
(***************************************************************************)
EXTENDS Naturals

CONSTANTS
  Names,       \* normalised domain names (lower case, no final dot)
  Span,        \* number of addresses in the prefix, 2^bits in the code
  MaxEntries,  \* cap on the table, 65536 in the code
  NoName,      \* "no entry" of the map byOff
  NoOff        \* "no entry" of the map byName

\* newFamily refuses prefixes with fewer than 2 host bits.
ASSUME SpanAssumption == Span \in Nat /\ Span >= 4
ASSUME MaxEntriesAssumption == MaxEntries \in Nat /\ MaxEntries >= 2
ASSUME NoNameAssumption == NoName \notin Names
ASSUME NoOffAssumption == NoOff \notin Nat

\* The usable addresses: all but the first and the last, or the cap.
Size == IF Span < 2 * MaxEntries THEN Span - 2 ELSE MaxEntries

Offsets == 0 .. Size - 1

\* The Go type: next and the two maps.
Families == [next   : Offsets,
             byName : [Names -> Offsets \union {NoOff}],
             byOff  : [Offsets -> Names \union {NoName}]]

newFamily == [next   |-> 0,
              byName |-> [n \in Names |-> NoOff],
              byOff  |-> [o \in Offsets |-> NoName]]

\* addr: offset 0 is prefix + 1.  offset is its inverse inside the table.
addr(o) == o + 1
inTable(a) == a >= 1 /\ a - 1 < Size
offset(a) == a - 1

\* Faulty variants of allocate: the old name keeps its entry; the cursor
\* skips the last offset.
allocateKeepingOld(f, n) ==
  [next   |-> (f.next + 1) % Size,
   byName |-> [f.byName EXCEPT ![n] = f.next],
   byOff  |-> [f.byOff EXCEPT ![f.next] = n]]
allocateWith(f, n, next) ==
  [next   |-> next,
   byName |-> [m \in Names |-> IF m = n THEN f.next
                               ELSE IF m = f.byOff[f.next] THEN NoOff ELSE f.byName[m]],
   byOff  |-> [f.byOff EXCEPT ![f.next] = n]]
allocateWrappingEarly(f, n) == allocateWith(f, n, (f.next + 1) % (Size - 1))

\* The table after a name is given the offset at the cursor: the cursor
\* moves on, and the name that held the offset loses it.
allocate(f, n) ==
  LET o   == f.next
      old == f.byOff[o]
  IN  [next   |-> (f.next + 1) % Size,
       byName |-> [m \in Names |-> IF m = n THEN o
                                   ELSE IF m = old THEN NoOff ELSE f.byName[m]],
       byOff  |-> [f.byOff EXCEPT ![o] = n]]

\* family.get: a known name keeps its address, any other is allocated one.
get(f, n) == IF f.byName[n] # NoOff THEN f ELSE allocate(f, n)

\* Pool.Lookup within this family.
lookup(f, a) == IF inTable(a) THEN f.byOff[offset(a)] ELSE NoName

\* The two maps are inverses of each other.
Bijective(f) ==
  /\ \A n \in Names : f.byName[n] # NoOff => f.byOff[f.byName[n]] = n
  /\ \A o \in Offsets : f.byOff[o] # NoName => f.byName[f.byOff[o]] = o

\* The offsets in use are those below the cursor, or all of them.
FilledInOrder(f) ==
  \/ \A o \in Offsets : f.byOff[o] # NoName
  \/ \A o \in Offsets : f.byOff[o] # NoName <=> o < f.next
=============================================================================
