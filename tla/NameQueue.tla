----------------------------- MODULE NameQueue ------------------------------
(***************************************************************************)
(* What a table of FakeIP addresses promises to the names that use it: the *)
(* names with an address wait in line, as many as there are addresses, and *)
(* a new name takes the place of the one that has waited longest.          *)
(***************************************************************************)
EXTENDS Naturals, Sequences

CONSTANTS
  Names,
  Size    \* number of addresses

VARIABLE queue  \* the names with an address, the oldest first

Empty == queue = <<>>

Holds(n) == \E i \in DOMAIN queue : queue[i] = n

\* A name without an address asks for one.
Admit(n) ==
  /\ ~Holds(n)
  /\ queue' = Append(IF Len(queue) < Size THEN queue ELSE Tail(queue), n)

Queueing == Empty /\ [][\E n \in Names : Admit(n)]_queue
=============================================================================
