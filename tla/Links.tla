------------------------------- MODULE Links --------------------------------
(***************************************************************************)
(* TCP connections as the code uses them: each has a client side "l" and a *)
(* server side "r", carries whole messages in order each way, ends one way *)
(* with CloseWrite and both ways with Close, and can be lost.              *)
(***************************************************************************)
EXTENDS Sequences

Sides == {"l", "r"}
Peer(s) == IF s = "l" THEN "r" ELSE "l"

\* sent: what each side wrote and the other has not read; fin: the sides that
\* write no more; closed: the sides whose socket is closed.
NotOpened == [sent |-> [s \in Sides |-> <<>>], fin |-> {}, closed |-> {}, open |-> FALSE, lost |-> FALSE]
Opened == [NotOpened EXCEPT !.open = TRUE]

Readable(c, s) == c.sent[Peer(s)] # <<>>
FirstOf(c, s) == Head(c.sent[Peer(s)])
AtEOF(c, s) == c.sent[Peer(s)] = <<>> /\ (c.lost \/ Peer(s) \in c.fin)
Broken(c, s) == c.lost \/ Peer(s) \in c.closed

\* What is written after the peer has closed goes nowhere.
Put(c, s, msg) == IF Broken(c, s) THEN c ELSE [c EXCEPT !.sent[s] = Append(@, msg)]
Take(c, s) == [c EXCEPT !.sent[Peer(s)] = Tail(@)]
CloseWrite(c, s) == [c EXCEPT !.fin = @ \cup {s}]
CloseSide(c, s) == [c EXCEPT !.fin = @ \cup {s}, !.closed = @ \cup {s}]

\* A side that closes with something unread, or is written to after it has
\* closed, resets the connection: what it sent may not arrive.
MayReset(c, s) == s \in c.closed /\ c.sent[Peer(s)] # <<>> /\ ~c.lost
Lose(c) == [c EXCEPT !.sent = [s \in Sides |-> <<>>], !.lost = TRUE]

Over(c) == ~c.open \/ c.closed = Sides
=============================================================================
