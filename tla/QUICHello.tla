------------------------------ MODULE QUICHello ------------------------------
(***************************************************************************)
(* Reading a QUIC ClientHello from the client's first datagrams            *)
(* (internal/sniff/quic.go): the datagrams may come in any order, again,   *)
(* and cut up differently; each is a sequence of packets, and an Initial   *)
(* packet carries pieces of the hello by offset.                           *)
(***************************************************************************)
EXTENDS Sequences, Naturals, FiniteSets, FiniteSetsExt, SequencesExt

CONSTANTS
  Clients,      \* scenarios: [datagrams, hello], sets of datagrams and the hello's length
  MaxCrypto,    \* maxQUICCrypto
  MaxPackets    \* maxQUICPackets, which counts datagrams

\* A packet: its type, whether its keys come from the Destination Connection
\* ID it carries, and the CRYPTO frames [off, len] in it.
QUICAssumption ==
  /\ MaxCrypto \in Nat /\ MaxPackets \in Nat \ {0}
  /\ \A c \in Clients :
       /\ c.hello \in 1..MaxCrypto
       /\ c.datagrams \subseteq
            Seq([type : {"initial", "other", "short"}, own : BOOLEAN, frames : Seq([off : Nat, len : Nat])])
ASSUME QUICAssumption

VARIABLES
  client,  \* the scenario
  quic,    \* the QUIC value: fragments by offset, their total, datagrams
  hello,   \* what Add has returned
  heard    \* the record: every frame that was in an Initial that was read

quicVars == <<client, quic, hello, heard>>

QUICInit ==
  /\ client \in Clients
  /\ quic = [frags |-> {}, any |-> FALSE, packets |-> 0]
  /\ hello = "more"
  /\ heard = {}

-----------------------------------------------------------------------------

\* addPacket: an Initial whose keys fit is read, other long header packets are
\* skipped, anything else ends the datagram.
KeysFit(p) == p.own
ReadablePacket(p) == p.type = "other" \/ (p.type = "initial" /\ KeysFit(p))

\* The packets of d up to the first that cannot be read; a frame beyond the
\* limit makes its packet one of these, after the frames before it.
Fits(fr) == fr.off + fr.len <= MaxCrypto
Good(p) == ReadablePacket(p) /\ \A i \in DOMAIN p.frames : p.type = "initial" => Fits(p.frames[i])
Before(s, Test(_)) == Min({i \in DOMAIN s : ~Test(s[i])} \cup {Len(s) + 1}) - 1
ReadPackets(d) == Before(d, Good)

\* The frames that are collected, in order.
FramesOf(p) == IF p.type = "initial" /\ KeysFit(p) THEN SubSeq(p.frames, 1, Before(p.frames, Fits)) ELSE <<>>
Collected(d) ==
  LET from[n \in 0..Len(d)] == IF n = 0 THEN <<>> ELSE from[n - 1] \o FramesOf(d[n])
  IN from[Min({Len(d), ReadPackets(d) + 1})]

\* frames: the first fragment at an offset stays.
Begins(frags) == {fr.off : fr \in frags}
keep(frags, fr) == IF fr.off \in Begins(frags) THEN frags ELSE frags \cup {fr}
keepAll(frags, frs) ==
  LET kept[n \in 0..Len(frs)] == IF n = 0 THEN frags ELSE keep(kept[n - 1], frs[n])
  IN kept[Len(frs)]
Total(frags) == MapThenSumSet(LAMBDA fr : fr.len, frags)

\* clientHello: the fragments that begin within what there is, and reach
\* beyond it, are added in the order of a map, that is in any order.
ExtendsExactly(fr, n) == fr.off = n /\ fr.len > 0
Extends(fr, n) == fr.off <= n /\ fr.off + fr.len > n

StreamLengths(frags) ==
  LET ends[n \in 0..MaxCrypto] ==
        LET next == {fr.off + fr.len : fr \in {x \in frags : Extends(x, n)}}
        IN IF next = {} THEN {n} ELSE UNION {ends[m] : m \in next}
  IN ends[0]

\* Add, with the datagram d.
Add(d) ==
  LET frags == keepAll(quic.frags, Collected(d))
      any == quic.any \/ Collected(d) # <<>>
  IN /\ hello = "more"
     /\ quic' = [frags |-> frags, any |-> any, packets |-> quic.packets + 1]
     /\ heard' = heard \cup ToSet(Collected(d))
     /\ \E n \in StreamLengths(frags) :
          hello' = IF ReadPackets(d) = 0 /\ ~any THEN "notquic"
                   ELSE IF n >= client.hello THEN "name"
                   ELSE IF quic.packets + 1 >= MaxPackets \/ Total(frags) > MaxCrypto THEN "noname"
                   ELSE "more"
     /\ UNCHANGED client

QUICNext == \E d \in client.datagrams : Add(d)

-----------------------------------------------------------------------------

\* The cells of the hello that have come in some frame.
Covered == UNION {fr.off..(fr.off + fr.len - 1) : fr \in heard}

\* The client never cut the hello up in two ways from the same offset.
OneLength == \A x, y \in heard : x.off = y.off => x = y

\* The name is read exactly when every piece of the hello has come, whatever
\* their order, overlaps and repetitions, and the order in which the
\* fragments are put together: not before, and, unless the client has cut it
\* up differently at the same offset, not later (quic.go:281).
HelloFound ==
  /\ hello = "name" => 0..client.hello - 1 \subseteq Covered
  /\ 0..client.hello - 1 \subseteq Covered /\ OneLength => hello = "name"
=============================================================================
