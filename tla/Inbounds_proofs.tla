--------------------------- MODULE Inbounds_proofs ---------------------------
(***************************************************************************)
(* ConnsAddUp and InOrder, for any number of flows, destinations, packets  *)
(* and connections.                                                        *)
(*                                                                         *)
(* What the panel shows as active is what some goroutine has still to      *)
(* finish, and every connection is finished once.  The tracker alone adds  *)
(* up as long as only active connections are finished; the inbounds make   *)
(* sure of that: a flow or handler has a connection exactly in a part of   *)
(* its work, at whose end it finishes it and lets it go.                   *)
(*                                                                         *)
(* The packets of a key form one line, from the last that was written to   *)
(* the last that was read: a key has one flow that has not ended, and what *)
(* that flow holds comes after what it and the flows before it wrote.      *)
(***************************************************************************)
EXTENDS Inbounds, FiniteSetTheorems, SequenceTheorems, TLAPS

-----------------------------------------------------------------------------
(* Types, and where in its work a goroutine has a connection to finish.    *)

Ends == {"none", "open", "closed"}
Flow == [key : Keys,
         pc : {"setup", "sniff", "sniffed", "dial", "reply", "pending", "pump", "wait", "failed", "unlist", "gone"},
         in : Seq(Nat), pending : Seq(Nat), idle : BOOLEAN, done : BOOLEAN, up : Ends, down : Ends,
         c : Nat, firstErr : BOOLEAN, pumps : SUBSET {"in", "down", "up"}]

\* The part of a flow's work that a connection accompanies.
Carries(r) == r.c # 0 <=> r.pc \in {"dial", "reply", "pending", "pump", "wait"}

Reader == [pc : {"read", "queue", "over"}, n : Nat, flow : Nat]
UDPOK ==
  /\ flows \in Seq(Flow) /\ table \in [Keys -> 0..Len(flows)] /\ wire \in [Keys -> Nat]
  /\ serve \in Reader
  /\ serve.pc = "queue" => serve.flow \in FlowIds
  /\ \A f \in FlowIds : Carries(flows[f])

SocksFlow == [key : Keys, up : Ends, c : Nat, fail : BOOLEAN, old : BOOLEAN, fin : {"no", "busy", "done"},
              err : BOOLEAN, replies : {"none", "read", "ending", "gone"}]

\* The handler's place in the association, and the goroutine expire's.
HandlerOK(a, n) ==
  /\ a \in [pc : {"listen", "read", "route", "dial", "send", "ending", "closeAll", "closing", "over"},
            n : Nat, flow : Nat, todo : SUBSET (1..n)]
  /\ a.pc \in {"route", "dial", "send", "ending", "closing"} => a.flow \in 1..n
ExpireOK(e, n) == e \in [on : BOOLEAN, flow : 0..n, todo : SUBSET (1..n)]

\* What the handler does for flow f: it has registered no connection before
\* Router.connect, and the flow does not yet have it until that returns.
Routing(a, f) == IF a.flow = f /\ a.pc \in {"route", "dial"} THEN a.pc ELSE "no"

\* A flow that somebody ends has an open socket, and one whose socket is closed
\* has been ended: so finish finds the connection there.
Holds(r, routing) ==
  /\ r.c # 0 <=> r.up = "open" \/ routing = "dial"
  /\ r.fin = "busy" => r.up = "open"
  /\ r.up = "closed" => r.fin = "done"
  /\ routing # "no" => r.up = "none"

SocksOK ==
  /\ sflows \in Seq(SocksFlow) /\ stable \in [Keys -> 0..Len(sflows)]
  /\ HandlerOK(assoc, Len(sflows)) /\ ExpireOK(expiry, Len(sflows))
  /\ \A f \in SocksIds : Holds(sflows[f], Routing(assoc, f))

TCPHandler == [pc : {"idle", "connect", "dial", "answer", "relay", "over"}, c : Nat,
               copying : SUBSET {"up", "down"}, firstErr : BOOLEAN]
TCPOK ==
  /\ tcps \in [TCPInbounds -> TCPHandler]
  /\ \A t \in TCPInbounds : tcps[t].c # 0 <=> tcps[t].pc \in {"dial", "answer", "relay"}

TrackerOK ==
  /\ conns \in Seq({"open", "ok", "failed"}) /\ recent \in Seq(Nat)
  /\ TrackerAddsUp

Owned ==
  /\ active = {Owns(o) : o \in Owners} \ {0}
  /\ \A o, p \in Owners : Owns(o) = Owns(p) /\ Owns(o) # 0 => o = p

IInv == env \in Env /\ TrackerOK /\ UDPOK /\ SocksOK /\ TCPOK /\ Owned
-----------------------------------------------------------------------------
(* The tracker by itself.                                                  *)

\* What is kept of a list: its end.
LEMMA NewestFacts ==
  ASSUME NEW S, NEW s \in Seq(S)
  PROVE  /\ Newest(s) \in Seq(S)
         /\ Len(Newest(s)) = IF Len(s) > RecentMax THEN RecentMax ELSE Len(s)
         /\ \E d \in Nat : \A i \in 1..Len(Newest(s)) : i + d \in 1..Len(s) /\ Newest(s)[i] = s[i + d]
PROOF
<1> DEFINE m == IF Len(s) > RecentMax THEN Len(s) - RecentMax + 1 ELSE 1
           t == SubSeq(s, m, Len(s))
<1>1. Len(s) \in Nat /\ RecentMax \in Nat \ {0}
  BY RecentMaxAssumption
<1>2. m \in 1..Len(s) + 1 /\ m \in Nat \ {0}
  BY <1>1
<1>3. /\ t \in Seq(S)
      /\ Len(t) = IF m <= Len(s) THEN Len(s) - m + 1 ELSE 0
      /\ \A i \in 1..Len(s) - m + 1 : t[i] = s[m + i - 1]
  BY <1>1, <1>2, SubSeqProperties
<1>4. Len(t) = IF Len(s) > RecentMax THEN RecentMax ELSE Len(s)
  <2>1. m = IF Len(s) > RecentMax THEN Len(s) - RecentMax + 1 ELSE 1
    OBVIOUS
  <2>2. Len(t) = IF m <= Len(s) THEN Len(s) - m + 1 ELSE 0
    BY <1>3
  <2> HIDE DEF m, t
  <2>3. CASE Len(s) > RecentMax
    BY <1>1, <2>1, <2>2, <2>3
  <2>4. CASE ~(Len(s) > RecentMax)
    BY <1>1, <2>1, <2>2, <2>4
  <2> QED BY <2>3, <2>4
<1>5. Newest(s) = t
  BY DEF Newest
<1>6. \A i \in 1..Len(t) : i + (m - 1) \in 1..Len(s) /\ t[i] = s[i + (m - 1)]
  <2> HIDE DEF m, t
  <2> QED BY <1>1, <1>2, <1>3
<1>7. m - 1 \in Nat
  BY <1>1
<1> HIDE DEF m, t
<1> QED BY <1>3, <1>4, <1>5, <1>6, <1>7

\* The connections that have ended can be counted.
LEMMA EndedFinite ==
  ASSUME conns \in Seq({"open", "ok", "failed"})
  PROVE  IsFiniteSet(Ended) /\ Cardinality(Ended) \in Nat /\ Ended \subseteq 1..Len(conns)
PROOF
<1>1. Len(conns) \in Nat /\ DOMAIN conns = 1..Len(conns)
  OBVIOUS
<1>2. Ended \subseteq 1..Len(conns)
  BY <1>1 DEF Ended
<1>3. IsFiniteSet(1..Len(conns))
  BY <1>1, FS_Interval
<1> QED BY <1>2, <1>3, FS_Subset, FS_CardinalityType

\* One more connection has ended, one that had not: the list of recent ones
\* gains it, and loses the oldest if it is full.
LEMMA OneMoreEnded ==
  ASSUME TrackerOK, NEW c \in Nat, c \notin Ended, Ended' = Ended \union {c},
         recent' = Newest(Append(recent, c))
  PROVE  /\ recent' \in Seq(Nat)
         /\ Len(recent') = IF Cardinality(Ended') < RecentMax THEN Cardinality(Ended') ELSE RecentMax
         /\ \A i \in DOMAIN recent' : recent'[i] \in Ended'
         /\ \A i, j \in DOMAIN recent' : recent'[i] = recent'[j] => i = j
PROOF
<1> DEFINE r == Append(recent, c)
<1>1. RecentMax \in Nat \ {0}
  BY RecentMaxAssumption
<1>2. recent \in Seq(Nat) /\ Len(recent) \in Nat /\ DOMAIN recent = 1..Len(recent)
  BY DEF TrackerOK
<1>3. /\ r \in Seq(Nat) /\ Len(r) = Len(recent) + 1 /\ r[Len(recent) + 1] = c
      /\ \A i \in 1..Len(recent) : r[i] = recent[i]
  BY <1>2, AppendProperties
<1>4. Cardinality(Ended') = Cardinality(Ended) + 1 /\ Cardinality(Ended) \in Nat
  BY EndedFinite, FS_AddElement DEF TrackerOK
<1>5. /\ Len(recent) = IF Cardinality(Ended) < RecentMax THEN Cardinality(Ended) ELSE RecentMax
      /\ \A i \in 1..Len(recent) : recent[i] \in Ended
      /\ \A i, j \in 1..Len(recent) : recent[i] = recent[j] => i = j
  BY <1>2 DEF TrackerOK, TrackerAddsUp
<1>6a. recent' = Newest(r)
  OBVIOUS
<1> HIDE DEF r
<1>6. /\ recent' \in Seq(Nat)
      /\ Len(recent') = IF Len(r) > RecentMax THEN RecentMax ELSE Len(r)
      /\ \E d \in Nat : \A i \in 1..Len(recent') : i + d \in 1..Len(r) /\ recent'[i] = r[i + d]
  <2>1. /\ Newest(r) \in Seq(Nat)
        /\ Len(Newest(r)) = IF Len(r) > RecentMax THEN RecentMax ELSE Len(r)
        /\ \E d \in Nat : \A i \in 1..Len(Newest(r)) : i + d \in 1..Len(r) /\ Newest(r)[i] = r[i + d]
    <3>1. r \in Seq(Nat)
      BY <1>3
    <3> QED BY <3>1, NewestFacts
  <2> QED BY <1>6a, <2>1
<1>7. PICK d \in Nat : \A i \in 1..Len(recent') : i + d \in 1..Len(r) /\ recent'[i] = r[i + d]
  BY <1>6
<1>8. Len(recent') = IF Cardinality(Ended') < RecentMax THEN Cardinality(Ended') ELSE RecentMax
  BY <1>1, <1>3, <1>4, <1>5, <1>6
<1>9. \A i \in 1..Len(r) : r[i] \in Ended'
  <2>1. \A i \in 1..Len(r) : i \in 1..Len(recent) \/ i = Len(recent) + 1
    BY <1>2, <1>3
  <2>2. \A i \in 1..Len(recent) : r[i] \in Ended
    BY <1>3, <1>5
  <2> QED BY <1>3, <2>1, <2>2
<1>10. \A i, j \in 1..Len(r) : r[i] = r[j] => i = j
  <2>1. ASSUME NEW i \in 1..Len(recent) PROVE r[i] # c
    BY <2>1, <1>3, <1>5
  <2>2. \A i \in 1..Len(r) : i \in 1..Len(recent) \/ i = Len(recent) + 1
    BY <1>2, <1>3
  <2>3. \A i, j \in 1..Len(recent) : r[i] = r[j] => i = j
    BY <1>3, <1>5
  <2> QED BY <1>3, <2>1, <2>2, <2>3
<1>11. DOMAIN recent' = 1..Len(recent') /\ Len(recent') \in Nat
  BY <1>6
<1>12. \A i \in DOMAIN recent' : recent'[i] \in Ended'
  BY <1>7, <1>9, <1>11
<1>13. \A i, j \in DOMAIN recent' : recent'[i] = recent'[j] => i = j
  <2> SUFFICES ASSUME NEW i \in DOMAIN recent', NEW j \in DOMAIN recent', recent'[i] = recent'[j] PROVE i = j
    OBVIOUS
  <2>1. i + d = j + d
    BY <1>7, <1>10, <1>11
  <2> QED BY <2>1, <1>11
<1> QED BY <1>6, <1>8, <1>12, <1>13

Failures == {c \in DOMAIN conns : conns[c] = "failed"}

\* Tracker.add: nothing has ended, and one connection more is active.
LEMMA AddKeeps ==
  ASSUME TrackerOK, add
  PROVE  /\ TrackerOK' /\ active' = active \union {NewConn}
         /\ NewConn \notin active /\ NewConn \in Nat \ {0}
PROOF
<1>1. conns \in Seq({"open", "ok", "failed"}) /\ Len(conns) \in Nat /\ DOMAIN conns = 1..Len(conns)
  BY DEF TrackerOK
<1>2. /\ conns' \in Seq({"open", "ok", "failed"}) /\ Len(conns') = Len(conns) + 1
      /\ DOMAIN conns' = 1..Len(conns) + 1 /\ conns'[Len(conns) + 1] = "open"
      /\ \A i \in 1..Len(conns) : conns'[i] = conns[i]
  BY <1>1, AppendProperties DEF add
<1>3. Ended' = Ended /\ Failures' = Failures
  BY <1>1, <1>2 DEF Ended, Failures
<1>4. active' = active \union {Len(conns) + 1} /\ UNCHANGED <<recent, failed>>
  BY DEF add, NewConn
<1>5. active = DOMAIN conns \ Ended
  BY DEF TrackerOK, TrackerAddsUp
<1>6. Ended \subseteq 1..Len(conns)
  BY <1>1, EndedFinite
<1>7. active' = DOMAIN conns' \ Ended'
  BY <1>1, <1>2, <1>3, <1>4, <1>5, <1>6
<1>8. failed' = Cardinality(Failures')
  BY <1>3, <1>4 DEF TrackerOK, TrackerAddsUp, Failures
<1>9. TrackerAddsUp'
  BY <1>3, <1>4, <1>7, <1>8 DEF TrackerOK, TrackerAddsUp, Failures
<1> QED BY <1>1, <1>2, <1>4, <1>5, <1>9 DEF TrackerOK, NewConn

\* And so can those that failed.
LEMMA FailuresFinite ==
  ASSUME conns \in Seq({"open", "ok", "failed"})
  PROVE  IsFiniteSet(Failures) /\ Cardinality(Failures) \in Nat /\ Failures \subseteq Ended
PROOF
<1>1. Failures \subseteq Ended
  BY DEF Failures, Ended
<1> QED BY <1>1, EndedFinite, FS_Subset, FS_CardinalityType

\* Tracker.finish of an active connection.
LEMMA FinishKeeps ==
  ASSUME TrackerOK, NEW c \in active, NEW end \in {"ok", "failed"}, finish(c, end)
  PROVE  TrackerOK' /\ active' = active \ {c}
PROOF
<1>1. conns \in Seq({"open", "ok", "failed"}) /\ Len(conns) \in Nat /\ DOMAIN conns = 1..Len(conns)
  BY DEF TrackerOK
<1>2. active = DOMAIN conns \ Ended
  BY DEF TrackerOK, TrackerAddsUp
<1>3. c \in 1..Len(conns) /\ c \in Nat /\ c \notin Ended /\ conns[c] = "open"
  BY <1>1, <1>2 DEF Ended
<1>4. conns' = [conns EXCEPT ![c] = end]
  BY DEF finish
<1>5. /\ conns' \in Seq({"open", "ok", "failed"}) /\ Len(conns') = Len(conns)
      /\ DOMAIN conns' = 1..Len(conns) /\ conns'[c] = end
      /\ \A i \in 1..Len(conns) : i # c => conns'[i] = conns[i]
  BY <1>1, <1>3, <1>4, ExceptSeq
<1>6. Ended' = Ended \union {c}
  BY <1>1, <1>3, <1>5 DEF Ended
<1>7. Failures' = IF end = "failed" THEN Failures \union {c} ELSE Failures
  BY <1>1, <1>3, <1>5 DEF Failures
<1>8. c \notin Failures
  BY <1>3 DEF Failures
<1>9. failed = Cardinality(Failures)
  BY DEF TrackerOK, TrackerAddsUp, Failures
<1>10. failed' = Cardinality(Failures')
  BY <1>1, <1>7, <1>8, <1>9, FailuresFinite, FS_AddElement DEF finish
<1>11. active' = active \ {c}
  BY DEF finish
<1>12. active' = DOMAIN conns' \ Ended'
  BY <1>1, <1>2, <1>5, <1>6, <1>11
<1>13. recent' = Newest(Append(recent, c))
  BY DEF finish
<1>14. TrackerAddsUp' /\ recent' \in Seq(Nat)
  BY <1>3, <1>6, <1>10, <1>12, <1>13, OneMoreEnded DEF TrackerAddsUp, Failures
<1> QED BY <1>5, <1>11, <1>14 DEF TrackerOK

\* A connection that is refused is never active.
LEMMA RefuseKeeps ==
  ASSUME TrackerOK, refuse
  PROVE  TrackerOK' /\ active' = active
PROOF
<1> DEFINE c == Len(conns) + 1
<1>1. conns \in Seq({"open", "ok", "failed"}) /\ Len(conns) \in Nat /\ DOMAIN conns = 1..Len(conns)
  BY DEF TrackerOK
<1>2. /\ conns' \in Seq({"open", "ok", "failed"}) /\ Len(conns') = c
      /\ DOMAIN conns' = 1..c /\ conns'[c] = "failed"
      /\ \A i \in 1..Len(conns) : conns'[i] = conns[i]
  BY <1>1, AppendProperties DEF refuse
<1>3. c \in Nat /\ c \notin Ended /\ c \notin Failures
  BY <1>1 DEF Ended, Failures
<1>4. Ended' = Ended \union {c} /\ Failures' = Failures \union {c}
  BY <1>1, <1>2 DEF Ended, Failures
<1>5. active = DOMAIN conns \ Ended /\ failed = Cardinality(Failures)
  BY DEF TrackerOK, TrackerAddsUp, Failures
<1>6. failed' = Cardinality(Failures')
  BY <1>1, <1>3, <1>4, <1>5, FailuresFinite, FS_AddElement DEF refuse
<1>7. active' = DOMAIN conns' \ Ended'
  BY <1>1, <1>2, <1>4, <1>5 DEF refuse
<1>8. recent' = Newest(Append(recent, c))
  BY DEF refuse, NewConn
<1> HIDE DEF c
<1>9. TrackerAddsUp' /\ recent' \in Seq(Nat)
  BY <1>3, <1>4, <1>6, <1>7, <1>8, OneMoreEnded DEF TrackerAddsUp, Failures
<1> QED BY <1>2, <1>9 DEF TrackerOK, refuse

-----------------------------------------------------------------------------
(* Who has which connection.                                               *)

\* The goroutines by kind, and what each has.
LEMMA OwnsIs ==
  /\ \A f : Owns(<<"udp", f>>) = flows[f].c /\ Owns(<<"socks", f>>) = sflows[f].c /\ Owns(<<"tcp", f>>) = tcps[f].c
  /\ \A o \in Owners : \/ \E f \in FlowIds : o = <<"udp", f>>
                       \/ \E f \in SocksIds : o = <<"socks", f>>
                       \/ \E t \in TCPInbounds : o = <<"tcp", t>>
  /\ \A f \in FlowIds : <<"udp", f>> \in Owners
  /\ \A f \in SocksIds : <<"socks", f>> \in Owners
  /\ \A t \in TCPInbounds : <<"tcp", t>> \in Owners
PROOF
<1>1. \A f : Owns(<<"udp", f>>) = flows[f].c /\ Owns(<<"socks", f>>) = sflows[f].c /\ Owns(<<"tcp", f>>) = tcps[f].c
  BY DEF Owns
<1>2. \A o \in Owners : \/ \E f \in FlowIds : o = <<"udp", f>>
                        \/ \E f \in SocksIds : o = <<"socks", f>>
                        \/ \E t \in TCPInbounds : o = <<"tcp", t>>
  BY DEF Owners
<1>3. /\ \A f \in FlowIds : <<"udp", f>> \in Owners
      /\ \A f \in SocksIds : <<"socks", f>> \in Owners
      /\ \A t \in TCPInbounds : <<"tcp", t>> \in Owners
  BY DEF Owners
<1> QED BY <1>1, <1>2, <1>3

\* Nothing but the work of o changes: the others keep what they have, and
\* who is new has nothing.
Only(o) ==
  /\ \A p \in Owners : p # o => p \in Owners' /\ Owns(p)' = Owns(p)
  /\ \A p \in Owners' : p \in Owners \/ Owns(p)' = 0

\* Nobody takes or finishes a connection.
LEMMA NobodyMoves ==
  ASSUME Owned, active' = active, NEW o \in Owners, Only(o), o \in Owners', Owns(o)' = Owns(o)
  PROVE  Owned'
PROOF
<1>1. \A p \in Owners : p \in Owners' /\ Owns(p)' = Owns(p)
  BY DEF Only
<1>2. \A p \in Owners' : p \in Owners \/ Owns(p)' = 0
  BY DEF Only
<1>3. {Owns(p)' : p \in Owners'} \ {0} = {Owns(p) : p \in Owners} \ {0}
  BY <1>1, <1>2
<1>4. \A p, q \in Owners' : Owns(p)' = Owns(q)' /\ Owns(p)' # 0 => p = q
  BY <1>1, <1>2 DEF Owned
<1> QED BY <1>3, <1>4 DEF Owned

\* A new connection is registered, for o, which had none.
LEMMA OwnerTakes ==
  ASSUME Owned, NEW c, c # 0, c \notin active, active' = active \union {c},
         NEW o \in Owners, Only(o), o \in Owners', Owns(o) = 0, Owns(o)' = c
  PROVE  Owned'
PROOF
<1>1. \A p \in Owners : p # o => p \in Owners' /\ Owns(p)' = Owns(p)
  BY DEF Only
<1>2. \A p \in Owners' : p \in Owners \/ Owns(p)' = 0
  BY DEF Only
<1>3. \A p \in Owners : Owns(p) # c
  BY DEF Owned
<1>4. {Owns(p)' : p \in Owners'} \ {0} = ({Owns(p) : p \in Owners} \ {0}) \union {c}
  BY <1>1, <1>2
<1>5. \A p, q \in Owners' : Owns(p)' = Owns(q)' /\ Owns(p)' # 0 => p = q
  BY <1>1, <1>2, <1>3 DEF Owned
<1> QED BY <1>4, <1>5 DEF Owned

\* The connection of o is finished, and o lets it go.
LEMMA OwnerDrops ==
  ASSUME Owned, NEW o \in Owners, Owns(o) # 0, active' = active \ {Owns(o)},
         Only(o), o \in Owners', Owns(o)' = 0
  PROVE  Owned'
PROOF
<1>1. \A p \in Owners : p # o => p \in Owners' /\ Owns(p)' = Owns(p)
  BY DEF Only
<1>2. \A p \in Owners' : p \in Owners \/ Owns(p)' = 0
  BY DEF Only
<1>3. \A p \in Owners : p # o => Owns(p) # Owns(o)
  BY DEF Owned
<1>4. {Owns(p)' : p \in Owners'} \ {0} = ({Owns(p) : p \in Owners} \ {0}) \ {Owns(o)}
  BY <1>1, <1>2, <1>3
<1>5. \A p, q \in Owners' : Owns(p)' = Owns(q)' /\ Owns(p)' # 0 => p = q
  BY <1>1, <1>2 DEF Owned
<1> QED BY <1>4, <1>5 DEF Owned

\* The same of the three things that a step may do with the tracker.
Keeps(o) == UNCHANGED trackerVars /\ Owns(o)' = Owns(o)
Takes(o) == add /\ Owns(o) = 0 /\ Owns(o)' = NewConn
Refuses(o) == refuse /\ Owns(o)' = Owns(o)
Drops(o) == /\ \E end \in {"ok", "failed"} : finish(Owns(o), end)
            /\ Owns(o) # 0 /\ Owns(o)' = 0

\* A step of o that does one of them keeps the tracker and the owners.
LEMMA OwnerStep ==
  ASSUME TrackerOK, Owned, NEW o \in Owners, o \in Owners', Only(o),
         Keeps(o) \/ Takes(o) \/ Refuses(o) \/ Drops(o)
  PROVE  TrackerOK' /\ Owned'
PROOF
<1>1. CASE Keeps(o)
  <2>1. TrackerOK' /\ active' = active
    BY <1>1 DEF Keeps, trackerVars, TrackerOK, TrackerAddsUp, Ended
  <2> QED BY <1>1, <2>1, NobodyMoves DEF Keeps
<1>2. CASE Takes(o)
  <2>1. TrackerOK' /\ active' = active \union {NewConn} /\ NewConn \notin active /\ NewConn # 0
    BY <1>2, AddKeeps DEF Takes
  <2> QED BY <1>2, <2>1, OwnerTakes DEF Takes
<1>3. CASE Refuses(o)
  <2>1. TrackerOK' /\ active' = active
    BY <1>3, RefuseKeeps DEF Refuses
  <2> QED BY <1>3, <2>1, NobodyMoves DEF Refuses
<1>4. CASE Drops(o)
  <2>1. Owns(o) \in active
    BY <1>4 DEF Drops, Owned
  <2>2. TrackerOK' /\ active' = active \ {Owns(o)}
    BY <1>4, <2>1, FinishKeeps DEF Drops
  <2> QED BY <1>4, <2>2, OwnerDrops DEF Drops
<1> QED BY <1>1, <1>2, <1>3, <1>4

\* A step of one inbound is not a step of the others.
LEMMA UDPOnly ==
  ASSUME NEW f \in FlowIds, UNCHANGED <<sflows, tcps>>, FlowIds' = FlowIds,
         \A g \in FlowIds : g # f => flows'[g] = flows[g]
  PROVE  Only(<<"udp", f>>) /\ <<"udp", f>> \in Owners /\ <<"udp", f>> \in Owners'
         /\ Owns(<<"udp", f>>) = flows[f].c /\ Owns(<<"udp", f>>)' = flows'[f].c
PROOF
<1>1. Owners' = Owners
  BY DEF Owners, SocksIds
<1>2. \A p \in Owners : p # <<"udp", f>> => Owns(p)' = Owns(p)
  <2> SUFFICES ASSUME NEW p \in Owners, p # <<"udp", f>> PROVE Owns(p)' = Owns(p)
    OBVIOUS
  <2>1. CASE \E g \in FlowIds : p = <<"udp", g>>
    BY <2>1 DEF Owns
  <2>2. CASE \E g \in SocksIds : p = <<"socks", g>>
    BY <2>2 DEF Owns
  <2>3. CASE \E t \in TCPInbounds : p = <<"tcp", t>>
    BY <2>3 DEF Owns
  <2> QED BY <2>1, <2>2, <2>3, OwnsIs
<1>3. Owns(<<"udp", f>>) = flows[f].c /\ Owns(<<"udp", f>>)' = flows'[f].c
  BY DEF Owns
<1> QED BY <1>1, <1>2, <1>3, OwnsIs DEF Only

\* The same for a flow of the association ...
LEMMA SocksOnly ==
  ASSUME NEW f \in SocksIds, UNCHANGED <<flows, tcps>>, SocksIds' = SocksIds,
         \A g \in SocksIds : g # f => sflows'[g].c = sflows[g].c
  PROVE  Only(<<"socks", f>>) /\ <<"socks", f>> \in Owners /\ <<"socks", f>> \in Owners'
         /\ Owns(<<"socks", f>>) = sflows[f].c /\ Owns(<<"socks", f>>)' = sflows'[f].c
PROOF
<1>1. Owners' = Owners
  BY DEF Owners, FlowIds
<1>2. \A p \in Owners : p # <<"socks", f>> => Owns(p)' = Owns(p)
  <2> SUFFICES ASSUME NEW p \in Owners, p # <<"socks", f>> PROVE Owns(p)' = Owns(p)
    OBVIOUS
  <2>1. CASE \E g \in FlowIds : p = <<"udp", g>>
    BY <2>1 DEF Owns
  <2>2. CASE \E g \in SocksIds : p = <<"socks", g>>
    BY <2>2 DEF Owns
  <2>3. CASE \E t \in TCPInbounds : p = <<"tcp", t>>
    BY <2>3 DEF Owns
  <2> QED BY <2>1, <2>2, <2>3, OwnsIs
<1>3. Owns(<<"socks", f>>) = sflows[f].c /\ Owns(<<"socks", f>>)' = sflows'[f].c
  BY DEF Owns
<1> QED BY <1>1, <1>2, <1>3, OwnsIs DEF Only

\* ... and for a handler.
LEMMA TCPOnly ==
  ASSUME NEW t \in TCPInbounds, UNCHANGED <<flows, sflows>>,
         \A u \in TCPInbounds : u # t => tcps'[u] = tcps[u]
  PROVE  Only(<<"tcp", t>>) /\ <<"tcp", t>> \in Owners /\ <<"tcp", t>> \in Owners'
         /\ Owns(<<"tcp", t>>) = tcps[t].c /\ Owns(<<"tcp", t>>)' = tcps'[t].c
PROOF
<1>1. Owners' = Owners
  BY DEF Owners, FlowIds, SocksIds
<1>2. \A p \in Owners : p # <<"tcp", t>> => Owns(p)' = Owns(p)
  <2> SUFFICES ASSUME NEW p \in Owners, p # <<"tcp", t>> PROVE Owns(p)' = Owns(p)
    OBVIOUS
  <2>1. CASE \E g \in FlowIds : p = <<"udp", g>>
    BY <2>1 DEF Owns
  <2>2. CASE \E g \in SocksIds : p = <<"socks", g>>
    BY <2>2 DEF Owns
  <2>3. CASE \E u \in TCPInbounds : p = <<"tcp", u>>
    BY <2>3 DEF Owns
  <2> QED BY <2>1, <2>2, <2>3, OwnsIs
<1>3. Owns(<<"tcp", t>>) = tcps[t].c /\ Owns(<<"tcp", t>>)' = tcps'[t].c
  BY DEF Owns
<1> QED BY <1>1, <1>2, <1>3, OwnsIs DEF Only

\* Nobody's connection changes, though flows may have been made.
LEMMA StillOwned ==
  ASSUME TrackerOK, Owned, UNCHANGED trackerVars, FlowIds \subseteq FlowIds', SocksIds \subseteq SocksIds',
         \A f \in FlowIds' : flows'[f].c = IF f \in FlowIds THEN flows[f].c ELSE 0,
         \A f \in SocksIds' : sflows'[f].c = IF f \in SocksIds THEN sflows[f].c ELSE 0,
         tcps' = tcps
  PROVE  TrackerOK' /\ Owned'
PROOF
<1>1. "socks" \in TCPInbounds
  BY DEF TCPInbounds
<1> DEFINE o == <<"tcp", "socks">>
<1>2. Owners \subseteq Owners'
  BY DEF Owners
<1>3. \A p \in Owners : Owns(p)' = Owns(p)
  <2> SUFFICES ASSUME NEW p \in Owners PROVE Owns(p)' = Owns(p)
    OBVIOUS
  <2>1. CASE \E g \in FlowIds : p = <<"udp", g>>
    BY <2>1 DEF Owns
  <2>2. CASE \E g \in SocksIds : p = <<"socks", g>>
    BY <2>2 DEF Owns
  <2>3. CASE \E u \in TCPInbounds : p = <<"tcp", u>>
    BY <2>3 DEF Owns
  <2> QED BY <2>1, <2>2, <2>3, OwnsIs
<1>4. \A p \in Owners' : p \in Owners \/ Owns(p)' = 0
  <2> SUFFICES ASSUME NEW p \in Owners', p \notin Owners PROVE Owns(p)' = 0
    OBVIOUS
  <2>1. CASE \E g \in FlowIds' : p = <<"udp", g>>
    BY <2>1, OwnsIs DEF Owns
  <2>2. CASE \E g \in SocksIds' : p = <<"socks", g>>
    BY <2>2, OwnsIs DEF Owns
  <2>3. CASE \E u \in TCPInbounds : p = <<"tcp", u>>
    BY <2>3, OwnsIs
  <2> QED BY <2>1, <2>2, <2>3 DEF Owners
<1>5. o \in Owners /\ o \in Owners' /\ Only(o)
  BY <1>1, <1>2, <1>3, <1>4, OwnsIs DEF Only
<1>6. Keeps(o)
  BY <1>3, <1>5 DEF Keeps
<1> QED BY <1>5, <1>6, OwnerStep

-----------------------------------------------------------------------------
(* Captured UDP.                                                           *)

\* What a step may do with the tracker, for somebody who has connection c
\* before it and d after it.
Tracked(c, d) ==
  \/ UNCHANGED trackerVars /\ d = c
  \/ add /\ c = 0 /\ d = NewConn
  \/ refuse /\ d = c
  \/ (\E end \in {"ok", "failed"} : finish(c, end)) /\ c # 0 /\ d = 0

\* A connection is numbered from 1; 0 stands for none.
LEMMA NewConnType == TrackerOK => NewConn \in Nat /\ NewConn # 0
PROOF
  BY DEF TrackerOK, NewConn

\* A flow's record becomes r.
LEMMA FlowMoved ==
  ASSUME TrackerOK, Owned, UDPOK, NEW f \in FlowIds, NEW r \in Flow, flows' = [flows EXCEPT ![f] = r],
         Carries(r), Tracked(flows[f].c, r.c), UNCHANGED <<sflows, tcps>>,
         serve' = serve \/ (serve' \in Reader /\ serve'.pc # "queue"),
         table' \in [Keys -> 0..Len(flows)], wire' \in [Keys -> Nat]
  PROVE  UDPOK' /\ TrackerOK' /\ Owned'
PROOF
<1>1. flows \in Seq(Flow) /\ f \in 1..Len(flows)
  BY DEF UDPOK, FlowIds
<1>2. /\ flows' \in Seq(Flow) /\ Len(flows') = Len(flows)
      /\ \A g \in 1..Len(flows) : flows'[g] = IF g = f THEN r ELSE flows[g]
  BY <1>1, ExceptSeq
<1>3. FlowIds' = FlowIds
  BY <1>2 DEF FlowIds
<1>4. UDPOK'
  BY <1>2, <1>3 DEF UDPOK, FlowIds
<1>5. \A g \in FlowIds : g # f => flows'[g] = flows[g]
  BY <1>2 DEF FlowIds
<1>6. flows'[f] = r
  BY <1>1, <1>2
<1> DEFINE o == <<"udp", f>>
<1>7. Only(o) /\ o \in Owners /\ o \in Owners' /\ Owns(o) = flows[f].c /\ Owns(o)' = r.c
  BY <1>3, <1>5, <1>6, UDPOnly
<1> HIDE DEF o
<1>8. Keeps(o) \/ Takes(o) \/ Refuses(o) \/ Drops(o)
  BY <1>7 DEF Tracked, Keeps, Takes, Refuses, Drops
<1> QED BY <1>4, <1>7, <1>8, OwnerStep

\* The steps of a flow's goroutines.
LEMMA FlowSteps ==
  ASSUME IInv, NEW f \in FlowIds, UNCHANGED <<sflows, tcps>>,
         Run(f) \/ Pump(f) \/ SniffPacket(f) \/ DropPacket(f) \/ Quiet(f)
  PROVE  UDPOK' /\ TrackerOK' /\ Owned'
PROOF
<1>0. TrackerOK /\ Owned /\ UDPOK
  BY DEF IInv
<1>1. flows[f] \in Flow /\ Carries(flows[f]) /\ table \in [Keys -> 0..Len(flows)] /\ wire \in [Keys -> Nat]
  <2>1. flows \in Seq(Flow) /\ f \in 1..Len(flows)
    BY <1>0 DEF UDPOK, FlowIds
  <2>2. flows[f] \in Flow
    BY <2>1, ElementOfSeq
  <2> QED BY <1>0, <2>2 DEF UDPOK
<1> DEFINE r == flows[f]
<1>2. /\ r.c \in Nat /\ r.in \in Seq(Nat) /\ r.pending \in Seq(Nat) /\ r.key \in Keys
      /\ NewConn \in Nat /\ NewConn # 0 /\ Len(flows) \in Nat /\ <<>> \in Seq(Nat)
  <2>1. r.c \in Nat /\ r.in \in Seq(Nat) /\ r.pending \in Seq(Nat) /\ r.key \in Keys
    BY <1>1 DEF Flow
  <2>2. Len(flows) \in Nat
    BY <1>0 DEF UDPOK
  <2> QED BY <1>0, <2>1, <2>2, NewConnType, EmptySeq
<1>3. CASE Dialed(f)
  <2> DEFINE q == [r EXCEPT !.pc = "reply", !.up = "open"]
  <2>1. flows' = [flows EXCEPT ![f] = q]
    BY <1>3 DEF Dialed
  <2>2. q \in Flow
    BY <1>1 DEF Flow, Ends
  <2>3. Carries(q) /\ Tracked(r.c, q.c)
    BY <1>1, <1>3 DEF Dialed, at, Carries, Flow, Tracked
  <2>4. serve' = serve /\ table' = table /\ wire' = wire
    BY <1>3 DEF Dialed
  <2> HIDE DEF q
  <2> QED BY <1>0, <1>1, <2>1, <2>2, <2>3, <2>4, FlowMoved
<1>4. CASE DialFails(f)
  <2> DEFINE q == [r EXCEPT !.pc = "failed", !.c = 0]
  <2>1. flows' = [flows EXCEPT ![f] = q]
    BY <1>4 DEF DialFails
  <2>2. q \in Flow
    BY <1>1 DEF Flow, Ends
  <2>3. Carries(q) /\ Tracked(r.c, q.c)
    BY <1>1, <1>4 DEF DialFails, at, Carries, Flow, Tracked
  <2>4. serve' = serve /\ table' = table /\ wire' = wire
    BY <1>4 DEF DialFails
  <2> HIDE DEF q
  <2> QED BY <1>0, <1>1, <2>1, <2>2, <2>3, <2>4, FlowMoved
<1>5. CASE Reply(f)
  <2> DEFINE q == [r EXCEPT !.pc = "pending", !.down = "open"]
  <2>1. flows' = [flows EXCEPT ![f] = q]
    BY <1>5 DEF Reply
  <2>2. q \in Flow
    BY <1>1 DEF Flow, Ends
  <2>3. Carries(q) /\ Tracked(r.c, q.c)
    BY <1>1, <1>5 DEF Reply, at, Carries, Flow, Tracked
  <2>4. serve' = serve /\ table' = table /\ wire' = wire
    BY <1>5 DEF Reply
  <2> HIDE DEF q
  <2> QED BY <1>0, <1>1, <2>1, <2>2, <2>3, <2>4, FlowMoved
<1>6. CASE ReplyFails(f)
  <2> DEFINE q == [r EXCEPT !.pc = "failed", !.up = "closed", !.c = 0]
  <2>1. flows' = [flows EXCEPT ![f] = q]
    BY <1>6 DEF ReplyFails
  <2>2. q \in Flow
    BY <1>1 DEF Flow, Ends
  <2>3. Carries(q) /\ Tracked(r.c, q.c)
    BY <1>1, <1>6 DEF ReplyFails, at, Carries, Flow, Tracked
  <2>4. serve' = serve /\ table' = table /\ wire' = wire
    BY <1>6 DEF ReplyFails
  <2> HIDE DEF q
  <2> QED BY <1>0, <1>1, <2>1, <2>2, <2>3, <2>4, FlowMoved
<1>7. CASE PumpInDone(f)
  <2> DEFINE q == [r EXCEPT !.pumps = @ \ {"in"}]
  <2>1. flows' = [flows EXCEPT ![f] = q]
    BY <1>7 DEF PumpInDone
  <2>2. q \in Flow
    BY <1>1 DEF Flow, Ends
  <2>3. Carries(q) /\ Tracked(r.c, q.c)
    BY <1>1, <1>7 DEF PumpInDone, at, Carries, Flow, Tracked
  <2>4. serve' = serve /\ table' = table /\ wire' = wire
    BY <1>7 DEF PumpInDone
  <2> HIDE DEF q
  <2> QED BY <1>0, <1>1, <2>1, <2>2, <2>3, <2>4, FlowMoved
<1>8. CASE PumpSocket(f)
  <2> DEFINE q == [r EXCEPT !.idle = FALSE]
  <2>1. flows' = [flows EXCEPT ![f] = q]
    BY <1>8 DEF PumpSocket
  <2>2. q \in Flow
    BY <1>1 DEF Flow, Ends
  <2>3. Carries(q) /\ Tracked(r.c, q.c)
    BY <1>1, <1>8 DEF PumpSocket, at, Carries, Flow, Tracked
  <2>4. serve' = serve /\ table' = table /\ wire' = wire
    BY <1>8 DEF PumpSocket
  <2> HIDE DEF q
  <2> QED BY <1>0, <1>1, <2>1, <2>2, <2>3, <2>4, FlowMoved
<1>9. CASE Quiet(f)
  <2> DEFINE q == [r EXCEPT !.idle = TRUE]
  <2>1. flows' = [flows EXCEPT ![f] = q]
    BY <1>9 DEF Quiet
  <2>2. q \in Flow
    BY <1>1 DEF Flow, Ends
  <2>3. Carries(q) /\ Tracked(r.c, q.c)
    BY <1>1, <1>9 DEF Quiet, at, Carries, Flow, Tracked
  <2>4. serve' = serve /\ table' = table /\ wire' = wire
    BY <1>9 DEF Quiet
  <2> HIDE DEF q
  <2> QED BY <1>0, <1>1, <2>1, <2>2, <2>3, <2>4, FlowMoved
<1>10. CASE Expire(f)
  <2> DEFINE q == [r EXCEPT !.done = TRUE]
  <2>1. flows' = [flows EXCEPT ![f] = q]
    BY <1>10 DEF Expire
  <2>2. q \in Flow
    BY <1>1 DEF Flow, Ends
  <2>3. Carries(q) /\ Tracked(r.c, q.c)
    BY <1>1, <1>10 DEF Expire, at, Carries, Flow, Tracked
  <2>4. serve' = serve /\ table' = table /\ wire' = wire
    BY <1>10 DEF Expire
  <2> HIDE DEF q
  <2> QED BY <1>0, <1>1, <2>1, <2>2, <2>3, <2>4, FlowMoved
<1>11. CASE CloseSockets(f)
  <2> DEFINE q == [r EXCEPT !.pc = "wait", !.up = "closed", !.down = "closed"]
  <2>1. flows' = [flows EXCEPT ![f] = q]
    BY <1>11 DEF CloseSockets
  <2>2. q \in Flow
    BY <1>1 DEF Flow, Ends
  <2>3. Carries(q) /\ Tracked(r.c, q.c)
    BY <1>1, <1>11 DEF CloseSockets, at, Carries, Flow, Tracked
  <2>4. serve' = serve /\ table' = table /\ wire' = wire
    BY <1>11 DEF CloseSockets
  <2> HIDE DEF q
  <2> QED BY <1>0, <1>1, <2>1, <2>2, <2>3, <2>4, FlowMoved
<1>12. CASE PumpsDone(f)
  <2> DEFINE q == [r EXCEPT !.pc = "unlist", !.c = 0]
  <2>1. flows' = [flows EXCEPT ![f] = q]
    BY <1>12 DEF PumpsDone
  <2>2. q \in Flow
    BY <1>1 DEF Flow, Ends
  <2>3. Carries(q) /\ Tracked(r.c, q.c)
    BY <1>1, <1>12 DEF PumpsDone, at, Carries, Flow, Tracked
  <2>4. serve' = serve /\ table' = table /\ wire' = wire
    BY <1>12 DEF PumpsDone
  <2> HIDE DEF q
  <2> QED BY <1>0, <1>1, <2>1, <2>2, <2>3, <2>4, FlowMoved
<1>13. CASE GiveUp(f)
  <2> DEFINE q == [r EXCEPT !.pc = "unlist"]
  <2>1. flows' = [flows EXCEPT ![f] = q]
    BY <1>13 DEF GiveUp
  <2>2. q \in Flow
    BY <1>1 DEF Flow, Ends
  <2>3. Carries(q) /\ Tracked(r.c, q.c)
    BY <1>1, <1>13 DEF GiveUp, at, Carries, Flow, Tracked
  <2>4. serve' = serve /\ table' = table /\ wire' = wire
    BY <1>13 DEF GiveUp
  <2> HIDE DEF q
  <2> QED BY <1>0, <1>1, <2>1, <2>2, <2>3, <2>4, FlowMoved
<1>a. ASSUME NEW seen, route(f, seen), at(f, "setup") \/ at(f, "sniff") \/ at(f, "sniffed"),
             UNCHANGED <<serve, table, wire>>
      PROVE  UDPOK' /\ TrackerOK' /\ Owned'
  <2>1. CASE refuse /\ flows' = [flows EXCEPT ![f].pc = "failed"]
    <3> DEFINE q == [r EXCEPT !.pc = "failed"]
    <3>1. flows' = [flows EXCEPT ![f] = q] /\ q \in Flow
      BY <1>1, <2>1 DEF Flow
    <3>2. Carries(q) /\ Tracked(r.c, q.c)
      BY <1>1, <1>a, <2>1 DEF at, Carries, Flow, Tracked
    <3> HIDE DEF q
    <3> QED BY <1>0, <1>1, <1>a, <3>1, <3>2, FlowMoved
  <2>2. CASE add /\ flows' = [flows EXCEPT ![f].pc = "dial", ![f].c = NewConn]
    <3> DEFINE q == [r EXCEPT !.pc = "dial", !.c = NewConn]
    <3>1. flows' = [flows EXCEPT ![f] = q]
      BY <2>2
    <3>2. q \in Flow
      BY <1>1, <1>2 DEF Flow
    <3>3. Carries(q) /\ Tracked(r.c, q.c)
      BY <1>1, <1>2, <1>a, <2>2 DEF at, Carries, Flow, Tracked
    <3> HIDE DEF q
    <3> QED BY <1>0, <1>1, <1>a, <3>1, <3>2, <3>3, FlowMoved
  <2> QED BY <1>a, <2>1, <2>2 DEF route
<1>14. CASE Setup(f)
  <2>1. at(f, "setup") /\ UNCHANGED <<serve, table, wire>>
    BY <1>14 DEF Setup
  <2>2. CASE \E seen : route(f, seen)
    BY <2>1, <2>2, <1>a
  <2>3. CASE refuse /\ flows' = [flows EXCEPT ![f].pc = "failed"]
    <3> DEFINE q == [r EXCEPT !.pc = "failed"]
    <3>1. flows' = [flows EXCEPT ![f] = q] /\ q \in Flow
      BY <1>1, <2>3 DEF Flow
    <3>2. Carries(q) /\ Tracked(r.c, q.c)
      BY <1>1, <2>1, <2>3 DEF at, Carries, Flow, Tracked
    <3> HIDE DEF q
    <3> QED BY <1>0, <1>1, <2>1, <3>1, <3>2, FlowMoved
  <2>4. CASE flows' = [flows EXCEPT ![f].pc = "sniff"] /\ UNCHANGED trackerVars
    <3> DEFINE q == [r EXCEPT !.pc = "sniff"]
    <3>1. flows' = [flows EXCEPT ![f] = q] /\ q \in Flow
      BY <1>1, <2>4 DEF Flow
    <3>2. Carries(q) /\ Tracked(r.c, q.c)
      BY <1>1, <2>1, <2>4 DEF at, Carries, Flow, Tracked
    <3> HIDE DEF q
    <3> QED BY <1>0, <1>1, <2>1, <3>1, <3>2, FlowMoved
  <2> QED BY <1>14, <2>2, <2>3, <2>4 DEF Setup
<1>15. CASE SniffEnds(f)
  BY <1>15, <1>a DEF SniffEnds
<1>16. CASE SniffPacket(f)
  <2>1. PICK pc \in {"sniff", "sniffed"} :
          flows' = [flows EXCEPT ![f].in = Tail(@), ![f].pending = Append(@, Head(flows[f].in)), ![f].pc = pc]
    BY <1>16 DEF SniffPacket
  <2>2. Tail(r.in) \in Seq(Nat) /\ Append(r.pending, Head(r.in)) \in Seq(Nat)
    BY <1>2, <1>16, HeadTailProperties, AppendProperties DEF SniffPacket
  <2> DEFINE q == [r EXCEPT !.in = Tail(@), !.pending = Append(@, Head(r.in)), !.pc = pc]
  <2>3. flows' = [flows EXCEPT ![f] = q]
    BY <2>1
  <2>4. q \in Flow
    BY <1>1, <2>2 DEF Flow
  <2>5. Carries(q) /\ Tracked(r.c, q.c) /\ serve' = serve /\ table' = table /\ wire' = wire
    BY <1>1, <1>16 DEF SniffPacket, at, Carries, Flow, Tracked
  <2> HIDE DEF q
  <2> QED BY <1>0, <1>1, <2>3, <2>4, <2>5, FlowMoved
<1>17. CASE DropPacket(f)
  <2> DEFINE q == [r EXCEPT !.in = Tail(@)]
  <2>1. flows' = [flows EXCEPT ![f] = q]
    BY <1>17 DEF DropPacket
  <2>2. Tail(r.in) \in Seq(Nat)
    BY <1>2, <1>17, HeadTailProperties DEF DropPacket
  <2>3. q \in Flow
    BY <1>1, <2>2 DEF Flow
  <2>4. Carries(q) /\ Tracked(r.c, q.c) /\ serve' = serve /\ table' = table /\ wire' = wire
    BY <1>1, <1>17 DEF DropPacket, at, Carries, Flow, Tracked
  <2> HIDE DEF q
  <2> QED BY <1>0, <1>1, <2>1, <2>3, <2>4, FlowMoved
<1>18. CASE PumpIn(f)
  <2> DEFINE q == [r EXCEPT !.in = Tail(@)]
  <2>1. flows' = [flows EXCEPT ![f] = q]
    BY <1>18 DEF PumpIn
  <2>2. Tail(r.in) \in Seq(Nat) /\ Head(r.in) \in Nat
    BY <1>2, <1>18, HeadTailProperties DEF PumpIn
  <2>3. q \in Flow
    BY <1>1, <2>2 DEF Flow
  <2>4. Carries(q) /\ Tracked(r.c, q.c) /\ serve' = serve /\ table' = table
    BY <1>1, <1>18 DEF PumpIn, at, Carries, Flow, Tracked
  <2>5. wire' \in [Keys -> Nat]
    BY <1>1, <2>2, <1>18 DEF PumpIn, write
  <2> HIDE DEF q
  <2> QED BY <1>0, <1>1, <2>1, <2>3, <2>4, <2>5, FlowMoved
<1>19. CASE Pending(f)
  <2> DEFINE q == [r EXCEPT !.pc = "pump", !.pending = <<>>, !.pumps = {"in", "down", "up"}]
  <2>1. flows' = [flows EXCEPT ![f] = q]
    BY <1>19 DEF Pending
  <2>2. q \in Flow
    BY <1>1, <1>2 DEF Flow
  <2>3. Carries(q) /\ Tracked(r.c, q.c) /\ serve' = serve /\ table' = table
    BY <1>1, <1>19 DEF Pending, at, Carries, Flow, Tracked
  <2>4. r.pending # <<>> => r.pending[Len(r.pending)] \in Nat
    BY <1>2, EmptySeq, ElementOfSeq
  <2>5. wire' \in [Keys -> Nat]
    BY <1>1, <1>2, <2>4, <1>19 DEF Pending, write
  <2> HIDE DEF q
  <2> QED BY <1>0, <1>1, <2>1, <2>2, <2>3, <2>5, FlowMoved
<1>b. ASSUME NEW p, PumpBreaks(f, p) PROVE UDPOK' /\ TrackerOK' /\ Owned'
  <2> DEFINE q == [r EXCEPT !.pumps = @ \ {p}, !.done = TRUE, !.firstErr = TRUE]
  <2>1. flows' = [flows EXCEPT ![f] = q]
    BY <1>b DEF PumpBreaks
  <2>2. q \in Flow
    BY <1>1 DEF Flow
  <2>3. Carries(q) /\ Tracked(r.c, q.c) /\ serve' = serve /\ table' = table /\ wire' = wire
    BY <1>1, <1>b DEF PumpBreaks, Carries, Flow, Tracked
  <2> HIDE DEF q
  <2> QED BY <1>0, <1>1, <2>1, <2>2, <2>3, FlowMoved
<1>c. ASSUME NEW p, PumpClosed(f, p) PROVE UDPOK' /\ TrackerOK' /\ Owned'
  <2> DEFINE q == [r EXCEPT !.pumps = @ \ {p}, !.done = TRUE]
  <2>1. flows' = [flows EXCEPT ![f] = q]
    BY <1>c DEF PumpClosed
  <2>2. q \in Flow
    BY <1>1 DEF Flow
  <2>3. Carries(q) /\ Tracked(r.c, q.c) /\ serve' = serve /\ table' = table /\ wire' = wire
    BY <1>1, <1>c DEF PumpClosed, Carries, Flow, Tracked
  <2> HIDE DEF q
  <2> QED BY <1>0, <1>1, <2>1, <2>2, <2>3, FlowMoved
<1>20. CASE Unlist(f)
  <2> DEFINE q == [newFlow(r.key) EXCEPT !.pc = "gone", !.up = r.up, !.down = r.down]
  <2>1. flows' = [flows EXCEPT ![f] = q]
    BY <1>20 DEF Unlist
  <2>2. q \in Flow
    BY <1>1, EmptySeq DEF newFlow, Flow
  <2>3. r.c = 0 /\ q.c = 0 /\ q.pc = "gone"
    BY <1>1, <1>20 DEF Unlist, at, Carries, newFlow
  <2>4. Carries(q) /\ Tracked(r.c, q.c)
    BY <2>3, <1>20 DEF Unlist, Carries, Tracked
  <2>5. serve' = serve /\ wire' = wire /\ table' \in [Keys -> 0..Len(flows)]
    BY <1>1, <1>2, <1>20 DEF Unlist
  <2> HIDE DEF q
  <2> QED BY <1>0, <1>1, <2>1, <2>2, <2>4, <2>5, FlowMoved
<1> QED
  BY <1>3, <1>4, <1>5, <1>6, <1>7, <1>8, <1>9, <1>10, <1>11, <1>12, <1>13, <1>14, <1>15, <1>16, <1>17, <1>18, <1>19, <1>20, <1>b, <1>c DEF Run, Pump

\* Serve's own steps, which make flows and never take or finish a connection.
LEMMA ServeSteps ==
  ASSUME IInv, UNCHANGED <<sflows, tcps>>, (\E k \in Keys : Dispatch(k)) \/ Queue \/ StopServing
  PROVE  UDPOK' /\ TrackerOK' /\ Owned'
PROOF
<1>0. /\ TrackerOK /\ Owned /\ UDPOK /\ flows \in Seq(Flow) /\ table \in [Keys -> 0..Len(flows)]
      /\ wire \in [Keys -> Nat] /\ serve \in Reader /\ FlowIds = 1..Len(flows)
      /\ serve.pc = "queue" => serve.flow \in FlowIds
      /\ \A f \in FlowIds : Carries(flows[f])
  BY DEF IInv, UDPOK, FlowIds
<1>1. Len(flows) \in Nat /\ DOMAIN flows = 1..Len(flows) /\ \A f \in FlowIds : flows[f] \in Flow
  BY <1>0, ElementOfSeq
<1>2. SocksIds' = SocksIds /\ \A f \in SocksIds' : sflows'[f].c = sflows[f].c
  BY DEF SocksIds
<1>3. ASSUME NEW k \in Keys, Dispatch(k) PROVE UDPOK' /\ TrackerOK' /\ Owned'
  <2>1. /\ serve.n + 1 \in Nat /\ UNCHANGED <<wire, trackerVars>>
        /\ [serve EXCEPT !.n = serve.n + 1] \in Reader
        /\ [serve EXCEPT !.n = serve.n + 1].pc = serve.pc
        /\ \A f \in Nat : [pc |-> "queue", n |-> serve.n + 1, flow |-> f] \in Reader
    BY <1>0, <1>3 DEF Dispatch, Reader
  <2>2. CASE /\ UNCHANGED <<table, flows>>
             /\ \/ table[k] # 0 /\ serve' = [pc |-> "queue", n |-> serve.n + 1, flow |-> table[k]]
                \/ serve' = [serve EXCEPT !.n = serve.n + 1]
    <3>1. table[k] \in 0..Len(flows)
      BY <1>0
    <3>0. ASSUME serve' \in Reader, serve'.pc = "read" \/ serve'.flow \in FlowIds PROVE UDPOK'
      <4>1. flows' = flows /\ table' = table /\ wire' = wire /\ FlowIds' = FlowIds
        BY <2>1, <2>2 DEF FlowIds
      <4>2. serve'.pc = "queue" => serve'.flow \in FlowIds
        BY <3>0
      <4> QED BY <1>0, <3>0, <4>1, <4>2 DEF UDPOK
    <3>2. ASSUME table[k] # 0, serve' = [pc |-> "queue", n |-> serve.n + 1, flow |-> table[k]] PROVE UDPOK'
      <4>1. serve'.flow \in FlowIds /\ serve' \in Reader
        BY <1>0, <1>1, <2>1, <3>1, <3>2
      <4> QED BY <4>1, <3>0
    <3>3. ASSUME serve' = [serve EXCEPT !.n = serve.n + 1] PROVE UDPOK'
      <4>1. serve' \in Reader /\ serve'.pc = "read"
        BY <2>1, <3>3, <1>3 DEF Dispatch
      <4> QED BY <4>1, <3>0
    <3>4. UDPOK'
      BY <2>2, <3>2, <3>3
    <3>5. FlowIds' = FlowIds
      BY <2>2 DEF FlowIds
    <3> QED BY <1>0, <1>2, <2>1, <2>2, <3>4, <3>5, StillOwned
  <2>3. CASE /\ flows' = Append(flows, newFlow(k)) /\ table' = [table EXCEPT ![k] = Len(flows) + 1]
             /\ serve' = [pc |-> "queue", n |-> serve.n + 1, flow |-> Len(flows) + 1]
    <3>1. newFlow(k) \in Flow /\ newFlow(k).c = 0 /\ Carries(newFlow(k))
      BY EmptySeq DEF newFlow, Flow, Ends, Carries
    <3> DEFINE new == newFlow(k)
    <3> HIDE DEF new
    <3>2. /\ flows' \in Seq(Flow) /\ Len(flows') = Len(flows) + 1 /\ flows'[Len(flows) + 1] = new
          /\ \A f \in 1..Len(flows) : flows'[f] = flows[f]
      BY <1>0, <2>3, <3>1, AppendProperties DEF new
    <3>3. FlowIds' = 1..Len(flows) + 1 /\ \A f \in FlowIds' : f \in FlowIds \/ f = Len(flows) + 1
      BY <1>0, <1>1, <3>2 DEF FlowIds
    <3>4. table' \in [Keys -> 0..Len(flows')]
      BY <1>0, <1>1, <2>3, <3>2
    <3>5. serve' \in Reader /\ serve'.flow \in FlowIds'
      BY <1>1, <2>1, <2>3, <3>3
    <3>6. \A f \in FlowIds' : Carries(flows'[f])
      BY <1>0, <3>1, <3>2, <3>3 DEF new
    <3>7. UDPOK'
      BY <1>0, <2>1, <3>2, <3>4, <3>5, <3>6 DEF UDPOK
    <3>8. Len(flows) + 1 \notin FlowIds /\ FlowIds \subseteq FlowIds'
      BY <1>0, <1>1, <3>3
    <3>9. \A f \in FlowIds' : flows'[f].c = IF f \in FlowIds THEN flows[f].c ELSE 0
      BY <1>0, <3>1, <3>2, <3>3, <3>8 DEF new
    <3> QED BY <1>0, <1>2, <2>1, <3>7, <3>8, <3>9, StillOwned
  <2> QED BY <1>3, <2>2, <2>3 DEF Dispatch
<1>4. CASE Queue
  <2> DEFINE f == serve.flow
             in == IF Len(flows[f].in) < FlowQueue THEN Append(flows[f].in, serve.n) ELSE flows[f].in
             q == [flows[f] EXCEPT !.idle = FALSE, !.in = in]
  <2>1. f \in FlowIds /\ flows[f] \in Flow /\ serve.n \in Nat
    BY <1>0, <1>1, <1>4 DEF Queue, Reader
  <2>2. in \in Seq(Nat)
    BY <2>1, AppendProperties DEF Flow
  <2>3. flows' = [flows EXCEPT ![f] = q]
    BY <1>4 DEF Queue
  <2>4. q \in Flow /\ q.c = flows[f].c /\ q.pc = flows[f].pc
    <3> HIDE DEF in
    <3> QED BY <2>1, <2>2 DEF Flow
  <2>5. Carries(q)
    BY <1>0, <2>1, <2>4 DEF Carries
  <2>6. UNCHANGED <<table, wire, trackerVars>>
    BY <1>4 DEF Queue
  <2>7. serve' \in Reader /\ serve'.pc # "queue"
    BY <1>0, <1>4 DEF Queue, Reader
  <2> HIDE DEF f, q
  <2>8. Tracked(flows[f].c, q.c)
    BY <2>4, <2>6 DEF Tracked
  <2> QED BY <1>0, <2>1, <2>3, <2>4, <2>5, <2>6, <2>7, <2>8, FlowMoved
<1>5. CASE StopServing
  <2>1. /\ flows' = closeAll /\ UNCHANGED <<table, wire, trackerVars>>
        /\ serve' \in Reader /\ serve'.pc # "queue"
    BY <1>0, <1>5 DEF StopServing, Reader
  <2>2. \A f \in FlowIds : LET q == [flows[f] EXCEPT !.done = @ \/ f \in {table[k] : k \in Listed}]
                           IN  q \in Flow /\ q.c = flows[f].c /\ q.pc = flows[f].pc
    <3> SUFFICES ASSUME NEW f \in FlowIds, NEW d \in BOOLEAN
                 PROVE  LET q == [flows[f] EXCEPT !.done = d]
                        IN  q \in Flow /\ q.c = flows[f].c /\ q.pc = flows[f].pc
      <4>1. ASSUME NEW f \in FlowIds PROVE (flows[f].done \/ f \in {table[k] : k \in Listed}) \in BOOLEAN
        BY <1>1 DEF Flow
      <4> QED BY <4>1
    <3>1. flows[f] \in Flow
      BY <1>1
    <3> QED BY <3>1 DEF Flow
  <2>3. /\ closeAll \in [1..Len(flows) -> Flow]
        /\ \A f \in FlowIds : closeAll[f].c = flows[f].c /\ closeAll[f].pc = flows[f].pc
    BY <1>0, <2>2 DEF closeAll
  <2>4. flows' \in Seq(Flow)
    BY <1>1, <2>1, <2>3, SeqDef
  <2>5. Len(flows') = Len(flows) /\ FlowIds' = FlowIds
    BY <1>0, <1>1, <2>1, <2>3, <2>4, LenProperties DEF FlowIds
  <2>6. UDPOK'
    BY <1>0, <2>1, <2>3, <2>4, <2>5 DEF UDPOK, Carries
  <2> QED BY <1>0, <1>2, <2>1, <2>3, <2>5, <2>6, StillOwned
<1> QED BY <1>3, <1>4, <1>5

-----------------------------------------------------------------------------
(* The order of packets.                                                   *)

Rising(s) == \A i, j \in 1..Len(s) : i < j => s[i] < s[j]
Before(s, b) == \A i \in 1..Len(s) : s[i] <= b

\* Packet w is written, then come those of p, then those of q; b is the last.
InLine(w, p, q, b) ==
  /\ Rising(p) /\ Rising(q) /\ Before(p, b) /\ Before(q, b) /\ w <= b
  /\ \A i \in 1..Len(p) : w < p[i]
  /\ \A j \in 1..Len(q) : w < q[j]
  /\ \A i \in 1..Len(p), j \in 1..Len(q) : p[i] < q[j]

\* The last packet that has been queued or dropped.
LastQueued == IF serve.pc = "queue" THEN serve.n - 1 ELSE serve.n

\* A flow's pumps run in the middle of its work, and after its pending packets.
PumpsInTurn(r) == r.pumps # {} => r.pc \in {"pump", "wait"} /\ r.pending = <<>>

\* A flow that has not ended is the one its key has in the table.
FlowOrder(f) ==
  /\ PumpsInTurn(flows[f])
  /\ flows[f].pc # "gone" =>
       /\ table[flows[f].key] = f
       /\ InLine(wire[flows[f].key], flows[f].pending, flows[f].in, LastQueued)
Order == (\A f \in FlowIds : FlowOrder(f)) /\ \A k \in Keys : wire[k] <= LastQueued

\* Every packet of the line is later than the one before it.
LEMMA LineRises ==
  ASSUME NEW w \in Nat, NEW p \in Seq(Nat), NEW q \in Seq(Nat), NEW b, InLine(w, p, q, b)
  PROVE  LET todo == <<w>> \o p \o q
         IN  \A i, j \in DOMAIN todo : i < j => todo[i] < todo[j]
PROOF
<1> DEFINE v == <<w>>
           u == v \o p
           todo == u \o q
<1>1. v \in Seq(Nat) /\ Len(v) = 1 /\ v[1] = w
  OBVIOUS
<1>2. Len(p) \in Nat /\ Len(q) \in Nat
  OBVIOUS
<1> HIDE DEF v
<1>3. /\ u \in Seq(Nat) /\ Len(u) = Len(v) + Len(p)
      /\ \A i \in 1..Len(v) + Len(p) : u[i] = IF i <= Len(v) THEN v[i] ELSE p[i - Len(v)]
  <2>1. v \in Seq(Nat) /\ p \in Seq(Nat)
    BY <1>1
  <2> QED BY <2>1, ConcatProperties
<1>4. Len(u) = 1 + Len(p) /\ u[1] = w /\ \A i \in 1..Len(u) : i = 1 \/ (i - 1 \in 1..Len(p) /\ u[i] = p[i - 1])
  BY <1>1, <1>2, <1>3
<1> HIDE DEF u
<1>5. /\ todo \in Seq(Nat) /\ Len(todo) = Len(u) + Len(q)
      /\ \A i \in 1..Len(u) + Len(q) : todo[i] = IF i <= Len(u) THEN u[i] ELSE q[i - Len(u)]
  <2>1. u \in Seq(Nat) /\ q \in Seq(Nat)
    BY <1>3
  <2> QED BY <2>1, ConcatProperties
<1>6. DOMAIN todo = 1..Len(u) + Len(q)
  BY <1>5
<1> HIDE DEF todo
<1>7. ASSUME NEW i \in DOMAIN todo
      PROVE  \/ i = 1 /\ todo[i] = w
             \/ i > 1 /\ i <= Len(u) /\ i - 1 \in 1..Len(p) /\ todo[i] = p[i - 1]
             \/ i > Len(u) /\ i - Len(u) \in 1..Len(q) /\ todo[i] = q[i - Len(u)]
  <2>1. i \in 1..Len(u) + Len(q) /\ i \in Nat /\ i >= 1 /\ Len(u) \in Nat /\ Len(u) >= 1
    BY <1>2, <1>4, <1>6, <1>7
  <2>2. todo[i] = IF i <= Len(u) THEN u[i] ELSE q[i - Len(u)]
    BY <1>5, <2>1
  <2>3. CASE i <= Len(u)
    <3>1. i \in 1..Len(u) /\ todo[i] = u[i]
      BY <2>1, <2>2, <2>3
    <3>2. i = 1 \/ (i > 1 /\ i - 1 \in 1..Len(p) /\ u[i] = p[i - 1])
      BY <1>4, <2>1, <3>1
    <3> QED BY <1>4, <2>3, <3>1, <3>2
  <2>4. CASE i > Len(u)
    <3>1. i - Len(u) \in 1..Len(q)
      BY <1>2, <2>1, <2>4
    <3>2. todo[i] = q[i - Len(u)]
      BY <2>1, <2>2, <2>4
    <3> QED BY <2>4, <3>1, <3>2
  <2> QED BY <2>1, <2>3, <2>4
<1>8. ASSUME NEW i \in DOMAIN todo, NEW j \in DOMAIN todo, i < j PROVE todo[i] < todo[j]
  <2>0. i \in Nat /\ j \in Nat /\ i >= 1 /\ Len(u) \in Nat /\ Len(u) >= 1
    BY <1>2, <1>4, <1>6, <1>8
  <2>1. CASE j > 1 /\ j <= Len(u) /\ j - 1 \in 1..Len(p) /\ todo[j] = p[j - 1]
    <3>1. CASE i = 1 /\ todo[i] = w
      BY <2>1, <3>1 DEF InLine
    <3>2. CASE i > 1 /\ i <= Len(u) /\ i - 1 \in 1..Len(p) /\ todo[i] = p[i - 1]
      <4>1. i - 1 < j - 1
        BY <1>8, <2>0
      <4> QED BY <2>1, <3>2, <4>1 DEF InLine, Rising
    <3>3. CASE i > Len(u)
      BY <1>8, <2>0, <2>1, <3>3
    <3> QED BY <1>7, <3>1, <3>2, <3>3
  <2>2. CASE j > Len(u) /\ j - Len(u) \in 1..Len(q) /\ todo[j] = q[j - Len(u)]
    <3>1. CASE i = 1 /\ todo[i] = w
      BY <2>2, <3>1 DEF InLine
    <3>2. CASE i > 1 /\ i <= Len(u) /\ i - 1 \in 1..Len(p) /\ todo[i] = p[i - 1]
      BY <2>2, <3>2 DEF InLine
    <3>3. CASE i > Len(u) /\ i - Len(u) \in 1..Len(q) /\ todo[i] = q[i - Len(u)]
      <4>1. i - Len(u) < j - Len(u)
        BY <1>8, <2>0
      <4> QED BY <2>2, <3>3, <4>1 DEF InLine, Rising
    <3> QED BY <1>7, <3>1, <3>2, <3>3
  <2>3. CASE j = 1
    BY <1>8, <2>0, <2>3
  <2> QED BY <1>7, <2>1, <2>2, <2>3
<1> QED BY <1>8 DEF todo, u, v

\* The first of q leaves: it is dropped, written, or put behind p.
LEMMA LineMoves ==
  ASSUME NEW w \in Nat, NEW p \in Seq(Nat), NEW q \in Seq(Nat), NEW b \in Int, InLine(w, p, q, b), q # <<>>
  PROVE  /\ InLine(w, p, Tail(q), b)
         /\ p = <<>> => InLine(Head(q), p, Tail(q), b)
         /\ InLine(w, Append(p, Head(q)), Tail(q), b)
PROOF
<1> DEFINE x == Head(q)
           t == Tail(q)
           s == Append(p, x)
<1>1. /\ Len(q) \in Nat \ {0} /\ Len(p) \in Nat /\ x = q[1] /\ x \in Nat
      /\ t \in Seq(Nat) /\ Len(t) = Len(q) - 1 /\ \A i \in 1..Len(t) : t[i] = q[i + 1]
  BY HeadTailProperties, EmptySeq
<1>2. /\ s \in Seq(Nat) /\ Len(s) = Len(p) + 1 /\ s[Len(p) + 1] = x
      /\ \A i \in 1..Len(p) : s[i] = p[i]
  BY <1>1, AppendProperties
<1> HIDE DEF x, t, s
<1>3. \A i \in 1..Len(t) : i + 1 \in 1..Len(q) /\ 1 < i + 1 /\ 1 \in 1..Len(q)
  BY <1>1
<1>4. /\ Rising(t) /\ Before(t, b)
      /\ \A i \in 1..Len(t) : w < t[i] /\ x < t[i]
      /\ \A i \in 1..Len(p), j \in 1..Len(t) : p[i] < t[j]
  <2>1. Rising(t)
    <3> SUFFICES ASSUME NEW i \in 1..Len(t), NEW j \in 1..Len(t), i < j PROVE t[i] < t[j]
      BY DEF Rising
    <3>1. i + 1 < j + 1 /\ i + 1 \in 1..Len(q) /\ j + 1 \in 1..Len(q)
      BY <1>1, <1>3
    <3> QED BY <1>1, <3>1 DEF InLine, Rising
  <2>2. Before(t, b) /\ \A i \in 1..Len(t) : w < t[i] /\ x < t[i]
    BY <1>1, <1>3 DEF InLine, Before, Rising
  <2>3. \A i \in 1..Len(p), j \in 1..Len(t) : p[i] < t[j]
    BY <1>1, <1>3 DEF InLine
  <2> QED BY <2>1, <2>2, <2>3
<1>5. w < x /\ x <= b /\ \A i \in 1..Len(p) : p[i] < x
  <2>1. 1 \in 1..Len(q)
    BY <1>1
  <2> QED BY <1>1, <2>1 DEF InLine, Before
<1>6. InLine(w, p, t, b)
  BY <1>4 DEF InLine
<1>7. p = <<>> => InLine(x, p, t, b)
  BY <1>4, <1>5 DEF InLine
<1>8. InLine(w, s, t, b)
  <2>0. \A i \in 1..Len(s) : i \in 1..Len(p) \/ i = Len(p) + 1
    BY <1>1, <1>2
  <2>1. Rising(s)
    <3> SUFFICES ASSUME NEW i \in 1..Len(s), NEW j \in 1..Len(s), i < j PROVE s[i] < s[j]
      BY DEF Rising
    <3>1. i \in 1..Len(p)
      BY <1>1, <1>2
    <3> QED BY <1>2, <1>5, <2>0, <3>1 DEF InLine, Rising
  <2>2. Before(s, b) /\ \A i \in 1..Len(s) : w < s[i]
    BY <1>2, <1>5, <2>0 DEF InLine, Before
  <2>3. \A i \in 1..Len(s), j \in 1..Len(t) : s[i] < t[j]
    BY <1>2, <1>4, <2>0
  <2> QED BY <1>4, <2>1, <2>2, <2>3 DEF InLine
<1> QED BY <1>6, <1>7, <1>8 DEF x, t, s

\* All of p is written.
LEMMA LineWritten ==
  ASSUME NEW w \in Nat, NEW p \in Seq(Nat), NEW q \in Seq(Nat), NEW b \in Int, InLine(w, p, q, b), p # <<>>
  PROVE  InLine(p[Len(p)], <<>>, q, b)
PROOF
<1>1. Len(p) \in 1..Len(p) /\ Len(<<>>) = 0
  BY EmptySeq
<1>2. 1..Len(<<>>) = {}
  BY <1>1
<1> QED BY <1>1, <1>2 DEF InLine, Rising, Before

\* A later packet joins the line.
LEMMA LineGrows ==
  ASSUME NEW w \in Nat, NEW p \in Seq(Nat), NEW q \in Seq(Nat), NEW n \in Nat, InLine(w, p, q, n - 1)
  PROVE  InLine(w, p, Append(q, n), n) /\ InLine(w, p, q, n)
PROOF
<1> DEFINE s == Append(q, n)
<1>1. Len(p) \in Nat /\ Len(q) \in Nat /\ n - 1 \in Int
  OBVIOUS
<1>2. Len(s) = Len(q) + 1 /\ s[Len(q) + 1] = n /\ \A i \in 1..Len(q) : s[i] = q[i]
  BY AppendProperties
<1> HIDE DEF s
<1>3. \A i \in 1..Len(s) : i \in 1..Len(q) \/ i = Len(q) + 1
  BY <1>1, <1>2
<1>4. (\A i \in 1..Len(p) : p[i] \in Nat) /\ \A i \in 1..Len(q) : q[i] \in Nat
  BY ElementOfSeq
<1>5. (\A i \in 1..Len(p) : p[i] < n) /\ (\A i \in 1..Len(q) : q[i] < n) /\ w < n
  BY <1>1, <1>4 DEF InLine, Before
<1>6. Before(p, n) /\ Before(q, n) /\ Before(s, n)
  <2>1. Before(p, n) /\ Before(q, n)
    BY <1>4, <1>5 DEF Before
  <2>2. \A i \in 1..Len(s) : s[i] <= n
    <3> SUFFICES ASSUME NEW i \in 1..Len(s) PROVE s[i] <= n
      OBVIOUS
    <3>1. CASE i \in 1..Len(q)
      BY <1>2, <2>1, <3>1 DEF Before
    <3>2. CASE i = Len(q) + 1
      BY <1>2, <3>2
    <3> QED BY <1>3, <3>1, <3>2
  <2> QED BY <2>1, <2>2 DEF Before
<1>7. Rising(s)
  <2> SUFFICES ASSUME NEW i \in 1..Len(s), NEW j \in 1..Len(s), i < j PROVE s[i] < s[j]
    BY DEF Rising
  <2>1. i \in 1..Len(q)
    BY <1>1, <1>2
  <2> QED BY <1>2, <1>3, <1>5, <2>1 DEF InLine, Rising
<1>8. (\A i \in 1..Len(s) : w < s[i]) /\ \A i \in 1..Len(p), j \in 1..Len(s) : p[i] < s[j]
  BY <1>2, <1>3, <1>5 DEF InLine
<1>9. w <= n
  BY <1>1, <1>5
<1>10. InLine(w, p, s, n)
  BY <1>5, <1>6, <1>7, <1>8, <1>9 DEF InLine
<1>11. InLine(w, p, q, n)
  BY <1>6, <1>9 DEF InLine
<1> QED BY <1>10, <1>11 DEF s

\* A flow's record becomes r, and w the last packet written for its key.
LEMMA OneMoves ==
  ASSUME UDPOK, Order, NEW f \in FlowIds, NEW r, flows' = [flows EXCEPT ![f] = r], r.key = flows[f].key,
         flows[f].pc # "gone", UNCHANGED <<serve, table>>, NEW w, wire' = [wire EXCEPT ![r.key] = w],
         PumpsInTurn(r), InLine(w, r.pending, r.in, LastQueued)
  PROVE  Order'
PROOF
<1>1. /\ flows \in Seq(Flow) /\ FlowIds = 1..Len(flows) /\ Len(flows) \in Nat /\ DOMAIN flows = 1..Len(flows)
      /\ wire \in [Keys -> Nat]
  BY DEF UDPOK, FlowIds
<1>2. \A g \in FlowIds : flows[g] \in Flow /\ flows[g].key \in Keys
  <2>1. \A g \in FlowIds : flows[g] \in Flow
    BY <1>1, ElementOfSeq
  <2> QED BY <2>1 DEF Flow
<1>3. flows'[f] = r /\ \A g \in FlowIds : g # f => flows'[g] = flows[g]
  BY <1>1
<1>4. FlowIds' = FlowIds
  <2> DEFINE S == Flow \union {r}
  <2>1. flows \in Seq(S) /\ f \in 1..Len(flows) /\ r \in S
    BY <1>1, SeqMonotonic
  <2> HIDE DEF S
  <2>2. Len(flows') = Len(flows)
    BY <2>1, ExceptSeq
  <2> QED BY <2>2 DEF FlowIds
<1>5. LastQueued' = LastQueued
  BY DEF LastQueued
<1>6. wire'[r.key] = w /\ \A k \in Keys : k # r.key => wire'[k] = wire[k]
  BY <1>1, <1>2
<1>7. \A k \in Keys : wire'[k] <= LastQueued
  BY <1>6 DEF Order, InLine
<1>8. table[r.key] = f
  BY DEF Order, FlowOrder
<1>9. FlowOrder(f)'
  BY <1>3, <1>5, <1>6, <1>8 DEF FlowOrder
<1>10. ASSUME NEW g \in FlowIds, g # f PROVE FlowOrder(g)'
  <2>1. flows'[g] = flows[g] /\ FlowOrder(g) /\ flows[g].key \in Keys
    BY <1>2, <1>3, <1>10 DEF Order
  <2>2. flows[g].pc # "gone" => flows[g].key # r.key
    BY <1>8, <1>10, <2>1 DEF FlowOrder
  <2> QED BY <1>5, <1>6, <2>1, <2>2 DEF FlowOrder
<1>11. \A g \in FlowIds' : FlowOrder(g)'
  BY <1>4, <1>9, <1>10
<1> QED BY <1>5, <1>7, <1>11 DEF Order

\* The packets stay where they are, and no pump starts.
LEMMA OneWaits ==
  ASSUME UDPOK, Order, NEW f \in FlowIds, NEW r, flows' = [flows EXCEPT ![f] = r], r.key = flows[f].key,
         flows[f].pc # "gone", UNCHANGED <<serve, table, wire>>, r.pending = flows[f].pending, r.in = flows[f].in,
         r.pumps \subseteq flows[f].pumps, r.pumps = {} \/ r.pc \in {"pump", "wait"}
  PROVE  Order'
PROOF
<1> DEFINE w == wire[r.key]
<1>1. wire \in [Keys -> Nat]
  BY DEF UDPOK
<1>2. wire' = [wire EXCEPT ![r.key] = w] /\ UNCHANGED <<serve, table>>
  BY <1>1
<1>3. FlowOrder(f)
  BY DEF Order
<1>4. PumpsInTurn(r)
  BY <1>3 DEF FlowOrder, PumpsInTurn
<1>5. InLine(w, r.pending, r.in, LastQueued)
  BY <1>3 DEF FlowOrder
<1> HIDE DEF w
<1> QED BY <1>2, <1>4, <1>5, OneMoves

\* The steps of a flow's goroutines.
LEMMA FlowsInOrder ==
  ASSUME UDPOK, Order, NEW f \in FlowIds, Run(f) \/ Pump(f) \/ SniffPacket(f) \/ DropPacket(f) \/ Quiet(f)
  PROVE  Order'
PROOF
<1> DEFINE r == flows[f]
           k == r.key
<1>1. /\ r \in Flow /\ FlowOrder(f) /\ PumpsInTurn(r) /\ wire \in [Keys -> Nat] /\ wire[k] \in Nat /\ k \in Keys
      /\ r.in \in Seq(Nat) /\ r.pending \in Seq(Nat) /\ LastQueued \in Int
  <2>1. r \in Flow
    BY ElementOfSeq DEF UDPOK, FlowIds
  <2>2. LastQueued \in Int
    BY DEF UDPOK, Reader, LastQueued
  <2>3. wire \in [Keys -> Nat] /\ wire[k] \in Nat /\ k \in Keys /\ r.in \in Seq(Nat) /\ r.pending \in Seq(Nat)
    BY <2>1 DEF UDPOK, Flow
  <2> QED BY <2>1, <2>2, <2>3 DEF Order, FlowOrder
<1>2. r.pc # "gone" => table[k] = f /\ InLine(wire[k], r.pending, r.in, LastQueued)
  BY <1>1 DEF FlowOrder
<1>3. ASSUME NEW q, flows' = [flows EXCEPT ![f] = q], q.key = k, r.pc # "gone", UNCHANGED <<serve, table, wire>>,
             q.pending = r.pending, q.in = r.in, q.pumps \subseteq r.pumps, q.pumps = {} \/ q.pc \in {"pump", "wait"}
      PROVE  Order'
  BY <1>3, OneWaits
<1>4. ASSUME NEW q, flows' = [flows EXCEPT ![f] = q], q.key = k, r.pc # "gone", UNCHANGED <<serve, table>>,
             NEW w, wire' = [wire EXCEPT ![k] = w], PumpsInTurn(q), InLine(w, q.pending, q.in, LastQueued)
      PROVE  Order'
  BY <1>4, OneMoves
<1>5. r.pc \notin {"pump", "wait"} => r.pumps = {}
  BY <1>1 DEF PumpsInTurn
<1>6. CASE Setup(f) \/ SniffEnds(f)
  <2>1. r.pc \in {"setup", "sniff", "sniffed"} /\ UNCHANGED <<serve, table, wire>>
    BY <1>6 DEF Setup, SniffEnds, at
  <2>2. \/ \E pc \in {"failed", "sniff"} : flows' = [flows EXCEPT ![f].pc = pc]
        \/ flows' = [flows EXCEPT ![f].pc = "dial", ![f].c = NewConn]
    BY <1>6 DEF Setup, SniffEnds, route
  <2>3. CASE flows' = [flows EXCEPT ![f].pc = "dial", ![f].c = NewConn]
    <3> DEFINE q == [r EXCEPT !.pc = "dial", !.c = NewConn]
    <3>1. flows' = [flows EXCEPT ![f] = q]
      BY <2>3
    <3>2. q.key = k /\ q.pending = r.pending /\ q.in = r.in /\ q.pumps = r.pumps
      BY <1>1 DEF Flow
    <3> HIDE DEF q, r, k
    <3> QED BY <1>3, <1>5, <2>1, <3>1, <3>2
  <2>4. ASSUME NEW pc \in {"failed", "sniff"}, flows' = [flows EXCEPT ![f].pc = pc] PROVE Order'
    <3> DEFINE q == [r EXCEPT !.pc = pc]
    <3>1. flows' = [flows EXCEPT ![f] = q]
      BY <2>4
    <3>2. q.key = k /\ q.pending = r.pending /\ q.in = r.in /\ q.pumps = r.pumps
      BY <1>1 DEF Flow
    <3> HIDE DEF q, r, k
    <3> QED BY <1>3, <1>5, <2>1, <3>1, <3>2
  <2> QED BY <2>2, <2>3, <2>4
<1>7. CASE Dialed(f)
  <2> DEFINE q == [r EXCEPT !.pc = "reply", !.up = "open"]
  <2>1. flows' = [flows EXCEPT ![f] = q] /\ UNCHANGED <<serve, table, wire>>
    BY <1>7 DEF Dialed
  <2>2. q.key = k /\ q.pending = r.pending /\ q.in = r.in /\ q.pumps \subseteq r.pumps
    BY <1>1 DEF Flow
  <2>3. r.pc # "gone" /\ r.pumps = {}
    BY <1>5, <1>7 DEF Dialed, at
  <2> HIDE DEF q, r, k
  <2> QED BY <1>3, <2>1, <2>2, <2>3
<1>8. CASE DialFails(f)
  <2> DEFINE q == [r EXCEPT !.pc = "failed", !.c = 0]
  <2>1. flows' = [flows EXCEPT ![f] = q] /\ UNCHANGED <<serve, table, wire>>
    BY <1>8 DEF DialFails
  <2>2. q.key = k /\ q.pending = r.pending /\ q.in = r.in /\ q.pumps \subseteq r.pumps
    BY <1>1 DEF Flow
  <2>3. r.pc # "gone" /\ r.pumps = {}
    BY <1>5, <1>8 DEF DialFails, at
  <2> HIDE DEF q, r, k
  <2> QED BY <1>3, <2>1, <2>2, <2>3
<1>9. CASE Reply(f)
  <2> DEFINE q == [r EXCEPT !.pc = "pending", !.down = "open"]
  <2>1. flows' = [flows EXCEPT ![f] = q] /\ UNCHANGED <<serve, table, wire>>
    BY <1>9 DEF Reply
  <2>2. q.key = k /\ q.pending = r.pending /\ q.in = r.in /\ q.pumps \subseteq r.pumps
    BY <1>1 DEF Flow
  <2>3. r.pc # "gone" /\ r.pumps = {}
    BY <1>5, <1>9 DEF Reply, at
  <2> HIDE DEF q, r, k
  <2> QED BY <1>3, <2>1, <2>2, <2>3
<1>10. CASE ReplyFails(f)
  <2> DEFINE q == [r EXCEPT !.pc = "failed", !.up = "closed", !.c = 0]
  <2>1. flows' = [flows EXCEPT ![f] = q] /\ UNCHANGED <<serve, table, wire>>
    BY <1>10 DEF ReplyFails
  <2>2. q.key = k /\ q.pending = r.pending /\ q.in = r.in /\ q.pumps \subseteq r.pumps
    BY <1>1 DEF Flow
  <2>3. r.pc # "gone" /\ r.pumps = {}
    BY <1>5, <1>10 DEF ReplyFails, at
  <2> HIDE DEF q, r, k
  <2> QED BY <1>3, <2>1, <2>2, <2>3
<1>11. CASE PumpInDone(f)
  <2> DEFINE q == [r EXCEPT !.pumps = @ \ {"in"}]
  <2>1. flows' = [flows EXCEPT ![f] = q] /\ UNCHANGED <<serve, table, wire>>
    BY <1>11 DEF PumpInDone
  <2>2. q.key = k /\ q.pending = r.pending /\ q.in = r.in /\ q.pumps \subseteq r.pumps
    BY <1>1 DEF Flow
  <2>3. r.pc \in {"pump", "wait"} /\ q.pc \in {"pump", "wait"}
    BY <1>1, <1>5, <1>11 DEF PumpInDone, Flow
  <2> HIDE DEF q, r, k
  <2> QED BY <1>3, <2>1, <2>2, <2>3
<1>12. CASE PumpSocket(f)
  <2> DEFINE q == [r EXCEPT !.idle = FALSE]
  <2>1. flows' = [flows EXCEPT ![f] = q] /\ UNCHANGED <<serve, table, wire>>
    BY <1>12 DEF PumpSocket
  <2>2. q.key = k /\ q.pending = r.pending /\ q.in = r.in /\ q.pumps \subseteq r.pumps
    BY <1>1 DEF Flow
  <2>3. r.pc \in {"pump", "wait"} /\ q.pc \in {"pump", "wait"}
    BY <1>1, <1>5, <1>12 DEF PumpSocket, Flow
  <2> HIDE DEF q, r, k
  <2> QED BY <1>3, <2>1, <2>2, <2>3
<1>13. CASE Quiet(f)
  <2> DEFINE q == [r EXCEPT !.idle = TRUE]
  <2>1. flows' = [flows EXCEPT ![f] = q] /\ UNCHANGED <<serve, table, wire>>
    BY <1>13 DEF Quiet
  <2>2. q.key = k /\ q.pending = r.pending /\ q.in = r.in /\ q.pumps \subseteq r.pumps
    BY <1>1 DEF Flow
  <2>3. r.pc \in {"pump", "wait"} /\ q.pc \in {"pump", "wait"}
    BY <1>1, <1>5, <1>13 DEF Quiet, Flow, at
  <2> HIDE DEF q, r, k
  <2> QED BY <1>3, <2>1, <2>2, <2>3
<1>14. CASE Expire(f)
  <2> DEFINE q == [r EXCEPT !.done = TRUE]
  <2>1. flows' = [flows EXCEPT ![f] = q] /\ UNCHANGED <<serve, table, wire>>
    BY <1>14 DEF Expire
  <2>2. q.key = k /\ q.pending = r.pending /\ q.in = r.in /\ q.pumps \subseteq r.pumps
    BY <1>1 DEF Flow
  <2>3. r.pc \in {"pump", "wait"} /\ q.pc \in {"pump", "wait"}
    BY <1>1, <1>5, <1>14 DEF Expire, Flow, at
  <2> HIDE DEF q, r, k
  <2> QED BY <1>3, <2>1, <2>2, <2>3
<1>15. CASE CloseSockets(f)
  <2> DEFINE q == [r EXCEPT !.pc = "wait", !.up = "closed", !.down = "closed"]
  <2>1. flows' = [flows EXCEPT ![f] = q] /\ UNCHANGED <<serve, table, wire>>
    BY <1>15 DEF CloseSockets
  <2>2. q.key = k /\ q.pending = r.pending /\ q.in = r.in /\ q.pumps \subseteq r.pumps
    BY <1>1 DEF Flow
  <2>3. r.pc \in {"pump", "wait"} /\ q.pc \in {"pump", "wait"}
    BY <1>1, <1>5, <1>15 DEF CloseSockets, Flow, at
  <2> HIDE DEF q, r, k
  <2> QED BY <1>3, <2>1, <2>2, <2>3
<1>16. CASE PumpsDone(f)
  <2> DEFINE q == [r EXCEPT !.pc = "unlist", !.c = 0]
  <2>1. flows' = [flows EXCEPT ![f] = q] /\ UNCHANGED <<serve, table, wire>>
    BY <1>16 DEF PumpsDone
  <2>2. q.key = k /\ q.pending = r.pending /\ q.in = r.in /\ q.pumps \subseteq r.pumps
    BY <1>1 DEF Flow
  <2>3. r.pc # "gone" /\ r.pumps = {}
    BY <1>16 DEF PumpsDone, at
  <2> HIDE DEF q, r, k
  <2> QED BY <1>3, <2>1, <2>2, <2>3
<1>17. CASE GiveUp(f)
  <2> DEFINE q == [r EXCEPT !.pc = "unlist"]
  <2>1. flows' = [flows EXCEPT ![f] = q] /\ UNCHANGED <<serve, table, wire>>
    BY <1>17 DEF GiveUp
  <2>2. q.key = k /\ q.pending = r.pending /\ q.in = r.in /\ q.pumps \subseteq r.pumps
    BY <1>1 DEF Flow
  <2>3. r.pc # "gone" /\ r.pumps = {}
    BY <1>5, <1>17 DEF GiveUp, at
  <2> HIDE DEF q, r, k
  <2> QED BY <1>3, <2>1, <2>2, <2>3
<1>18. ASSUME NEW p \in r.pumps, PumpBreaks(f, p) PROVE Order'
  <2> DEFINE q == [r EXCEPT !.pumps = @ \ {p}, !.done = TRUE, !.firstErr = TRUE]
  <2>1. flows' = [flows EXCEPT ![f] = q] /\ UNCHANGED <<serve, table, wire>>
    BY <1>18 DEF PumpBreaks
  <2>2. q.key = k /\ q.pending = r.pending /\ q.in = r.in /\ q.pumps \subseteq r.pumps
    BY <1>1 DEF Flow
  <2>3. r.pc \in {"pump", "wait"} /\ q.pc \in {"pump", "wait"}
    BY <1>1, <1>5, <1>18 DEF PumpBreaks, Flow
  <2> HIDE DEF q, r, k
  <2> QED BY <1>3, <2>1, <2>2, <2>3
<1>19. ASSUME NEW p \in r.pumps, PumpClosed(f, p) PROVE Order'
  <2> DEFINE q == [r EXCEPT !.pumps = @ \ {p}, !.done = TRUE]
  <2>1. flows' = [flows EXCEPT ![f] = q] /\ UNCHANGED <<serve, table, wire>>
    BY <1>19 DEF PumpClosed
  <2>2. q.key = k /\ q.pending = r.pending /\ q.in = r.in /\ q.pumps \subseteq r.pumps
    BY <1>1 DEF Flow
  <2>3. r.pc \in {"pump", "wait"} /\ q.pc \in {"pump", "wait"}
    BY <1>1, <1>5, <1>19 DEF PumpClosed, Flow
  <2> HIDE DEF q, r, k
  <2> QED BY <1>3, <2>1, <2>2, <2>3
<1>20. CASE Pending(f)
  <2> DEFINE q == [r EXCEPT !.pc = "pump", !.pending = <<>>, !.pumps = {"in", "down", "up"}]
             w == IF r.pending = <<>> THEN wire[k] ELSE r.pending[Len(r.pending)]
  <2>1. flows' = [flows EXCEPT ![f] = q] /\ wire' = [wire EXCEPT ![k] = w] /\ UNCHANGED <<serve, table>>
    BY <1>20 DEF Pending, write
  <2>2. q.key = k /\ q.pending = <<>> /\ q.in = r.in /\ q.pc = "pump"
    BY <1>1 DEF Flow
  <2>3. r.pc # "gone" /\ InLine(wire[k], r.pending, r.in, LastQueued)
    BY <1>2, <1>20 DEF Pending, at
  <2> HIDE DEF q, r, k
  <2>4. InLine(w, <<>>, r.in, LastQueued)
    BY <1>1, <2>3, LineWritten
  <2>5. PumpsInTurn(q)
    BY <2>2 DEF PumpsInTurn
  <2> HIDE DEF w
  <2> QED BY <1>4, <2>1, <2>2, <2>3, <2>4, <2>5
<1>21. CASE PumpIn(f)
  <2> DEFINE q == [r EXCEPT !.in = Tail(@)]
             w == Head(r.in)
  <2>1. flows' = [flows EXCEPT ![f] = q] /\ wire' = [wire EXCEPT ![k] = w] /\ UNCHANGED <<serve, table>>
    BY <1>21 DEF PumpIn, write
  <2>2. q.key = k /\ q.pending = r.pending /\ q.in = Tail(r.in) /\ q.pc = r.pc /\ q.pumps = r.pumps
    BY <1>1 DEF Flow
  <2>3. r.in # <<>> /\ r.pumps # {}
    BY <1>21 DEF PumpIn
  <2> HIDE DEF q, r, k
  <2>4. r.pc # "gone" /\ r.pending = <<>> /\ PumpsInTurn(q)
    BY <1>1, <2>2, <2>3 DEF PumpsInTurn
  <2>5. InLine(w, q.pending, q.in, LastQueued)
    BY <1>1, <1>2, <2>2, <2>3, <2>4, LineMoves
  <2> HIDE DEF w
  <2> QED BY <1>4, <2>1, <2>2, <2>4, <2>5
<1>22. CASE SniffPacket(f) \/ DropPacket(f)
  <2> DEFINE w == wire[k]
  <2>1. /\ wire' = [wire EXCEPT ![k] = w] /\ UNCHANGED <<serve, table>>
        /\ r.in # <<>> /\ r.pc \in {"sniff", "failed"}
    BY <1>1, <1>22 DEF SniffPacket, DropPacket, at
  <2>2. CASE flows' = [flows EXCEPT ![f].in = Tail(@)]
    <3> DEFINE q == [r EXCEPT !.in = Tail(@)]
    <3>1. flows' = [flows EXCEPT ![f] = q]
      BY <2>2
    <3>2. q.key = k /\ q.pending = r.pending /\ q.in = Tail(r.in) /\ q.pumps = r.pumps
      BY <1>1 DEF Flow
    <3> HIDE DEF q, r, k
    <3>3. InLine(w, q.pending, q.in, LastQueued)
      BY <1>1, <1>2, <2>1, <3>2, LineMoves
    <3>4. PumpsInTurn(q)
      BY <1>5, <2>1, <3>2 DEF PumpsInTurn
    <3> HIDE DEF w
    <3> QED BY <1>4, <2>1, <3>1, <3>2, <3>3, <3>4
  <2>3. ASSUME NEW pc \in {"sniff", "sniffed"},
               flows' = [flows EXCEPT ![f].in = Tail(@), ![f].pending = Append(@, Head(flows[f].in)), ![f].pc = pc]
        PROVE  Order'
    <3> DEFINE q == [r EXCEPT !.in = Tail(@), !.pending = Append(@, Head(r.in)), !.pc = pc]
    <3>1. flows' = [flows EXCEPT ![f] = q]
      BY <2>3
    <3>2. q.key = k /\ q.pending = Append(r.pending, Head(r.in)) /\ q.in = Tail(r.in) /\ q.pumps = r.pumps
      BY <1>1 DEF Flow
    <3> HIDE DEF q, r, k
    <3>3. InLine(w, q.pending, q.in, LastQueued)
      BY <1>1, <1>2, <2>1, <3>2, LineMoves
    <3>4. PumpsInTurn(q)
      BY <1>5, <2>1, <3>2 DEF PumpsInTurn
    <3> HIDE DEF w
    <3> QED BY <1>4, <2>1, <3>1, <3>2, <3>3, <3>4
  <2> QED BY <1>22, <2>2, <2>3 DEF SniffPacket, DropPacket
<1>23. CASE Unlist(f)
  <2> DEFINE q == [newFlow(k) EXCEPT !.pc = "gone", !.up = r.up, !.down = r.down]
  <2>1. /\ flows' = [flows EXCEPT ![f] = q] /\ UNCHANGED <<serve, wire>> /\ r.pc # "gone"
        /\ table' = [table EXCEPT ![k] = 0]
    BY <1>2, <1>23 DEF Unlist, at
  <2>2. q.pc = "gone" /\ q.pumps = {}
    BY DEF newFlow
  <2> HIDE DEF q
  <2>3. /\ flows \in Seq(Flow) /\ FlowIds = 1..Len(flows) /\ Len(flows) \in Nat /\ DOMAIN flows = 1..Len(flows)
        /\ table \in [Keys -> 0..Len(flows)]
    BY DEF UDPOK, FlowIds
  <2>4. flows'[f] = q /\ \A g \in FlowIds : g # f => flows'[g] = flows[g]
    BY <2>1, <2>3
  <2>5. FlowIds' = FlowIds
    <3> DEFINE S == Flow \union {q}
    <3>1. flows \in Seq(S) /\ f \in 1..Len(flows) /\ q \in S
      BY <2>3, SeqMonotonic
    <3> HIDE DEF S
    <3>2. Len(flows') = Len(flows)
      BY <2>1, <3>1, ExceptSeq
    <3> QED BY <3>2 DEF FlowIds
  <2>6. LastQueued' = LastQueued
    BY <2>1 DEF LastQueued
  <2>7. FlowOrder(f)'
    BY <2>2, <2>4 DEF FlowOrder, PumpsInTurn
  <2>8. ASSUME NEW g \in FlowIds, g # f PROVE FlowOrder(g)'
    <3>1. flows'[g] = flows[g] /\ FlowOrder(g) /\ flows[g].key \in Keys
      <4>1. flows[g] \in Flow
        BY <2>3, ElementOfSeq
      <4> QED BY <2>4, <2>8, <4>1 DEF Order, Flow
    <3>2. flows[g].pc # "gone" => table'[flows[g].key] = table[flows[g].key]
      BY <1>2, <2>1, <2>3, <2>8, <3>1 DEF FlowOrder
    <3> QED BY <2>1, <2>6, <3>1, <3>2 DEF FlowOrder
  <2>9. \A g \in FlowIds' : FlowOrder(g)'
    BY <2>5, <2>7, <2>8
  <2> QED BY <2>1, <2>6, <2>9 DEF Order
<1>24. CASE Run(f)
  BY <1>6, <1>7, <1>8, <1>9, <1>10, <1>14, <1>15, <1>16, <1>17, <1>20, <1>23, <1>24 DEF Run
<1>25. CASE Pump(f)
  BY <1>11, <1>12, <1>18, <1>19, <1>21, <1>25 DEF Pump
<1> QED
  BY <1>13, <1>22, <1>24, <1>25

\* Serve's steps: a packet is later than all that came before.
LEMMA ServeInOrder ==
  ASSUME UDPOK, UDPOK', Order, (\E k \in Keys : Dispatch(k)) \/ Queue \/ StopServing
  PROVE  Order'
PROOF
<1>1. /\ flows \in Seq(Flow) /\ FlowIds = 1..Len(flows) /\ Len(flows) \in Nat /\ DOMAIN flows = 1..Len(flows)
      /\ table \in [Keys -> 0..Len(flows)] /\ wire \in [Keys -> Nat] /\ serve \in Reader
      /\ \A f \in FlowIds : flows[f] \in Flow
  BY ElementOfSeq DEF UDPOK, FlowIds
<1>2. /\ \A f \in FlowIds : /\ flows[f].key \in Keys /\ flows[f].in \in Seq(Nat) /\ flows[f].pending \in Seq(Nat)
                            /\ wire[flows[f].key] \in Nat /\ FlowOrder(f)
      /\ serve.n \in Nat /\ \A k \in Keys : wire[k] \in Nat /\ wire[k] <= LastQueued
  BY <1>1 DEF Order, Flow, Reader
<1>2a. serve.n \in Nat
  BY <1>1 DEF Reader
<1>3. ASSUME NEW k \in Keys, Dispatch(k) PROVE Order'
  <2>1. serve.pc = "read" /\ wire' = wire /\ LastQueued = serve.n
    BY <1>3 DEF Dispatch, LastQueued
  <2>2. CASE flows' = flows /\ table' = table
    <3>1. LastQueued' = serve.n \/ LastQueued' = serve.n + 1
      <4>1. \/ \E f \in Nat : serve' = [pc |-> "queue", n |-> serve.n + 1, flow |-> f]
            \/ serve' = [serve EXCEPT !.n = serve.n + 1]
        <5>1. table[k] \in Nat /\ Len(flows) + 1 \in Nat
          BY <1>1
        <5> QED BY <1>3, <5>1 DEF Dispatch
      <4>2. CASE \E f \in Nat : serve' = [pc |-> "queue", n |-> serve.n + 1, flow |-> f]
        <5>1. serve'.pc = "queue" /\ serve'.n = serve.n + 1
          BY <4>2
        <5> QED BY <1>2, <5>1 DEF LastQueued
      <4>3. CASE serve' = [serve EXCEPT !.n = serve.n + 1]
        <5>1. serve'.pc = "read" /\ serve'.n = serve.n + 1
          BY <1>1, <2>1, <4>3 DEF Reader
        <5> QED BY <5>1 DEF LastQueued
      <4> QED BY <4>1, <4>2, <4>3
    <3>2. \A f \in FlowIds : FlowOrder(f)'
      <4> SUFFICES ASSUME NEW f \in FlowIds PROVE FlowOrder(f)'
        OBVIOUS
      <4>1. ASSUME flows[f].pc # "gone"
            PROVE  InLine(wire[flows[f].key], flows[f].pending, flows[f].in, LastQueued')
        <5> DEFINE w == wire[flows[f].key]
                   p == flows[f].pending
                   q == flows[f].in
        <5>1. InLine(w, p, q, serve.n) /\ w \in Nat /\ p \in Seq(Nat) /\ q \in Seq(Nat)
          BY <1>2, <2>1, <4>1 DEF FlowOrder
        <5> HIDE DEF w, p, q
        <5>2. serve.n + 1 \in Nat /\ (serve.n + 1) - 1 = serve.n
          BY <1>2a
        <5>3. InLine(w, p, q, serve.n + 1)
          BY <5>1, <5>2, LineGrows
        <5> QED BY <3>1, <5>1, <5>3 DEF w, p, q
      <4> QED BY <1>2, <2>1, <2>2, <4>1 DEF FlowOrder
    <3>3. \A j \in Keys : wire[j] <= LastQueued'
      BY <1>2, <2>1, <3>1
    <3>4. FlowIds' = FlowIds
      BY <2>2 DEF FlowIds
    <3> QED BY <2>1, <3>2, <3>3, <3>4 DEF Order
  <2>3. CASE /\ table[k] = 0
             /\ flows' = Append(flows, newFlow(k)) /\ table' = [table EXCEPT ![k] = Len(flows) + 1]
             /\ serve' = [pc |-> "queue", n |-> serve.n + 1, flow |-> Len(flows) + 1]
    <3> DEFINE new == newFlow(k)
    <3>1. /\ new.key = k /\ new.in = <<>> /\ new.pending = <<>> /\ new.pumps = {} /\ new.pc # "gone"
          /\ new \in Flow
      BY EmptySeq DEF newFlow, Flow, Ends
    <3> HIDE DEF new
    <3>0. PICK m \in Nat : m = Len(flows) + 1
      BY <1>1
    <3>2. /\ flows'[m] = new /\ Len(flows') = m
          /\ \A f \in 1..Len(flows) : flows'[f] = flows[f]
      BY <1>1, <2>3, <3>0, <3>1, AppendProperties DEF new
    <3>3. FlowIds' = 1..m /\ \A f \in FlowIds' : f \in FlowIds \/ f = m
      BY <1>1, <3>0, <3>2 DEF FlowIds
    <3>4. LastQueued' = serve.n
      BY <1>2, <2>3 DEF LastQueued
    <3>5. ASSUME NEW f \in FlowIds PROVE FlowOrder(f)'
      <4>1. flows'[f] = flows[f] /\ FlowOrder(f) /\ flows[f].key \in Keys
        BY <1>1, <1>2, <3>2
      <4>2. flows[f].pc # "gone" => table'[flows[f].key] = table[flows[f].key]
        BY <1>1, <2>3, <4>1 DEF FlowOrder
      <4> QED BY <2>1, <3>4, <4>1, <4>2 DEF FlowOrder
    <3>6. FlowOrder(m)'
      <4>1. table'[k] = m
        BY <1>1, <2>3, <3>0
      <4>2. InLine(wire[k], <<>>, <<>>, serve.n)
        <5>1. 1..Len(<<>>) = {}
          BY EmptySeq
        <5> QED BY <1>2, <2>1, <5>1 DEF InLine, Rising, Before
      <4> QED BY <2>1, <3>1, <3>2, <3>4, <4>1, <4>2 DEF FlowOrder, PumpsInTurn
    <3>7. \A f \in FlowIds' : FlowOrder(f)'
      BY <3>3, <3>5, <3>6
    <3> QED BY <1>2, <2>1, <3>4, <3>7 DEF Order
  <2> QED BY <1>3, <2>2, <2>3 DEF Dispatch
<1>4. CASE Queue
  <2>0. PICK f \in FlowIds : f = serve.flow
    BY <1>4 DEF Queue, UDPOK
  <2> DEFINE r == flows[f]
             in == IF Len(r.in) < FlowQueue THEN Append(r.in, serve.n) ELSE r.in
             q == [r EXCEPT !.idle = FALSE, !.in = in]
  <2>1. /\ f \in FlowIds /\ serve.pc = "queue" /\ LastQueued = serve.n - 1 /\ LastQueued' = serve.n
        /\ table' = table /\ wire' = wire
    BY <1>1, <1>4 DEF Queue, LastQueued, Reader
  <2>2. flows' = [flows EXCEPT ![f] = q]
    BY <1>4, <2>0 DEF Queue
  <2>3. q.key = r.key /\ q.pc = r.pc /\ q.pending = r.pending /\ q.pumps = r.pumps /\ q.in = in
    BY <1>1, <2>1 DEF Flow
  <2> HIDE DEF q
  <2>4. flows'[f] = q /\ \A g \in FlowIds : g # f => flows'[g] = flows[g]
    BY <1>1, <2>1, <2>2
  <2>5. FlowIds' = FlowIds
    <3> DEFINE S == Flow \union {q}
    <3>1. flows \in Seq(S) /\ f \in 1..Len(flows) /\ q \in S
      BY <1>1, <2>1, SeqMonotonic
    <3> HIDE DEF S
    <3>2. Len(flows') = Len(flows)
      BY <2>2, <3>1, ExceptSeq
    <3> QED BY <3>2 DEF FlowIds
  <2>6. ASSUME NEW g \in FlowIds, flows[g].pc # "gone"
        PROVE  /\ InLine(wire[flows[g].key], flows[g].pending, Append(flows[g].in, serve.n), serve.n)
               /\ InLine(wire[flows[g].key], flows[g].pending, flows[g].in, serve.n)
    <3> DEFINE w == wire[flows[g].key]
               p == flows[g].pending
               s == flows[g].in
    <3>1. InLine(w, p, s, serve.n - 1) /\ w \in Nat /\ p \in Seq(Nat) /\ s \in Seq(Nat)
      BY <1>2, <2>1, <2>6 DEF FlowOrder
    <3> HIDE DEF w, p, s
    <3>2. InLine(w, p, Append(s, serve.n), serve.n) /\ InLine(w, p, s, serve.n)
      BY <1>2, <3>1, LineGrows
    <3> QED BY <3>2 DEF w, p, s
  <2>7. FlowOrder(f)'
    <3>1. FlowOrder(f) /\ PumpsInTurn(q)
      BY <1>2, <2>1, <2>3 DEF FlowOrder, PumpsInTurn
    <3>2. r.pc # "gone" => InLine(wire[r.key], q.pending, q.in, serve.n)
      BY <2>1, <2>3, <2>6
    <3> QED BY <2>1, <2>3, <2>4, <3>1, <3>2 DEF FlowOrder
  <2>8. ASSUME NEW g \in FlowIds, g # f PROVE FlowOrder(g)'
    BY <1>2, <2>1, <2>4, <2>6, <2>8 DEF FlowOrder
  <2>9. \A g \in FlowIds' : FlowOrder(g)'
    BY <2>5, <2>7, <2>8
  <2>10. \A k \in Keys : wire[k] <= serve.n
    BY <1>2, <2>1
  <2> QED BY <2>1, <2>9, <2>10 DEF Order
<1>5. CASE StopServing
  <2>1. flows' = closeAll /\ table' = table /\ wire' = wire /\ LastQueued' = LastQueued
    BY <1>1, <1>5 DEF StopServing, LastQueued, Reader
  <2>2. \A f \in FlowIds : LET q == [flows[f] EXCEPT !.done = @ \/ f \in {table[k] : k \in Listed}]
                           IN  /\ q.key = flows[f].key /\ q.pc = flows[f].pc /\ q.pumps = flows[f].pumps
                               /\ q.pending = flows[f].pending /\ q.in = flows[f].in
    BY <1>1 DEF Flow
  <2>3. \A f \in FlowIds : /\ flows'[f].key = flows[f].key /\ flows'[f].pc = flows[f].pc /\ flows'[f].pumps = flows[f].pumps
                           /\ flows'[f].pending = flows[f].pending /\ flows'[f].in = flows[f].in
    BY <2>1, <2>2 DEF closeAll
  <2>4. DOMAIN flows' = FlowIds
    BY <2>1 DEF closeAll
  <2>5. flows' \in Seq(Flow)
    BY DEF UDPOK
  <2>6. FlowIds' = FlowIds
    BY <1>1, <2>4, <2>5, LenProperties DEF FlowIds
  <2>7. \A f \in FlowIds : FlowOrder(f)'
    BY <1>2, <2>1, <2>3 DEF FlowOrder, PumpsInTurn
  <2> QED BY <1>2, <2>1, <2>6, <2>7 DEF Order
<1> QED BY <1>3, <1>4, <1>5

-----------------------------------------------------------------------------
(* The SOCKS association.                                                  *)

\* The record of flow f becomes r.
LEMMA SocksMoved ==
  ASSUME TrackerOK, Owned, SocksOK, NEW f \in SocksIds, NEW r \in SocksFlow, sflows' = [sflows EXCEPT ![f] = r],
         Tracked(sflows[f].c, r.c), UNCHANGED <<flows, tcps>>, stable' \in [Keys -> 0..Len(sflows)],
         HandlerOK(assoc', Len(sflows)), ExpireOK(expiry', Len(sflows)),
         Holds(r, Routing(assoc', f)), \A g \in SocksIds : g # f => Routing(assoc', g) = Routing(assoc, g)
  PROVE  SocksOK' /\ TrackerOK' /\ Owned'
PROOF
<1>1. sflows \in Seq(SocksFlow) /\ f \in 1..Len(sflows)
  BY DEF SocksOK, SocksIds
<1>2. /\ sflows' \in Seq(SocksFlow) /\ Len(sflows') = Len(sflows)
      /\ \A g \in 1..Len(sflows) : sflows'[g] = IF g = f THEN r ELSE sflows[g]
  BY <1>1, ExceptSeq
<1>3. SocksIds' = SocksIds
  BY <1>2 DEF SocksIds
<1>4. \A g \in SocksIds : Holds(sflows'[g], Routing(assoc', g))
  BY <1>2 DEF SocksOK, SocksIds
<1>5. SocksOK'
  <2>1. HandlerOK(assoc', Len(sflows')) /\ ExpireOK(expiry', Len(sflows')) /\ stable' \in [Keys -> 0..Len(sflows')]
    BY <1>2
  <2> QED BY <1>2, <1>3, <1>4, <2>1 DEF SocksOK
<1>6. \A g \in SocksIds : g # f => sflows'[g].c = sflows[g].c
  BY <1>2 DEF SocksIds
<1>7. sflows'[f] = r
  BY <1>1, <1>2
<1> DEFINE o == <<"socks", f>>
<1>8. Only(o) /\ o \in Owners /\ o \in Owners' /\ Owns(o) = sflows[f].c /\ Owns(o)' = r.c
  BY <1>3, <1>6, <1>7, SocksOnly
<1> HIDE DEF o
<1>9. Keeps(o) \/ Takes(o) \/ Refuses(o) \/ Drops(o)
  BY <1>8 DEF Tracked, Keeps, Takes, Refuses, Drops
<1> QED BY <1>5, <1>8, <1>9, OwnerStep

\* No flow changes, and none is being routed unless the handler stays.
LEMMA SocksStays ==
  ASSUME TrackerOK, Owned, SocksOK, UNCHANGED <<trackerVars, flows, stable, sflows, tcps>>,
         HandlerOK(assoc', Len(sflows)), ExpireOK(expiry', Len(sflows)),
         \A g \in SocksIds : Routing(assoc', g) = Routing(assoc, g)
  PROVE  SocksOK' /\ TrackerOK' /\ Owned'
PROOF
<1>1. FlowIds' = FlowIds /\ SocksIds' = SocksIds
  BY DEF FlowIds, SocksIds
<1>2. TrackerOK' /\ Owned'
  BY <1>1, StillOwned
<1>3. \A g \in SocksIds : Holds(sflows'[g], Routing(assoc', g))
  BY DEF SocksOK
<1>4. HandlerOK(assoc', Len(sflows')) /\ ExpireOK(expiry', Len(sflows'))
  OBVIOUS
<1>5. sflows' \in Seq(SocksFlow) /\ stable' \in [Keys -> 0..Len(sflows')]
  BY DEF SocksOK
<1>6. SocksOK'
  BY <1>1, <1>3, <1>4, <1>5 DEF SocksOK
<1> QED BY <1>2, <1>6

\* finish, called with flow f's record changed to q before, leaves its
\* connection and its socket to who was first.
LEMMA CallFinish ==
  ASSUME SocksOK, NEW f \in SocksIds, NEW q \in SocksFlow, NEW routing, Holds(q, routing),
         NEW err \in BOOLEAN, callFinish([sflows EXCEPT ![f] = q], f, err)
  PROVE  /\ stable' \in [Keys -> 0..Len(sflows)]
         /\ \E r \in SocksFlow : sflows' = [sflows EXCEPT ![f] = r] /\ r.c = q.c /\ Holds(r, routing)
PROOF
<1>1. /\ sflows \in Seq(SocksFlow) /\ f \in 1..Len(sflows) /\ DOMAIN sflows = 1..Len(sflows)
      /\ stable \in [Keys -> 0..Len(sflows)] /\ Len(sflows) \in Nat
  BY DEF SocksOK, SocksIds
<1> DEFINE sf == [sflows EXCEPT ![f] = q]
           r == [q EXCEPT !.fin = IF q.up = "none" THEN "done" ELSE "busy", !.err = err]
<1>2. sf[f] = q
  BY <1>1
<1>3. CASE q.fin # "no"
  <2>1. sflows' = sf /\ stable' = stable
    BY <1>2, <1>3 DEF callFinish
  <2> QED BY <1>1, <2>1
<1>4. CASE q.fin = "no"
  <2>1. /\ sflows' = [sf EXCEPT ![f].fin = IF sf[f].up = "none" THEN "done" ELSE "busy", ![f].err = err]
        /\ stable' = [k \in Keys |-> IF stable[k] = f THEN 0 ELSE stable[k]]
    BY <1>2, <1>4 DEF callFinish
  <2>2. sflows' = [sflows EXCEPT ![f] = r]
    BY <1>1, <1>2, <2>1
  <2>3. r \in SocksFlow /\ r.c = q.c /\ r.up = q.up /\ r.fin = IF q.up = "none" THEN "done" ELSE "busy"
    BY DEF SocksFlow
  <2>4. q.up \in {"none", "open"}
    BY <1>4 DEF Holds, SocksFlow, Ends
  <2> HIDE DEF r
  <2>5. Holds(r, routing)
    BY <2>3, <2>4 DEF Holds
  <2>6. stable' \in [Keys -> 0..Len(sflows)]
    BY <1>1, <2>1
  <2> QED BY <2>2, <2>3, <2>5, <2>6
<1> QED BY <1>3, <1>4

\* The handler's steps.
LEMMA HandlerSteps ==
  ASSUME IInv, UNCHANGED <<flows, tcps>>, Handler
  PROVE  SocksOK' /\ TrackerOK' /\ Owned'
PROOF
<1> DEFINE n == Len(sflows)
           f == assoc.flow
           r == sflows[f]
<1>0. /\ TrackerOK /\ Owned /\ SocksOK /\ sflows \in Seq(SocksFlow) /\ SocksIds = 1..n /\ n \in Nat
      /\ stable \in [Keys -> 0..n] /\ HandlerOK(assoc, n) /\ ExpireOK(expiry, n)
      /\ \A g \in SocksIds : sflows[g] \in SocksFlow /\ Holds(sflows[g], Routing(assoc, g))
      /\ NewConn \in Nat /\ NewConn # 0
  <2>1. TrackerOK /\ Owned /\ SocksOK
    BY DEF IInv
  <2>2. \A g \in SocksIds : sflows[g] \in SocksFlow
    BY <2>1, ElementOfSeq DEF SocksOK, SocksIds
  <2> QED BY <2>1, <2>2, NewConnType DEF SocksOK, SocksIds
<1>1. ASSUME NEW a, HandlerOK(a, n), a.pc \notin {"route", "dial"}, assoc.pc \notin {"route", "dial"}
      PROVE  \A g \in SocksIds : Routing(a, g) = "no" /\ Routing(assoc, g) = "no"
  BY <1>1 DEF Routing
<1>2. ASSUME NEW a, a.flow = f \/ a.pc \notin {"route", "dial"}
      PROVE  \A g \in SocksIds : g # f => Routing(a, g) = Routing(assoc, g)
  BY <1>2 DEF Routing
<1>3. CASE Route
  <2> DEFINE q == [r EXCEPT !.c = NewConn]
             a == [assoc EXCEPT !.pc = "dial"]
  <2>1. /\ sflows' = [sflows EXCEPT ![f] = q] /\ assoc' = a /\ stable' = stable /\ expiry' = expiry
        /\ assoc.pc = "route"
    BY <1>3 DEF Route, assocAt
  <2>2. f \in SocksIds /\ r \in SocksFlow /\ Holds(r, Routing(assoc, f)) /\ a.pc = "dial"
    BY <1>0, <2>1 DEF HandlerOK
  <2>3. q \in SocksFlow
    BY <1>0, <2>2 DEF SocksFlow, Ends
  <2>4. HandlerOK(a, n)
    BY <1>0, <2>1 DEF HandlerOK
  <2>5. Holds(q, Routing(a, f))
    BY <1>0, <2>1, <2>2 DEF Holds, Routing, SocksFlow, Ends, HandlerOK
  <2>6. Tracked(r.c, q.c)
    BY <1>0, <1>3, <2>1, <2>2 DEF Route, Tracked, Holds, Routing, SocksFlow
  <2>7. \A g \in SocksIds : g # f => Routing(a, g) = Routing(assoc, g)
    BY <1>0, <1>2, <2>1 DEF HandlerOK
  <2> HIDE DEF q, a, r
  <2> QED BY <1>0, <2>1, <2>2, <2>3, <2>4, <2>5, <2>6, <2>7, SocksMoved DEF r
<1>4. CASE Routed
  <2> DEFINE q == [r EXCEPT !.up = "open", !.replies = "read"]
             a == [assoc EXCEPT !.pc = "send"]
  <2>1. /\ sflows' = [sflows EXCEPT ![f] = q] /\ assoc' = a /\ stable' = stable /\ expiry' = expiry
        /\ assoc.pc = "dial"
    BY <1>4 DEF Routed, assocAt
  <2>2. f \in SocksIds /\ r \in SocksFlow /\ Holds(r, Routing(assoc, f)) /\ a.pc = "send"
    BY <1>0, <2>1 DEF HandlerOK
  <2>3. q \in SocksFlow
    BY <1>0, <2>2 DEF SocksFlow, Ends
  <2>4. HandlerOK(a, n)
    BY <1>0, <2>1 DEF HandlerOK
  <2>5. Holds(q, Routing(a, f))
    BY <1>0, <2>1, <2>2 DEF Holds, Routing, SocksFlow, Ends, HandlerOK
  <2>6. Tracked(r.c, q.c)
    BY <1>0, <1>4, <2>1, <2>2 DEF Routed, Tracked, Holds, Routing, SocksFlow
  <2>7. \A g \in SocksIds : g # f => Routing(a, g) = Routing(assoc, g)
    BY <1>0, <1>2, <2>1 DEF HandlerOK
  <2> HIDE DEF q, a, r
  <2> QED BY <1>0, <2>1, <2>2, <2>3, <2>4, <2>5, <2>6, <2>7, SocksMoved DEF r
<1>5. CASE RouteFails
  <2> DEFINE q == [r EXCEPT !.fail = TRUE, !.c = 0]
             a == [assoc EXCEPT !.pc = "read", !.flow = 0]
  <2>1. /\ sflows' = [sflows EXCEPT ![f] = q] /\ assoc' = a /\ stable' = stable /\ expiry' = expiry
        /\ assoc.pc = "dial"
    BY <1>5 DEF RouteFails, assocAt
  <2>2. f \in SocksIds /\ r \in SocksFlow /\ Holds(r, Routing(assoc, f)) /\ a.pc = "read"
    BY <1>0, <2>1 DEF HandlerOK
  <2>3. q \in SocksFlow
    BY <1>0, <2>2 DEF SocksFlow, Ends
  <2>4. HandlerOK(a, n)
    BY <1>0, <2>1 DEF HandlerOK
  <2>5. Holds(q, Routing(a, f))
    BY <1>0, <2>1, <2>2 DEF Holds, Routing, SocksFlow, Ends, HandlerOK
  <2>6. Tracked(r.c, q.c)
    BY <1>0, <1>5, <2>1, <2>2 DEF RouteFails, Tracked, Holds, Routing, SocksFlow
  <2>7. \A g \in SocksIds : g # f => Routing(a, g) = Routing(assoc, g)
    BY <1>0, <1>2, <2>1 DEF HandlerOK
  <2> HIDE DEF q, a, r
  <2> QED BY <1>0, <2>1, <2>2, <2>3, <2>4, <2>5, <2>6, <2>7, SocksMoved DEF r
<1>6. CASE Send
  <2> DEFINE q == [r EXCEPT !.old = FALSE]
             a == [assoc EXCEPT !.pc = "read", !.flow = 0]
  <2>1. /\ sflows' = [sflows EXCEPT ![f] = q] /\ assoc' = a /\ stable' = stable /\ expiry' = expiry
        /\ assoc.pc = "send"
    BY <1>6 DEF Send, assocAt
  <2>2. f \in SocksIds /\ r \in SocksFlow /\ Holds(r, Routing(assoc, f)) /\ a.pc = "read"
    BY <1>0, <2>1 DEF HandlerOK
  <2>3. q \in SocksFlow
    BY <1>0, <2>2 DEF SocksFlow, Ends
  <2>4. HandlerOK(a, n)
    BY <1>0, <2>1 DEF HandlerOK
  <2>5. Holds(q, Routing(a, f))
    BY <1>0, <2>1, <2>2 DEF Holds, Routing, SocksFlow, Ends, HandlerOK
  <2>6. Tracked(r.c, q.c)
    BY <1>0, <1>6, <2>1, <2>2 DEF Send, Tracked, Holds, Routing, SocksFlow
  <2>7. \A g \in SocksIds : g # f => Routing(a, g) = Routing(assoc, g)
    BY <1>0, <1>2, <2>1 DEF HandlerOK
  <2> HIDE DEF q, a, r
  <2> QED BY <1>0, <2>1, <2>2, <2>3, <2>4, <2>5, <2>6, <2>7, SocksMoved DEF r
<1>7. CASE SendFails
  <2> DEFINE q == [r EXCEPT !.old = FALSE]
             a == [assoc EXCEPT !.pc = "ending"]
  <2>1. /\ \E err \in BOOLEAN : callFinish([sflows EXCEPT ![f] = q], f, err)
        /\ assoc' = a /\ expiry' = expiry /\ assoc.pc = "send" /\ UNCHANGED trackerVars
    BY <1>7 DEF SendFails, assocAt
  <2>2. f \in SocksIds /\ r \in SocksFlow /\ Holds(r, Routing(assoc, f))
    BY <1>0, <2>1 DEF HandlerOK
  <2>3. q \in SocksFlow /\ q.c = r.c
    BY <2>2 DEF SocksFlow
  <2>4. HandlerOK(a, n) /\ a.pc = "ending"
    BY <1>0, <2>1 DEF HandlerOK
  <2>5. Routing(a, f) = Routing(assoc, f) /\ Holds(q, Routing(a, f))
    BY <2>1, <2>2, <2>4 DEF Holds, Routing, SocksFlow
  <2>6. \A g \in SocksIds : g # f => Routing(a, g) = Routing(assoc, g)
    BY <1>0, <1>2, <2>1, <2>4
  <2> HIDE DEF q, a, r
  <2>0. PICK err \in BOOLEAN : callFinish([sflows EXCEPT ![f] = q], f, err)
    BY <2>1
  <2>8. /\ stable' \in [Keys -> 0..n]
        /\ \E s \in SocksFlow : sflows' = [sflows EXCEPT ![f] = s] /\ s.c = q.c /\ Holds(s, Routing(a, f))
    BY <1>0, <2>0, <2>2, <2>3, <2>5, CallFinish
  <2>7. PICK s \in SocksFlow : sflows' = [sflows EXCEPT ![f] = s] /\ s.c = q.c /\ Holds(s, Routing(a, f))
    BY <2>8
  <2>9. Tracked(r.c, s.c)
    BY <2>1, <2>3, <2>7 DEF Tracked
  <2> QED BY <1>0, <2>1, <2>2, <2>4, <2>6, <2>7, <2>8, <2>9, SocksMoved DEF r
<1>8. ASSUME NEW g \in assoc.todo, CloseNext(g) PROVE SocksOK' /\ TrackerOK' /\ Owned'
  <2> DEFINE q == sflows[g]
             todo == assoc.todo \ {g}
             a == [assoc EXCEPT !.pc = "closing", !.flow = g, !.todo = todo]
  <2>1. /\ callFinish(sflows, g, FALSE)
        /\ assoc' = a /\ expiry' = expiry /\ assoc.pc = "closeAll" /\ UNCHANGED trackerVars
    BY <1>8 DEF CloseNext, assocAt
  <2>2. g \in SocksIds /\ q \in SocksFlow /\ Holds(q, Routing(assoc, g))
    BY <1>0, <1>8 DEF HandlerOK
  <2>3. HandlerOK(a, n) /\ a.pc = "closing"
    <3>1. g \in 1..n /\ g \in Nat /\ todo \in SUBSET (1..n)
      BY <1>0, <2>2 DEF HandlerOK
    <3> HIDE DEF todo
    <3> QED BY <1>0, <3>1 DEF HandlerOK
  <2>4. \A h \in SocksIds : Routing(a, h) = Routing(assoc, h)
    BY <1>1, <2>1, <2>3
  <2>5. Holds(q, Routing(a, g))
    BY <2>2, <2>4
  <2>6. sflows = [sflows EXCEPT ![g] = q]
    BY <1>0
  <2> HIDE DEF q, a
  <2>7. callFinish([sflows EXCEPT ![g] = q], g, FALSE)
    BY <2>1, <2>6
  <2>8. PICK s \in SocksFlow : sflows' = [sflows EXCEPT ![g] = s] /\ s.c = q.c /\ Holds(s, Routing(a, g))
    BY <1>0, <2>2, <2>5, <2>7, CallFinish
  <2>9. stable' \in [Keys -> 0..n]
    BY <1>0, <2>2, <2>5, <2>7, CallFinish
  <2>10. Tracked(sflows[g].c, s.c)
    BY <2>1, <2>8 DEF Tracked, q
  <2> QED BY <1>0, <2>1, <2>2, <2>3, <2>4, <2>8, <2>9, <2>10, SocksMoved
<1>9. CASE SendEnded \/ CloseAll \/ Closed \/ AssocOver
  <2>1. /\ UNCHANGED <<trackerVars, stable, sflows, expiry>>
        /\ assoc.pc \in {"ending", "read", "closeAll", "closing"}
    BY <1>9 DEF SendEnded, CloseAll, Closed, AssocOver, assocAt
  <2>2. HandlerOK(assoc', n) /\ assoc'.pc \in {"read", "closeAll", "over"}
    <3>1. CASE SendEnded
      BY <1>0, <3>1 DEF SendEnded, HandlerOK
    <3>2. CASE CloseAll
      <4>1. {stable[k] : k \in SocksListed} \in SUBSET (1..n)
        BY <1>0 DEF SocksListed
      <4> QED BY <1>0, <3>2, <4>1 DEF CloseAll, HandlerOK
    <3>3. CASE Closed
      BY <1>0, <3>3 DEF Closed, HandlerOK
    <3>4. CASE AssocOver
      BY <1>0, <3>4 DEF AssocOver, HandlerOK
    <3> QED BY <1>9, <3>1, <3>2, <3>3, <3>4
  <2>3. \A g \in SocksIds : Routing(assoc', g) = Routing(assoc, g)
    BY <1>1, <2>1, <2>2
  <2> QED BY <1>0, <2>1, <2>2, <2>3, SocksStays
<1> QED
  BY <1>3, <1>4, <1>5, <1>6, <1>7, <1>8, <1>9 DEF Handler

\* What others do to a flow: its answers, its age, its end.
LEMMA SocksFlowSteps ==
  ASSUME IInv, UNCHANGED <<flows, tcps>>, NEW f \in SocksIds, Answers(f) \/ ReplyRead(f) \/ Age(f)
  PROVE  SocksOK' /\ TrackerOK' /\ Owned'
PROOF
<1> DEFINE n == Len(sflows)
           r == sflows[f]
           b == Routing(assoc, f)
<1>0. /\ TrackerOK /\ Owned /\ SocksOK /\ sflows \in Seq(SocksFlow) /\ SocksIds = 1..n
      /\ stable \in [Keys -> 0..n] /\ HandlerOK(assoc, n) /\ ExpireOK(expiry, n)
      /\ r \in SocksFlow /\ Holds(r, b)
  <2>1. TrackerOK /\ Owned /\ SocksOK
    BY DEF IInv
  <2>2. \A g \in SocksIds : sflows[g] \in SocksFlow
    BY <2>1, ElementOfSeq DEF SocksOK, SocksIds
  <2> QED BY <2>1, <2>2 DEF SocksOK, SocksIds
<1>1. UNCHANGED <<assoc, expiry>>
  BY DEF Answers, ReplyEnds, ReplyGone, FinishFlow, ReplyRead, Age
<1>2. ASSUME NEW q \in SocksFlow, sflows' = [sflows EXCEPT ![f] = q], Holds(q, b),
             Tracked(r.c, q.c), stable' \in [Keys -> 0..n]
      PROVE  SocksOK' /\ TrackerOK' /\ Owned'
  BY <1>0, <1>1, <1>2, SocksMoved
<1>3. CASE ReplyRead(f)
  <2> DEFINE q == [r EXCEPT !.old = FALSE]
  <2>1. /\ sflows' = [sflows EXCEPT ![f] = q] /\ stable' = stable /\ UNCHANGED trackerVars
    BY <1>3 DEF ReplyRead
  <2>2. q \in SocksFlow /\ q.c = r.c
    BY <1>0 DEF SocksFlow
  <2>3. Holds(q, b) /\ Tracked(r.c, q.c)
    BY <1>0, <2>1, <2>2 DEF Holds, Tracked, SocksFlow
  <2> HIDE DEF q, r, b
  <2> QED BY <1>0, <1>2, <2>1, <2>2, <2>3
<1>4. CASE Age(f)
  <2> DEFINE q == [r EXCEPT !.old = TRUE]
  <2>1. /\ sflows' = [sflows EXCEPT ![f] = q] /\ stable' = stable /\ UNCHANGED trackerVars
    BY <1>4 DEF Age
  <2>2. q \in SocksFlow /\ q.c = r.c
    BY <1>0 DEF SocksFlow
  <2>3. Holds(q, b) /\ Tracked(r.c, q.c)
    BY <1>0, <2>1, <2>2 DEF Holds, Tracked, SocksFlow
  <2> HIDE DEF q, r, b
  <2> QED BY <1>0, <1>2, <2>1, <2>2, <2>3
<1>5. CASE ReplyGone(f)
  <2> DEFINE q == [r EXCEPT !.replies = "gone"]
  <2>1. /\ sflows' = [sflows EXCEPT ![f] = q] /\ stable' = stable /\ UNCHANGED trackerVars
    BY <1>5 DEF ReplyGone
  <2>2. q \in SocksFlow /\ q.c = r.c
    BY <1>0 DEF SocksFlow
  <2>3. Holds(q, b) /\ Tracked(r.c, q.c)
    BY <1>0, <2>1, <2>2 DEF Holds, Tracked, SocksFlow
  <2> HIDE DEF q, r, b
  <2> QED BY <1>0, <1>2, <2>1, <2>2, <2>3
<1>6. CASE FinishFlow(f)
  <2> DEFINE q == [r EXCEPT !.fin = "done", !.up = "closed", !.c = 0, !.err = FALSE, !.old = FALSE]
  <2>1. /\ sflows' = [sflows EXCEPT ![f] = q] /\ stable' = stable
        /\ r.fin = "busy" /\ \E end \in {"ok", "failed"} : finish(r.c, end)
    BY <1>6 DEF FinishFlow
  <2>2. q \in SocksFlow /\ q.c = 0 /\ q.fin = "done" /\ q.up = "closed"
    BY <1>0 DEF SocksFlow, Ends
  <2>3. r.c # 0 /\ b = "no"
    BY <1>0, <2>1 DEF Holds
  <2> HIDE DEF q, r, b
  <2>4. Holds(q, b) /\ Tracked(r.c, q.c)
    BY <2>1, <2>2, <2>3 DEF Holds, Tracked
  <2> QED BY <1>0, <1>2, <2>1, <2>2, <2>4
<1>7. CASE ReplyEnds(f)
  <2> DEFINE q == [r EXCEPT !.replies = "ending"]
  <2>1. (\E err \in BOOLEAN : callFinish([sflows EXCEPT ![f] = q], f, err)) /\ UNCHANGED trackerVars
    BY <1>7 DEF ReplyEnds
  <2>2. q \in SocksFlow /\ q.c = r.c
    BY <1>0 DEF SocksFlow
  <2>3. Holds(q, b)
    BY <1>0, <2>2 DEF Holds, SocksFlow
  <2> HIDE DEF q, r, b
  <2>4. PICK err \in BOOLEAN : callFinish([sflows EXCEPT ![f] = q], f, err)
    BY <2>1
  <2>5. /\ stable' \in [Keys -> 0..n]
        /\ \E s \in SocksFlow : sflows' = [sflows EXCEPT ![f] = s] /\ s.c = q.c /\ Holds(s, b)
    BY <1>0, <2>2, <2>3, <2>4, CallFinish
  <2>6. PICK s \in SocksFlow : sflows' = [sflows EXCEPT ![f] = s] /\ s.c = q.c /\ Holds(s, b)
    BY <2>5
  <2>7. Tracked(r.c, s.c)
    BY <2>1, <2>2, <2>6 DEF Tracked
  <2> QED BY <1>2, <2>5, <2>6, <2>7
<1> QED
  BY <1>3, <1>4, <1>5, <1>6, <1>7 DEF Answers

\* The goroutine expire, the client, and the handler's first steps.
LEMMA SocksOtherSteps ==
  ASSUME IInv, UNCHANGED <<env, flows, tcps>>,
         Associate \/ Hangup \/ ClosePort \/ Expiry \/ Collect \/ \E k \in env.dests : Datagram(k)
  PROVE  SocksOK' /\ TrackerOK' /\ Owned'
PROOF
<1> DEFINE n == Len(sflows)
<1>0. /\ TrackerOK /\ Owned /\ SocksOK /\ sflows \in Seq(SocksFlow) /\ SocksIds = 1..n /\ n \in Nat
      /\ stable \in [Keys -> 0..n] /\ HandlerOK(assoc, n) /\ ExpireOK(expiry, n)
      /\ \A g \in SocksIds : sflows[g] \in SocksFlow /\ Holds(sflows[g], Routing(assoc, g))
  <2>1. TrackerOK /\ Owned /\ SocksOK
    BY DEF IInv
  <2>2. \A g \in SocksIds : sflows[g] \in SocksFlow
    BY <2>1, ElementOfSeq DEF SocksOK, SocksIds
  <2> QED BY <2>1, <2>2 DEF SocksOK, SocksIds
<1>1. {stable[k] : k \in SocksListed} \subseteq 1..n
  BY <1>0 DEF SocksListed
<1>2. CASE Associate
  <2>1. /\ UNCHANGED <<trackerVars, stable, sflows>> /\ assoc.pc = "listen"
        /\ \E pc \in {"read", "over"} : assoc' = [assoc EXCEPT !.pc = pc]
        /\ expiry' = expiry \/ expiry' = [expiry EXCEPT !.on = TRUE]
    BY <1>2 DEF Associate, assocAt
  <2>2. HandlerOK(assoc', n) /\ assoc'.pc \in {"read", "over"} /\ ExpireOK(expiry', n)
    BY <1>0, <2>1 DEF HandlerOK, ExpireOK
  <2>3. \A g \in SocksIds : Routing(assoc', g) = Routing(assoc, g)
    BY <2>1, <2>2 DEF Routing
  <2> QED BY <1>0, <2>1, <2>2, <2>3, SocksStays
<1>3. CASE Hangup \/ ClosePort
  <2>1. UNCHANGED <<trackerVars, stable, sflows, assoc, expiry>>
    BY <1>3 DEF Hangup, ClosePort
  <2> QED BY <1>0, <2>1, SocksStays
<1>4. CASE Collect \/ Expired \/ ExpireStops
  <2>1. UNCHANGED <<trackerVars, stable, sflows, assoc>>
    BY <1>4 DEF Collect, Expired, ExpireStops
  <2>2. ExpireOK(expiry', n)
    <3>1. CASE Collect
      <4> DEFINE todo == {f \in {stable[k] : k \in SocksListed} : sflows[f].old}
      <4>1. expiry' = [expiry EXCEPT !.todo = todo] /\ todo \in SUBSET (1..n)
        BY <1>1, <3>1 DEF Collect
      <4> HIDE DEF todo
      <4> QED BY <1>0, <4>1 DEF ExpireOK
    <3>2. CASE Expired
      <4>1. expiry' = [expiry EXCEPT !.flow = 0] /\ 0 \in 0..n
        BY <1>0, <3>2 DEF Expired
      <4> QED BY <1>0, <4>1 DEF ExpireOK
    <3>3. CASE ExpireStops
      <4>1. expiry' = [expiry EXCEPT !.on = FALSE]
        BY <3>3 DEF ExpireStops
      <4> QED BY <1>0, <4>1 DEF ExpireOK
    <3> QED BY <1>4, <3>1, <3>2, <3>3
  <2> QED BY <1>0, <2>1, <2>2, SocksStays
<1>5. ASSUME NEW f \in expiry.todo, ExpireNext(f) PROVE SocksOK' /\ TrackerOK' /\ Owned'
  <2> DEFINE q == sflows[f]
             b == Routing(assoc, f)
             todo == expiry.todo \ {f}
  <2>1. /\ callFinish(sflows, f, FALSE) /\ assoc' = assoc /\ UNCHANGED trackerVars
        /\ expiry' = [expiry EXCEPT !.flow = f, !.todo = todo]
    BY <1>5 DEF ExpireNext
  <2>2. f \in SocksIds /\ q \in SocksFlow /\ Holds(q, b) /\ todo \in SUBSET (1..n)
    BY <1>0, <1>5 DEF ExpireOK
  <2>3. f \in 0..n
    BY <1>0, <2>2
  <2>4. sflows = [sflows EXCEPT ![f] = q]
    BY <1>0
  <2> HIDE DEF q, b, todo
  <2>5. ExpireOK(expiry', n)
    BY <1>0, <2>1, <2>2, <2>3 DEF ExpireOK
  <2>6. callFinish([sflows EXCEPT ![f] = q], f, FALSE)
    BY <2>1, <2>4
  <2>7. /\ stable' \in [Keys -> 0..n]
        /\ \E s \in SocksFlow : sflows' = [sflows EXCEPT ![f] = s] /\ s.c = q.c /\ Holds(s, b)
    BY <1>0, <2>2, <2>6, CallFinish
  <2>8. PICK s \in SocksFlow : sflows' = [sflows EXCEPT ![f] = s] /\ s.c = q.c /\ Holds(s, b)
    BY <2>7
  <2>9. Tracked(sflows[f].c, s.c)
    BY <2>1, <2>8 DEF Tracked, q
  <2>10. Holds(s, Routing(assoc', f))
    BY <2>1, <2>8 DEF b
  <2> QED BY <1>0, <2>1, <2>2, <2>5, <2>7, <2>8, <2>9, <2>10, SocksMoved
<1>6. ASSUME NEW k \in env.dests, Datagram(k) PROVE SocksOK' /\ TrackerOK' /\ Owned'
  <2>0. k \in Keys
    BY DEF IInv, Env
  <2>1. /\ assoc.pc = "read" /\ UNCHANGED <<trackerVars, expiry>> /\ stable[k] \in 0..n
    BY <1>0, <1>6, <2>0 DEF Datagram, assocAt
  <2>2. CASE UNCHANGED <<stable, sflows>>
             /\ \/ /\ stable[k] # 0
                   /\ assoc' = [assoc EXCEPT !.n = @ + 1, !.pc = IF sflows[stable[k]].up = "none" THEN "read" ELSE "send",
                                             !.flow = IF sflows[stable[k]].up = "none" THEN 0 ELSE stable[k]]
                \/ assoc' = [assoc EXCEPT !.n = @ + 1]
    <3>1. HandlerOK(assoc', n) /\ assoc'.pc \in {"read", "send"}
      <4> DEFINE m == assoc.n + 1
                 to == stable[k]
      <4>0. m \in Nat /\ to \in 0..n /\ to \in Nat /\ (to # 0 => to \in 1..n)
        BY <1>0, <2>1 DEF HandlerOK
      <4> HIDE DEF m, to
      <4>1. ASSUME assoc' = [assoc EXCEPT !.n = m, !.pc = "read", !.flow = 0]
            PROVE  HandlerOK(assoc', n) /\ assoc'.pc \in {"read", "send"}
        BY <1>0, <4>0, <4>1 DEF HandlerOK
      <4>2. ASSUME to # 0, assoc' = [assoc EXCEPT !.n = m, !.pc = "send", !.flow = to]
            PROVE  HandlerOK(assoc', n) /\ assoc'.pc \in {"read", "send"}
        BY <1>0, <4>0, <4>2 DEF HandlerOK
      <4>3. ASSUME assoc' = [assoc EXCEPT !.n = m]
            PROVE  HandlerOK(assoc', n) /\ assoc'.pc \in {"read", "send"}
        BY <1>0, <2>1, <4>0, <4>3 DEF HandlerOK
      <4> QED BY <2>2, <4>1, <4>2, <4>3 DEF m, to
    <3>2. \A g \in SocksIds : Routing(assoc', g) = Routing(assoc, g)
      BY <2>1, <3>1 DEF Routing
    <3> QED BY <1>0, <2>1, <2>2, <3>1, <3>2, SocksStays
  <2>3. CASE /\ sflows' = Append(sflows, newSocksFlow(k)) /\ stable' = [stable EXCEPT ![k] = n + 1]
             /\ assoc' = [assoc EXCEPT !.n = @ + 1, !.pc = "route", !.flow = n + 1]
    <3> DEFINE new == newSocksFlow(k)
    <3>1. new \in SocksFlow /\ new.c = 0 /\ new.up = "none" /\ new.fin = "no"
      BY <2>0 DEF newSocksFlow, SocksFlow, Ends
    <3> HIDE DEF new
    <3>2. /\ sflows' \in Seq(SocksFlow) /\ Len(sflows') = n + 1 /\ sflows'[n + 1] = new
          /\ \A f \in 1..n : sflows'[f] = sflows[f]
      BY <1>0, <2>3, <3>1, AppendProperties DEF new
    <3>3. /\ SocksIds' = 1..n + 1 /\ n + 1 \notin SocksIds /\ SocksIds \subseteq SocksIds'
          /\ \A f \in SocksIds' : f \in SocksIds \/ f = n + 1
      BY <1>0, <3>2 DEF SocksIds
    <3>4. stable' \in [Keys -> 0..n + 1]
      <4>1. n + 1 \in 0..n + 1 /\ \A x \in 0..n : x \in 0..n + 1
        BY <1>0
      <4> QED BY <1>0, <2>3, <4>1
    <3>5. HandlerOK(assoc', n + 1) /\ assoc'.pc = "route" /\ assoc'.flow = n + 1
      <4>1. n + 1 \in Nat /\ n + 1 \in 1..n + 1 /\ \A S \in SUBSET (1..n) : S \in SUBSET (1..n + 1)
        BY <1>0
      <4>2. assoc.todo \in SUBSET (1..n + 1) /\ assoc.n + 1 \in Nat
        BY <1>0, <4>1 DEF HandlerOK
      <4> QED BY <1>0, <2>3, <4>1, <4>2 DEF HandlerOK
    <3>6. ExpireOK(expiry', n + 1)
      <4>1. 0..n \subseteq 0..n + 1 /\ \A S \in SUBSET (1..n) : S \in SUBSET (1..n + 1)
        BY <1>0
      <4> QED BY <1>0, <2>1, <4>1 DEF ExpireOK
    <3>7. \A f \in SocksIds' : Holds(sflows'[f], Routing(assoc', f))
      <4>1. \A f \in SocksIds : Routing(assoc', f) = Routing(assoc, f) /\ sflows'[f] = sflows[f]
        BY <1>0, <2>1, <3>2, <3>3, <3>5 DEF Routing
      <4>2. Holds(new, Routing(assoc', n + 1))
        BY <3>1, <3>5 DEF Holds, Routing
      <4> QED BY <1>0, <3>2, <3>3, <4>1, <4>2
    <3>8. SocksOK'
      BY <3>2, <3>4, <3>5, <3>6, <3>7 DEF SocksOK
    <3>9. \A f \in SocksIds' : sflows'[f].c = IF f \in SocksIds THEN sflows[f].c ELSE 0
      BY <1>0, <3>1, <3>2, <3>3
    <3>10. FlowIds' = FlowIds /\ \A f \in FlowIds' : flows'[f].c = flows[f].c
      BY DEF FlowIds
    <3> QED BY <1>0, <2>1, <3>3, <3>8, <3>9, <3>10, StillOwned
  <2> QED BY <1>6, <2>2, <2>3 DEF Datagram
<1> QED
  BY <1>2, <1>3, <1>4, <1>5, <1>6 DEF Expiry

-----------------------------------------------------------------------------
(* TCP connections.                                                        *)

\* The record of handler t becomes h.
LEMMA TCPMoved ==
  ASSUME TrackerOK, Owned, TCPOK, NEW t \in TCPInbounds, NEW h \in TCPHandler, tcps' = [tcps EXCEPT ![t] = h],
         h.c # 0 <=> h.pc \in {"dial", "answer", "relay"}, Tracked(tcps[t].c, h.c), UNCHANGED <<flows, sflows>>
  PROVE  TCPOK' /\ TrackerOK' /\ Owned'
PROOF
<1>1. \A u \in TCPInbounds : tcps'[u] = IF u = t THEN h ELSE tcps[u]
  BY DEF TCPOK
<1>2. TCPOK'
  BY <1>1 DEF TCPOK
<1> DEFINE o == <<"tcp", t>>
<1>3. Only(o) /\ o \in Owners /\ o \in Owners' /\ Owns(o) = tcps[t].c /\ Owns(o)' = h.c
  BY <1>1, TCPOnly
<1> HIDE DEF o
<1>4. Keeps(o) \/ Takes(o) \/ Refuses(o) \/ Drops(o)
  BY <1>3 DEF Tracked, Keeps, Takes, Refuses, Drops
<1> QED BY <1>2, <1>3, <1>4, OwnerStep

\* The steps of the handlers.
LEMMA TCPSteps ==
  ASSUME IInv, UNCHANGED <<flows, sflows>>, TCPNext
  PROVE  TCPOK' /\ TrackerOK' /\ Owned'
PROOF
<1>0. TrackerOK /\ Owned /\ TCPOK /\ NewConn \in Nat /\ NewConn # 0
  BY NewConnType DEF IInv
<1> SUFFICES ASSUME NEW t \in TCPInbounds,
                    \/ Accept(t) \/ BadRequest(t) \/ TCPConnect(t) \/ TCPDialFails(t) \/ TCPDialed(t)
                    \/ Answer(t) \/ AnswerFails(t) \/ RelayEnds(t)
                    \/ \E p \in {"up", "down"} : PipeEnds(t, p)
             PROVE  TCPOK' /\ TrackerOK' /\ Owned'
  BY DEF TCPNext
<1> DEFINE r == tcps[t]
<1>1. r \in TCPHandler /\ (r.c # 0 <=> r.pc \in {"dial", "answer", "relay"})
  BY <1>0 DEF TCPOK
<1>2. ASSUME NEW h \in TCPHandler, tcps' = [tcps EXCEPT ![t] = h],
             h.c # 0 <=> h.pc \in {"dial", "answer", "relay"}, Tracked(r.c, h.c)
      PROVE  TCPOK' /\ TrackerOK' /\ Owned'
  BY <1>0, <1>2, TCPMoved
<1>3. CASE Accept(t)
  <2>1. PICK pc \in {"over", "connect"} : tcps' = [tcps EXCEPT ![t].pc = pc]
    BY <1>3 DEF Accept
  <2> DEFINE h == [r EXCEPT !.pc = pc]
  <2>2. tcps' = [tcps EXCEPT ![t] = h] /\ r.pc = "idle" /\ (refuse \/ UNCHANGED trackerVars)
    BY <1>3, <2>1 DEF Accept, tcpAt
  <2>3. h \in TCPHandler /\ h.c = r.c /\ h.pc = pc
    BY <1>1 DEF TCPHandler
  <2> HIDE DEF h, r
  <2>4. Tracked(r.c, h.c)
    BY <2>2, <2>3 DEF Tracked
  <2> QED BY <1>1, <1>2, <2>2, <2>3, <2>4
<1>4. CASE BadRequest(t)
  <2> DEFINE h == [r EXCEPT !.pc = "over"]
  <2>1. tcps' = [tcps EXCEPT ![t] = h] /\ r.pc = "idle" /\ UNCHANGED trackerVars
    BY <1>4 DEF BadRequest, tcpAt
  <2>2. h \in TCPHandler /\ h.c = r.c /\ h.pc = "over"
    BY <1>1 DEF TCPHandler
  <2> HIDE DEF h, r
  <2>3. Tracked(r.c, h.c)
    BY <2>1, <2>2 DEF Tracked
  <2> QED BY <1>1, <1>2, <2>1, <2>2, <2>3
<1>5. CASE TCPConnect(t)
  <2> DEFINE h == [r EXCEPT !.pc = "dial", !.c = NewConn]
  <2>1. tcps' = [tcps EXCEPT ![t] = h] /\ r.pc = "connect" /\ add
    BY <1>5 DEF TCPConnect, tcpAt
  <2>2. h \in TCPHandler /\ h.c = NewConn /\ h.pc = "dial"
    BY <1>0, <1>1 DEF TCPHandler
  <2> HIDE DEF h, r
  <2>3. Tracked(r.c, h.c)
    BY <1>1, <2>1, <2>2 DEF Tracked
  <2> QED BY <1>0, <1>2, <2>1, <2>2, <2>3
<1>6. CASE TCPDialFails(t) \/ AnswerFails(t) \/ RelayEnds(t)
  <2> DEFINE h == [r EXCEPT !.pc = "over", !.c = 0]
  <2>1. /\ tcps' = [tcps EXCEPT ![t] = h] /\ r.pc \in {"dial", "answer", "relay"}
        /\ \E end \in {"ok", "failed"} : finish(r.c, end)
    BY <1>6 DEF TCPDialFails, AnswerFails, RelayEnds, tcpAt
  <2>2. h \in TCPHandler /\ h.c = 0 /\ h.pc = "over"
    BY <1>1 DEF TCPHandler
  <2> HIDE DEF h, r
  <2>3. Tracked(r.c, h.c)
    BY <1>1, <2>1, <2>2 DEF Tracked
  <2> QED BY <1>2, <2>1, <2>2, <2>3
<1>7. CASE TCPDialed(t) \/ Answer(t)
  <2>1. PICK pc \in {"answer", "relay"}, copying \in SUBSET {"up", "down"} :
          tcps' = [tcps EXCEPT ![t].pc = pc, ![t].copying = copying]
    BY <1>7 DEF TCPDialed, Answer
  <2> DEFINE h == [r EXCEPT !.pc = pc, !.copying = copying]
  <2>2. tcps' = [tcps EXCEPT ![t] = h] /\ r.pc \in {"dial", "answer"} /\ UNCHANGED trackerVars
    BY <1>7, <2>1 DEF TCPDialed, Answer, tcpAt
  <2>3. h \in TCPHandler /\ h.c = r.c /\ h.pc = pc
    BY <1>1 DEF TCPHandler
  <2> HIDE DEF h, r
  <2>4. Tracked(r.c, h.c)
    BY <2>2, <2>3 DEF Tracked
  <2> QED BY <1>1, <1>2, <2>2, <2>3, <2>4
<1>8. ASSUME NEW p \in {"up", "down"}, PipeEnds(t, p) PROVE TCPOK' /\ TrackerOK' /\ Owned'
  <2> DEFINE copying == r.copying \ {p}
  <2>1. copying \in SUBSET {"up", "down"}
    BY <1>1 DEF TCPHandler
  <2>2. r.pc = "relay" /\ UNCHANGED trackerVars
    BY <1>8 DEF PipeEnds, tcpAt
  <2>3. PICK h \in TCPHandler : tcps' = [tcps EXCEPT ![t] = h] /\ h.c = r.c /\ h.pc = r.pc
    <3> DEFINE e == [r EXCEPT !.copying = copying, !.firstErr = TRUE]
               q == [r EXCEPT !.copying = copying]
    <3>1. tcps' = [tcps EXCEPT ![t] = e] \/ tcps' = [tcps EXCEPT ![t] = q]
      BY <1>8 DEF PipeEnds
    <3> HIDE DEF copying
    <3>2. e \in TCPHandler /\ e.c = r.c /\ e.pc = r.pc /\ q \in TCPHandler /\ q.c = r.c /\ q.pc = r.pc
      BY <1>1, <2>1 DEF TCPHandler
    <3> HIDE DEF e, q
    <3> QED BY <3>1, <3>2
  <2> HIDE DEF r
  <2>4. Tracked(r.c, h.c)
    BY <2>2, <2>3 DEF Tracked
  <2> QED BY <1>1, <1>2, <2>2, <2>3, <2>4
<1> QED BY <1>3, <1>4, <1>5, <1>6, <1>7, <1>8

-----------------------------------------------------------------------------

\* Nothing has happened yet: no flow, no connection.
LEMMA InitIInv == Init => IInv
PROOF
<1> SUFFICES ASSUME Init PROVE IInv
  OBVIOUS
<1> USE DEF Init, ProxyInit, UDPInit, SocksInit, TCPInit, TrackerInit
<1>1. flows = <<>> /\ sflows = <<>> /\ conns = <<>> /\ recent = <<>> /\ active = {} /\ failed = 0
  OBVIOUS
<1>2. FlowIds = {} /\ SocksIds = {} /\ DOMAIN conns = {} /\ DOMAIN recent = {} /\ 0 \in 0..0
  BY <1>1 DEF FlowIds, SocksIds
<1>3. env \in Env
  BY EnvsAssumption
<1>4. UDPOK
  <2>1. serve \in Reader /\ serve.pc = "read"
    BY DEF Reader
  <2>2. flows \in Seq(Flow) /\ Len(flows) = 0
    BY <1>1, EmptySeq
  <2>3. table \in [Keys -> 0..Len(flows)] /\ wire \in [Keys -> Nat]
    BY <1>2, <2>2
  <2> QED BY <1>2, <2>1, <2>2, <2>3 DEF UDPOK
<1>5. SocksOK
  <2>1. sflows \in Seq(SocksFlow) /\ Len(sflows) = 0
    BY <1>1, EmptySeq
  <2>2. stable \in [Keys -> 0..Len(sflows)]
    BY <1>2, <2>1
  <2>3. HandlerOK(assoc, Len(sflows))
    BY DEF HandlerOK
  <2>4. ExpireOK(expiry, Len(sflows))
    BY <1>2, <2>1 DEF ExpireOK
  <2> QED BY <1>2, <2>1, <2>2, <2>3, <2>4 DEF SocksOK
<1>6. TCPOK
  BY DEF TCPOK, TCPHandler, newTCP
<1>7. TrackerOK
  <2>1. Ended = {} /\ {c \in DOMAIN conns : conns[c] = "failed"} = {} /\ Cardinality({}) = 0 /\ Len(recent) = 0
    BY <1>1, <1>2, FS_EmptySet DEF Ended
  <2>2. 0 < RecentMax
    BY RecentMaxAssumption
  <2>3. TrackerAddsUp
    BY <1>1, <1>2, <2>1, <2>2 DEF TrackerAddsUp
  <2> QED BY <1>1, <2>3, EmptySeq DEF TrackerOK
<1>8. Owned
  <2>1. \A o \in Owners : Owns(o) = 0
    BY <1>2, OwnsIs DEF newTCP
  <2> QED BY <1>1, <2>1 DEF Owned
<1> QED BY <1>3, <1>4, <1>5, <1>6, <1>7, <1>8 DEF IInv

\* What the parts of IInv are about.
LEMMA OthersKeep ==
  /\ UNCHANGED <<env, socksVars, tcps>> => (IInv => (env \in Env)' /\ SocksOK' /\ TCPOK')
  /\ UNCHANGED <<env, udpVars, tcps>> => (IInv => (env \in Env)' /\ UDPOK' /\ TCPOK')
  /\ UNCHANGED <<env, udpVars, socksVars>> => (IInv => (env \in Env)' /\ UDPOK' /\ SocksOK')
PROOF
<1>1. UNCHANGED socksVars => (SocksOK => SocksOK')
  BY DEF socksVars, SocksOK, SocksIds
<1>2. UNCHANGED udpVars => (UDPOK => UDPOK')
  BY DEF udpVars, UDPOK, FlowIds
<1>3. UNCHANGED tcps => (TCPOK => TCPOK')
  BY DEF TCPOK
<1> QED BY <1>1, <1>2, <1>3 DEF IInv

\* One case per inbound; the others' parts stay.
LEMMA NextIInv == IInv /\ [Next]_vars => IInv'
PROOF
<1> SUFFICES ASSUME IInv, [Next]_vars PROVE IInv'
  OBVIOUS
<1>1. CASE UDPNext /\ UNCHANGED <<env, socksVars, tcps>>
  <2>1. UNCHANGED <<sflows, tcps>>
    BY <1>1 DEF socksVars
  <2>2. CASE (\E k \in env.dests : Dispatch(k)) \/ Queue \/ StopServing
    <3>1. env.dests \subseteq Keys
      BY DEF IInv, Env
    <3>2. UDPOK' /\ TrackerOK' /\ Owned'
      BY <2>1, <2>2, <3>1, ServeSteps
    <3> QED BY <1>1, <3>2, OthersKeep DEF IInv
  <2>3. CASE \E f \in FlowIds : Run(f) \/ Pump(f) \/ SniffPacket(f) \/ DropPacket(f) \/ Quiet(f)
    <3>1. UDPOK' /\ TrackerOK' /\ Owned'
      BY <2>1, <2>3, FlowSteps
    <3> QED BY <1>1, <3>1, OthersKeep DEF IInv
  <2> QED BY <1>1, <2>2, <2>3 DEF UDPNext
<1>2. CASE SocksNext /\ UNCHANGED <<env, udpVars, tcps>>
  <2>1. UNCHANGED <<flows, tcps>>
    BY <1>2 DEF udpVars
  <2>2. SocksOK' /\ TrackerOK' /\ Owned'
    <3>1. CASE Associate \/ Hangup \/ ClosePort \/ Expiry \/ Collect \/ \E k \in env.dests : Datagram(k)
      BY <1>2, <2>1, <3>1, SocksOtherSteps
    <3>2. CASE Handler
      BY <2>1, <3>2, HandlerSteps
    <3>3. CASE \E f \in SocksIds : Answers(f) \/ ReplyRead(f) \/ Age(f)
      BY <2>1, <3>3, SocksFlowSteps
    <3> QED BY <1>2, <3>1, <3>2, <3>3 DEF SocksNext
  <2> QED BY <1>2, <2>2, OthersKeep DEF IInv
<1>3. CASE TCPNext /\ UNCHANGED <<env, udpVars, socksVars>>
  <2>1. UNCHANGED <<flows, sflows>>
    BY <1>3 DEF udpVars, socksVars
  <2>2. TCPOK' /\ TrackerOK' /\ Owned'
    BY <2>1, <1>3, TCPSteps
  <2> QED BY <1>3, <2>2, OthersKeep DEF IInv
<1>4. CASE (Cancel \/ UNCHANGED vars) /\ UNCHANGED env
  <2>1. UNCHANGED <<trackerVars, udpVars, socksVars, tcps>>
    BY <1>4 DEF Cancel, vars
  <2>2. FlowIds' = FlowIds /\ SocksIds' = SocksIds /\ UNCHANGED <<trackerVars, flows, sflows, tcps>>
    BY <2>1 DEF FlowIds, SocksIds, udpVars, socksVars
  <2>3. TrackerOK' /\ Owned'
    BY <2>2, StillOwned DEF IInv
  <2> QED BY <1>4, <2>1, <2>3, OthersKeep DEF IInv
<1> QED BY <1>1, <1>2, <1>3, <1>4 DEF Next, Step, vars

\* What the panel shows as active is what the goroutines have yet to finish,
\* one each, and every other connection was finished once (Tracker.add and
\* finish, called by TransparentUDP.setup and run, socksAssoc.flow and finish,
\* Transparent.handle, SOCKS.handle and Router.Relay).
THEOREM InboundsConnsAddUp == Spec => []ConnsAddUp
PROOF
<1>1. IInv => ConnsAddUp
  BY DEF IInv, TrackerOK, Owned, ConnsAddUp
<1> QED BY InitIInv, NextIInv, <1>1, PTL DEF Spec

\* Nothing is in a queue.
LEMMA InitOrder == Init => Order
PROOF
<1> SUFFICES ASSUME Init PROVE Order
  OBVIOUS
<1>1. FlowIds = {}
  BY DEF Init, UDPInit, FlowIds
<1>2. LastQueued = 0 /\ \A k \in Keys : wire[k] = 0
  BY DEF Init, UDPInit, LastQueued
<1> QED BY <1>1, <1>2 DEF Order

\* Only captured UDP moves packets.
LEMMA NextOrder == IInv /\ IInv' /\ Order /\ [Next]_vars => Order'
PROOF
<1> SUFFICES ASSUME IInv, IInv', Order, [Next]_vars PROVE Order'
  OBVIOUS
<1>0. UDPOK /\ UDPOK' /\ env.dests \subseteq Keys
  BY DEF IInv, Env
<1>1. CASE UNCHANGED udpVars
  BY <1>1 DEF udpVars, Order, FlowOrder, FlowIds, LastQueued
<1>2. CASE UDPNext
  <2>1. CASE (\E k \in env.dests : Dispatch(k)) \/ Queue \/ StopServing
    BY <1>0, <2>1, ServeInOrder
  <2>2. CASE \E f \in FlowIds : Run(f) \/ Pump(f) \/ SniffPacket(f) \/ DropPacket(f) \/ Quiet(f)
    BY <1>0, <2>2, FlowsInOrder
  <2> QED BY <1>2, <2>1, <2>2 DEF UDPNext
<1> QED BY <1>1, <1>2 DEF Next, Step, Cancel, vars

\* The packets of a key reach its destination in the order the listener took
\* them, none twice, although a flow that has ended may be handed more of them
\* and its successor starts afresh (TransparentUDP.dispatch, sniffQUIC, run).
THEOREM InboundsInOrder == Spec => []InOrder
PROOF
<1>1. IInv /\ Order => InOrder
  <2> SUFFICES ASSUME IInv, Order, NEW f \in FlowIds, ~at(f, "gone")
               PROVE  LET todo == <<wire[flows[f].key]>> \o flows[f].pending \o flows[f].in
                      IN  \A i, j \in DOMAIN todo : i < j => todo[i] < todo[j]
    BY DEF InOrder
  <2> DEFINE w == wire[flows[f].key]
             p == flows[f].pending
             q == flows[f].in
  <2>1. flows[f] \in Flow
    BY ElementOfSeq DEF IInv, UDPOK, FlowIds
  <2>2. w \in Nat /\ p \in Seq(Nat) /\ q \in Seq(Nat)
    BY <2>1 DEF IInv, UDPOK, Flow
  <2>3. InLine(w, p, q, LastQueued)
    BY DEF Order, FlowOrder, at
  <2> HIDE DEF w, p, q
  <2>4. LET todo == <<w>> \o p \o q IN \A i, j \in DOMAIN todo : i < j => todo[i] < todo[j]
    BY <2>2, <2>3, LineRises
  <2> QED BY <2>4 DEF w, p, q
<1>2. Init => IInv /\ Order
  BY InitIInv, InitOrder
<1>3. IInv /\ Order /\ [Next]_vars => IInv' /\ Order'
  BY NextIInv, NextOrder
<1> QED BY <1>1, <1>2, <1>3, PTL DEF Spec
=============================================================================
