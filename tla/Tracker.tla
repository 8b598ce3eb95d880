------------------------------- MODULE Tracker -------------------------------
(***************************************************************************)
(* The connections the panel shows (internal/proxy/tracker.go): those that *)
(* are active, the most recent finished ones, and the count of failures.   *)
(* A connection's ID is its index in conns; Tracker.next and Tracker.total *)
(* are both the length of conns.                                           *)
(***************************************************************************)
EXTENDS Naturals, FiniteSets, Sequences

CONSTANT RecentMax   \* recentMax

ASSUME RecentMaxAssumption == RecentMax \in Nat \ {0}

VARIABLES
  conns,    \* every Conn registered, and how it ended (Conn.ended, Conn.err)
  active,   \* Tracker.active
  recent,   \* Tracker.recent, newest last
  failed    \* Tracker.failed

trackerVars == <<conns, active, recent, failed>>

TrackerInit == conns = <<>> /\ active = {} /\ recent = <<>> /\ failed = 0

NewConn == Len(conns) + 1

Newest(s) == SubSeq(s, IF Len(s) > RecentMax THEN Len(s) - RecentMax + 1 ELSE 1, Len(s))

\* Tracker.add
add ==
  /\ conns' = Append(conns, "open")
  /\ active' = active \union {NewConn}
  /\ UNCHANGED <<recent, failed>>

\* Tracker.finish: end is "ok" or "failed".
finish(c, end) ==
  /\ conns' = [conns EXCEPT ![c] = end]
  /\ failed' = IF end = "failed" THEN failed + 1 ELSE failed
  /\ active' = active \ {c}
  /\ recent' = Newest(Append(recent, c))

\* A connection that is refused: add and then finish.
refuse ==
  /\ conns' = Append(conns, "failed")
  /\ failed' = failed + 1
  /\ recent' = Newest(Append(recent, NewConn))
  /\ UNCHANGED active

Ended == {c \in DOMAIN conns : conns[c] # "open"}

\* What the panel shows adds up: a connection is active until it is finished,
\* and finished once.
TrackerAddsUp ==
  /\ active = DOMAIN conns \ Ended
  /\ failed = Cardinality({c \in DOMAIN conns : conns[c] = "failed"})
  /\ Len(recent) = IF Cardinality(Ended) < RecentMax THEN Cardinality(Ended) ELSE RecentMax
  /\ \A i \in DOMAIN recent : recent[i] \in Ended
  /\ \A i, j \in DOMAIN recent : recent[i] = recent[j] => i = j
=============================================================================
