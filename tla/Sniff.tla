-------------------------------- MODULE Sniff --------------------------------
(***************************************************************************)
(* Finding out the name a captured TCP connection goes to from the first   *)
(* bytes its client sends (internal/sniff/sniff.go, Peek, as called by     *)
(* internal/proxy/transparent.go): the bytes arrive in pieces, may stop,   *)
(* and are all replayed to the destination afterwards.                     *)
(*                                                                         *)
(* A stream is a sequence of cells, each a piece that the code reads as a  *)
(* whole:  TLS:  "16" <<"len", n>> "hello" "fixed" then extensions "sni",  *)
(* "ech", "ext";  HTTP:  "method" then "line", "host1" "host2" (a Host     *)
(* line in two halves), "blank";  anything else: "letter", "other".        *)
(***************************************************************************)
EXTENDS Sequences, Naturals, FiniteSets, FiniteSetsExt, SequencesExt

CONSTANTS
  Streams,   \* scenarios: [cells, head, name, outer]
  MaxPeek,   \* cells that bufio holds
  MaxHTTP    \* cells of an HTTP head that are looked at

\* head: the cells that tell the name, more than there are if it does not come
\* in one record and within the limits; name: where the client goes, if it says
\* so in the clear; outer: the name it uses for show when it does not.  No
\* cells: nobody connects.
record(c) == {i \in 3..Len(c) : c[2][1] = "len" /\ i <= 2 + c[2][2]}

\* A hello names one host, and it is for show if the hello has an ech.
HelloNames(s) ==
  LET c == s.cells
      saying(k) == {i \in record(c) : c[i][1] = k}
  IN /\ Len(c) >= 2 /\ c[2][1] = "len" => c[2][2] \in Nat
     /\ \A i \in saying("sni") : c[i][2] = IF s.outer = "" THEN s.name ELSE s.outer
     /\ s.outer # "" => /\ s.name = ""
                        /\ s.head <= Len(c) => \E i \in saying("ech") : i <= s.head
     /\ s.name # "" => /\ saying("ech") = {}
                       /\ s.head <= Len(c) => /\ c[3] = <<"hello">> /\ c[4] = <<"fixed">>
                                              /\ \E i \in saying("sni") : i <= s.head

\* A request names the host of its first Host line, before the blank one.
RequestNames(s) ==
  LET c == s.cells
      hosts == {i \in DOMAIN c : c[i][1] = "host1" /\ \A j \in 1..i : c[j] # <<"blank">>}
  IN /\ c[1] = <<"method">> /\ s.outer = "" /\ (hosts = {} => s.name = "")
     /\ \A f \in hosts : (\A i \in hosts : f <= i) =>
          /\ c[f][2] = s.name
          /\ s.head <= Len(c) => f + 1 <= s.head /\ f + 1 <= MaxHTTP /\ c[f + 1][1] = "host2"

SniffAssumption ==
  /\ MaxPeek \in Nat \ {0} /\ MaxHTTP \in 1..MaxPeek
  /\ \A s \in Streams :
       /\ s.head \in Nat /\ s.cells \in Seq(Range(s.cells))
       /\ s.cells # <<>> =>
            /\ s.head > 0
            /\ s.cells[1][1] = "16" => HelloNames(s)
            /\ s.cells[1][1] = "method" => RequestNames(s)
            /\ s.cells[1][1] \notin {"16", "method"} => s.name = "" /\ s.outer = ""
ASSUME SniffAssumption

VARIABLES
  stream,   \* the scenario
  arrived,  \* cells the client has written
  ended,    \* the client writes no more
  expired,  \* the read deadline has passed
  buffered, \* cells in the bufio.Reader
  sniff,    \* where Peek is, and its result
  read      \* the cells read by the relay to the destination

sniffVars == <<stream, arrived, ended, expired, buffered, sniff, read>>

noResult == [proto |-> "", host |-> "", ech |-> FALSE]

SniffInit ==
  /\ stream \in Streams
  /\ arrived = 0 /\ buffered = 0
  /\ ended = (stream.cells = <<>>) /\ expired = FALSE
  /\ sniff = [pc |-> IF stream.cells = <<>> THEN "none" ELSE "first", from |-> 0, res |-> noResult, buf |-> 0]
  /\ read = <<>>

cell(i) == stream.cells[i][1]
Cells(a, b) == SubSeq(stream.cells, a, b)
Kinds(s) == {s[i][1] : i \in DOMAIN s}

-----------------------------------------------------------------------------
(* The parsers, on the cells they are given.                               *)

\* The last server_name counts; ech is set when the extension is there.  What
\* is cut off is not missed: the loop over the extensions ends.
parseClientHello(s) ==
  IF Len(s) >= 2 /\ s[1] = <<"hello">> /\ s[2] = <<"fixed">>
  THEN [proto |-> "tls", ech |-> "ech" \in Kinds(s),
        host |-> IF "sni" \in Kinds(s) THEN s[Max({i \in DOMAIN s : s[i][1] = "sni"})][2] ELSE ""]
  ELSE [noResult EXCEPT !.proto = "tls"]

\* The first Host line up to the blank line; a line that is cut off is taken
\* as it is.
parseHTTP(s) ==
  LET blank == Min({i \in DOMAIN s : s[i] = <<"blank">>} \cup {Len(s) + 1})
      hosts == {i \in 1..blank - 1 : s[i][1] = "host1"}
      first == Min(hosts)
  IN IF s = <<>> \/ s[1] # <<"method">> THEN noResult
     ELSE [noResult EXCEPT !.proto = "http",
             !.host = IF hosts = {} THEN ""
                      ELSE IF first < blank - 1 /\ s[first + 1][1] = "host2" THEN s[first][2]
                      ELSE "cut"]

-----------------------------------------------------------------------------
(* bufio.Reader.Peek: it fills until n cells are there, the deadline has   *)
(* passed, the client has ended, or the buffer is full.                    *)

PeekHas(n) == buffered >= n
PeekFails(n) ==
  /\ buffered < n
  /\ expired \/ (ended /\ buffered = arrived) \/ buffered = MaxPeek

Found(res) ==
  /\ sniff' = [sniff EXCEPT !.pc = "decide", !.res = res]
  /\ UNCHANGED <<stream, arrived, ended, expired, buffered, read>>
Then(pc) ==
  /\ sniff' = [sniff EXCEPT !.pc = pc]
  /\ UNCHANGED <<stream, arrived, ended, expired, buffered, read>>

\* sniffHTTP has the whole head, or as much as it looks at.
Enough == <<"blank">> \in ToSet(Cells(1, sniff.buf)) \/ sniff.buf >= MaxHTTP

\* One Read of the connection, of as much as there is or less.
Wants == CASE sniff.pc = "first" -> 1
           [] sniff.pc = "header" -> 2
           [] sniff.pc = "record" -> 2 + stream.cells[2][2]
           [] sniff.pc = "http" /\ ~Enough -> sniff.buf + 1
           [] OTHER -> 0
Fill ==
  /\ buffered < Wants /\ Wants <= MaxPeek
  /\ ~expired /\ buffered < arrived
  /\ buffered' \in buffered + 1..Min({arrived, MaxPeek})
  /\ UNCHANGED <<stream, arrived, ended, expired, sniff, read>>

PeekFirst ==
  /\ sniff.pc = "first"
  /\ \/ PeekFails(1) /\ Found(noResult)
     \/ /\ PeekHas(1)
        /\ CASE cell(1) = "16" -> Then("header")
             [] cell(1) \in {"method", "letter"} ->
                  \* all that is buffered, without a limit
                  /\ sniff' = [sniff EXCEPT !.pc = "http", !.buf = buffered]
                  /\ UNCHANGED <<stream, arrived, ended, expired, buffered, read>>
             [] OTHER -> Found(noResult)

\* The record header: its version and its length.
PeekHeader ==
  /\ sniff.pc = "header"
  /\ \/ PeekFails(2) /\ Found(noResult)
     \/ /\ PeekHas(2)
        /\ IF cell(2) # "len" \/ stream.cells[2][2] = 0 THEN Found(noResult) ELSE Then("record")

TakeRecordAndDrop ==
  /\ sniff.pc = "record"
  /\ PeekHas(2 + stream.cells[2][2])
  /\ sniff' = [sniff EXCEPT !.pc = "decide", !.from = 2 + stream.cells[2][2],
                            !.res = parseClientHello(Cells(3, 2 + stream.cells[2][2]))]
  /\ UNCHANGED <<stream, arrived, ended, expired, buffered, read>>

\* The record, or what there is of it.
PeekRecord ==
  /\ sniff.pc = "record"
  /\ LET n == 2 + stream.cells[2][2] IN
     \/ PeekHas(n) /\ n <= MaxPeek /\ Found(parseClientHello(Cells(3, n)))
     \/ (PeekFails(n) \/ n > MaxPeek) /\ Found(parseClientHello(Cells(3, Min({n, buffered}))))

\* More of the head while it is incomplete and short.
PeekHTTP ==
  /\ sniff.pc = "http"
  /\ IF Enough \/ PeekFails(sniff.buf + 1)
     THEN Found(parseHTTP(Cells(1, sniff.buf)))
     ELSE /\ PeekHas(sniff.buf + 1)
          /\ sniff' = [sniff EXCEPT !.buf = Min({buffered, MaxHTTP})]
          /\ UNCHANGED <<stream, arrived, ended, expired, buffered, read>>

\* Peek clears the deadline; Transparent.handle takes the name as the domain
\* unless it is only an outer name.
domainAlways(res) == res.host
domain(res) == IF res.ech THEN "" ELSE res.host

Decide ==
  /\ sniff.pc = "decide"
  /\ sniff' = [sniff EXCEPT !.pc = "relay", !.res.host = domain(sniff.res)]
  /\ UNCHANGED <<stream, arrived, ended, expired, buffered, read>>

\* Conn.Read, for Router.Relay: first what is buffered, then the connection.
Replay ==
  /\ sniff.pc = "relay"
  /\ sniff.from < arrived
  /\ sniff' = [sniff EXCEPT !.from = @ + 1]
  /\ read' = Append(read, stream.cells[sniff.from + 1])
  /\ UNCHANGED <<stream, arrived, ended, expired, buffered>>

-----------------------------------------------------------------------------

Arrive ==
  /\ ~ended /\ arrived < Len(stream.cells)
  /\ arrived' \in arrived + 1..Len(stream.cells)
  /\ UNCHANGED <<stream, ended, expired, buffered, sniff, read>>

ClientEnds ==
  /\ ~ended
  /\ ended' = TRUE
  /\ UNCHANGED <<stream, arrived, expired, buffered, sniff, read>>

DeadlinePasses ==
  /\ ~expired /\ sniff.pc \notin {"none", "decide", "relay"}
  /\ expired' = TRUE
  /\ UNCHANGED <<stream, arrived, ended, buffered, sniff, read>>

SniffStep == Fill \/ PeekFirst \/ PeekHeader \/ PeekRecord \/ PeekHTTP \/ Decide \/ Replay

SniffNext == SniffStep \/ Arrive \/ ClientEnds \/ DeadlinePasses
SniffFairness == WF_sniffVars(SniffStep) /\ WF_sniffVars(DeadlinePasses)

-----------------------------------------------------------------------------
(* Properties.                                                             *)

\* "The domain a connection is routed by is the one its client named": once
\* the head has arrived in one record, in time and within the limits, it is
\* exactly that name, and never the outer name of an encrypted hello.  A head
\* cut short may give a name cut short (transparent.go:117, sniff.go:80, 176).
HeadIsHere == buffered >= stream.head
NameIsTrue ==
  sniff.pc = "relay" =>
    /\ HeadIsHere => sniff.res.host = stream.name
    /\ ~HeadIsHere /\ stream.outer = "" => sniff.res.host \in {"", "cut", stream.name}

\* Whatever was looked at and however it ended, the destination gets every
\* byte the client sent, in order, from the first (sniff.go:33, 49).
AllReplayed == <>[](read = Cells(1, arrived))
=============================================================================
