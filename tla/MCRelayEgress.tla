--------------------------- MODULE MCRelayEgress ---------------------------
EXTENDS RelayEgress

CONSTANTS t1, t2, p1, p2, lo, ts

With(addr, fromEnv, check) == [relay |-> TRUE, addr |-> addr, env |-> fromEnv, check |-> check]
Without == [relay |-> FALSE, addr |-> lo, env |-> FALSE, check |-> FALSE]

Good == [a \in Addrs |-> t1]
Moved == [a \in Addrs |-> IF a = lo THEN Down ELSE t2]

Base == [first |-> With(lo, FALSE, TRUE), file |-> NoToken, applies |-> {}, tokens |-> {}, serial |-> TRUE,
         dials |-> FALSE, variable |-> NoToken, faults |-> {}, closes |-> FALSE, accepts |-> Good, tailnet |-> TRUE, changes |-> 0]

\* A token is saved, twice, while the relay is dialed; the relay moves while the
\* outside changes; it is removed and added, and the daemon stopped; requests
\* overlap; the token moves between the file and the environment; the
\* environment holds one that is too short; the token file cannot be written,
\* removed or read, or holds something else.
AllEnvs ==
  { [Base EXCEPT !.tokens = {t1, t2}, !.dials = TRUE],
    [Base EXCEPT !.first = With(ts, FALSE, TRUE), !.file = t1, !.tailnet = FALSE, !.dials = TRUE, !.changes = 2],
    [Base EXCEPT !.file = t2, !.accepts = Moved, !.applies = {With(ts, FALSE, TRUE)}, !.changes = 1],
    [Base EXCEPT !.file = t1, !.applies = {Without, With(lo, FALSE, FALSE)}, !.tokens = {t1}, !.closes = TRUE],
    [Base EXCEPT !.file = t2, !.applies = {Without, With(lo, FALSE, FALSE)}, !.tokens = {t1}, !.serial = FALSE],
    [Base EXCEPT !.first = With(lo, TRUE, FALSE), !.file = t2, !.applies = {With(lo, TRUE, TRUE), With(lo, FALSE, FALSE), With(ts, FALSE, FALSE)}, !.tokens = {t2},
                 !.variable = t1],
    [Base EXCEPT !.first = With(lo, TRUE, TRUE), !.applies = {With(lo, FALSE, TRUE)}, !.tokens = {t1}, !.variable = BadToken],
    [Base EXCEPT !.file = t2, !.applies = {Without, With(lo, FALSE, FALSE)}, !.tokens = {t1}, !.faults = {"save", "remove"}],
    [Base EXCEPT !.file = BadToken, !.applies = {Without, With(ts, FALSE, TRUE)}, !.tokens = {t1}, !.faults = {"save"}, !.dials = TRUE],
    [Base EXCEPT !.file = t1, !.applies = {With(lo, FALSE, TRUE), With(lo, TRUE, TRUE)}, !.tokens = {t1}, !.variable = t2, !.faults = {"read"}] }
=============================================================================
