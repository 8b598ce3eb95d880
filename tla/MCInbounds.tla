----------------------------- MODULE MCInbounds ------------------------------
EXTENDS Inbounds

CONSTANTS k1, k2, k3

UDP(packets, dests, seen, errs, stop) ==
  [packets |-> packets, datagrams |-> 0, dests |-> dests, tcp |-> {}, seen |-> seen, errors |-> errs, stop |-> stop]
Socks(datagrams, dests, errs, stop) ==
  [packets |-> 0, datagrams |-> datagrams, dests |-> dests, tcp |-> {}, seen |-> {}, errors |-> errs, stop |-> stop]
TCP(e, tcp) == [e EXCEPT !.tcp = tcp]

\* Captured UDP: two clients, everything that can be found out and a failure;
\* one client whose flows follow each other; a full table.  A SOCKS
\* association: the same.  TCP connections alone, and two inbounds at once.
AllEnvs ==
  { UDP(2, {k1, k2}, {"named", "blocked"}, 1, TRUE),
    UDP(3, {k1}, {"named", "sniff"}, 1, FALSE),
    UDP(3, {k1, k2, k3}, {"lost"}, 0, TRUE),
    Socks(2, {k1, k2}, 1, TRUE),
    Socks(3, {k1}, 1, FALSE),
    TCP(UDP(0, {}, {"named", "lost"}, 2, TRUE), {"transparent", "socks"}),
    TCP(UDP(1, {k1}, {"named"}, 0, TRUE), {"transparent"}),
    TCP(Socks(1, {k1}, 0, TRUE), {"socks"}),
    [UDP(1, {k1}, {"named"}, 0, FALSE) EXCEPT !.datagrams = 1] }
=============================================================================
