---------------------------- MODULE MCPanelConfig ----------------------------
EXTENDS PanelConfig

CONSTANTS x, y, s1, s2

One(requests, serial, editor, faults) ==
  [requests |-> requests, serial |-> serial, editor |-> editor, faults |-> faults]

\* Two sessions save while calls fail and the daemon is killed; the file is
\* edited and reloaded as well; sessions take turns.
AllEnvs ==
  { One({"rules", "egress"}, FALSE, FALSE, {"backup", "write", "apply", "kill"}),
    One({"rules", "egress", "reload"}, TRUE, TRUE, {"kill"}) }

\* Two sessions edit the egresses, and nothing else happens.
EgressEnvs == {One({"egress"}, FALSE, FALSE, {})}
=============================================================================
