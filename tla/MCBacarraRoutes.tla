-------------------------- MODULE MCBacarraRoutes --------------------------
EXTENDS BacarraRoutes

CONSTANTS r1, r2, op1

One(faults, reloaders, operators, edits) ==
  [faults |-> faults, reloaders |-> reloaders, operators |-> operators, edits |-> edits]

\* The daemon ends by itself, twice; the daemon is killed; everything fails; one
\* goroutine reloads; every thread competes for the locks.
AllEnvs ==
  { One({"add", "save", "remove", "adapter", "corrupt"}, {}, {op1}, TRUE),
    One({"add", "save"}, {}, {op1}, FALSE),
    One({"add", "remove", "lateKill"}, {}, {}, TRUE),
    One({"add", "delete", "save", "remove", "adapter", "corrupt", "kill"}, {r1}, {}, FALSE),
    One({"lateKill"}, {r1}, {}, FALSE),
    One({}, {r1, r2}, {}, FALSE) }
=============================================================================
