--------------------------- MODULE MCEgressSlots ---------------------------
EXTENDS EgressSlots

CONSTANTS A, B, a1, a2, k1, k2

One(wants, switches, serial, appliers, keyers, faults, saved, logins, closes) ==
  [wants |-> wants, switches |-> switches, serial |-> serial, appliers |-> appliers, keyers |-> keyers,
   faults |-> faults, key |-> saved, logins |-> logins, closes |-> closes]

All == {A, B, NoExit}
Failures == {"start", "status", "edit", "offline", "logout", "save", "remove"}

\* Everything fails while two requests remove and add; requests that overlap;
\* switches beside a restart; two restarts that race, also with
\* Close; a removal beside a restart; nothing fails; a key is saved.
AllEnvs ==
  { One(All, FALSE, TRUE, {a1, a2}, {}, Failures, FALSE, TRUE, TRUE),
    One(All, TRUE, FALSE, {a1, a2}, {}, {}, TRUE, FALSE, FALSE),
    One({A, B}, TRUE, TRUE, {a1}, {k1}, {"status"}, FALSE, TRUE, TRUE),
    One({A}, FALSE, TRUE, {a1}, {k1}, Failures, FALSE, FALSE, TRUE),
    One({}, FALSE, TRUE, {}, {k1, k2}, {"start"}, FALSE, FALSE, TRUE),
    One({NoExit}, FALSE, TRUE, {a1}, {k1}, {"start"}, FALSE, FALSE, TRUE),
    One({}, FALSE, TRUE, {}, {k1}, {}, FALSE, TRUE, FALSE) }

\* One request that switches the exit node.
SwitchEnvs == {One({B}, TRUE, TRUE, {a1}, {}, {}, TRUE, FALSE, FALSE)}
=============================================================================
