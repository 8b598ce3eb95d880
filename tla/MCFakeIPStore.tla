--------------------------- MODULE MCFakeIPStore ---------------------------
EXTENDS FakeIPStore, TLC

\* Inodes and names are interchangeable: no property singles one out.
Symmetry == Permutations(Inodes) \union Permutations(Names)

One(savers, faults, lateDns, n) ==
  [savers |-> savers, faults |-> faults, lateDns |-> lateDns, answers |-> n]

\* Clean restarts under clients that cache; one saver with crashes, full
\* disks and other prefixes; both savers and crashes.
AllEnvs ==
  { One({"close"}, {}, FALSE, 2),
    One({"close"}, {"crash", "disk", "reconfig"}, TRUE, 0),
    One(Savers, {"crash"}, FALSE, 0) }

\* Nothing goes wrong but that the ticker and Close may both be in Save.
TwoSavers == { One(Savers, {}, FALSE, 0) }
=============================================================================
