CONSTANTS
  Names = {n1, n2, n3}
  Span = 4
  MaxEntries = 2
  NoName = NoName
  NoOff = NoOff
  Fams = {"v4"}
  Inodes = {i1, i2, i3}
  NoInode = NoInode
  Envs <- TwoSavers
  MaxVersion = 3
SPECIFICATION Spec
SYMMETRY Symmetry
CHECK_DEADLOCK FALSE
INVARIANT FileWhole
