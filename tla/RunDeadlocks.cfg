SPECIFICATION LocksSpec
CONSTANTS
  Session = {s1, s2, s3}
SYMMETRY Symmetry
INVARIANTS
  NoDeadlock
