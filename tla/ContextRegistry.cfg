SPECIFICATION FairSpec
CONSTANTS
  Client = {c1, c2}
  Workspace = {w1, w2}
  MaxContexts = 1
  MaxWork = 2
  Faults = TRUE
INVARIANTS
  RegistrySound
  NoLostWakeup
PROPERTIES
  IdleContextsLeave
  CloseEndsAll
