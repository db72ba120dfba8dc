SPECIFICATION StorageFairSpec
CONSTANTS
  Upload = {u1, u2, u3}
  Guest = {g1, g2}
  Key = {k1, k2}
  NoKey = NoKey
  PerGuest = 3
  Total = 4
INVARIANTS
  QuotaRespected
  VersionsInOrder
PROPERTIES
  UploadsEnd
CHECK_DEADLOCK FALSE
