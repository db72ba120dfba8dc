SPECIFICATION FairSpec
CONSTANTS
  Run = {r1, r2}
  CancelCall = {k1}
  NoData = NoData
  Disturbances = 1
  Doc = {d1, d2}
  NoDoc = NoDoc
  Limit = 1
  Model = {m1}
  NoModel = NoModel
  StartCall = {c1, c2}
  MaxOpenings = 2
INVARIANTS
  OneRunPerIntent
  StartedIsReadable
PROPERTIES
  EndIsNotUndone
  AttachedIsKept
  EndIsSeen
