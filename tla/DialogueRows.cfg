SPECIFICATION FairSpec
CONSTANTS
  MaxTurns = 3
  MaxAttempts = 2
  StorageFaults = TRUE
INVARIANTS
  TurnsAgree
PROPERTIES
  EndsStay
  EndsLeaveClosed
  ClaimedAttemptEnds
