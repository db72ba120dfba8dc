SPECIFICATION Spec
CONSTANTS
  MaxTurns = 2
  MaxAttempts = 2
  StorageFaults = FALSE
INVARIANTS
  InterruptedIsRetryable
