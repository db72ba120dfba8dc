SPECIFICATION FairSpec
CONSTANTS
  Run = {r1}
  Proc = {p1, p2}
  NoProc = NoProc
  Faulty = {p1}
  UnknownCommits = TRUE
INVARIANTS
  RowsAgree
  ReportIffCompleted
  AnswerIsDurable
  RunningIsExecuted
PROPERTIES
  TerminalIsPermanent
  ImplementsLifecycle
  WaiterReleased
  EveryClaimedRunTerminates
