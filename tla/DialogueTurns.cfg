SPECIFICATION FairSpec
CONSTANTS
  Question = {q1}
  NoQuestion = NoQuestion
  File = {f1}
  Limit = 1
  Call = {c1, c2}
  NoData = NoData
  Disturbances = 1
  MaxTurns = 2
  MaxRevision = 2
INVARIANTS
  RefusedIsNotAsked
PROPERTIES
  AnswerIsSeen
  AskedIsShown
