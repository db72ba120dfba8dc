SPECIFICATION Spec
CONSTANTS
  Finding = {f1}
  Old = {i0}
  Nobody = Nobody
  Verdict = {"confirmed", "rejected"}
  PriorVerdict = {"confirmed", "rejected"}
  Limited = {FALSE}
  Call = {c1}
  NoData = NoData
  Disturbances = 1
  MaxDecision = 1
  MaxRevision = 3
INVARIANTS
  TypeOK
  NextStepAgrees
PROPERTIES
  
  ExplanationOutlivesRefusals
