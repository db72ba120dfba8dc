SPECIFICATION FairSpec
CONSTANTS
  Text = {t1}
  Theirs = {t1}
  NoText = NoText
  Verdict = {"confirmed"}
  Save = {s1, s2}
  NoData = NoData
  Carried = t1
  Disturbances = 1
  MaxRevision = 2
INVARIANTS
  UntouchedShowsStored
PROPERTIES
  ShownRevisionNeverFalls
  OverwritesAreSeen
  ConfirmedIsShown
