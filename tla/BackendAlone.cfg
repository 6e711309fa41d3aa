CONSTANTS
  Missing = Missing
  e1 = e1  e2 = e2  e3 = e3  e4 = e4  e5 = e5
  w1 = w1  w2 = w2
  new = new  other = other
  Events = {e1, e2, e3, e4}
  Workers = {w1}
  Scopes <- MCScopes
  Estimate <- UnitEstimate
  CostLimit = 3
  Contents = {new, other}
  Crashes = TRUE
  checkpoint = checkpoint
  Extra = {checkpoint}
  Kinds <- RemoteKinds
SPECIFICATION FilesSpec
SYMMETRY Symmetry
INVARIANTS JobPaidOnce
PROPERTIES LedgerSteps ArtifactsArePaid SourceIsApproved PassedIsWhole
