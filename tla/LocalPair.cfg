CONSTANTS
  Missing = Missing
  e1 = e1  e2 = e2  e3 = e3  e4 = e4
  x1 = x1  x2 = x2
  new = new  other = other
  Events = {e1, e2, e3, e4}
  Executors = {x1, x2}
  Scopes <- MCScopes
  Estimate <- UnitEstimate
  CostLimit = 3
  Contents = {new}
  Bindings = {TRUE}
  Crashes = TRUE
SPECIFICATION Spec
SYMMETRY Symmetry
INVARIANTS WithinCostLimit StagesInOrder
PROPERTIES KeepsLedger
