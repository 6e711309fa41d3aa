SPECIFICATION FirstSpec
CONSTANTS
  s1 = s1
  s2 = s2
  b1 = b1
  b2 = b2
  tight = tight
  loose = loose
  Nothing = Nothing
  Failed = Failed
  Foreign = Foreign
  Sciences <- TwoSciences
  Bibs <- TwoBibs
  Layouts <- TwoLayouts
  CleanLayouts <- OnlyTight
  Stamps = {1}
  MaxRounds = 2
  MaxEdits = 1
  MaxCalls = 3
  MaxKills = 1
INVARIANTS
  ScienceIsAuthored
PROPERTIES
  OnlyWholeIsReleased
  SupportedIsReleased
  RefusalHasCause
  CallsEnd
CHECK_DEADLOCK FALSE
