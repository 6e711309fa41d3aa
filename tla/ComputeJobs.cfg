SPECIFICATION Spec
CONSTANTS
  MaxAttempt = 3
  MaxRuns = 2
  Crashes = TRUE
  Backends <- AllKinds
INVARIANTS
  IntentIsUnambiguous
PROPERTIES
  OnlyLostAttemptsRepeat
  LocalVerdictIsFinal
  DeadlineIsFinal
  CleanupNeverSucceeds
  PendingLaunchIsResolved
  KeepsPromise
CHECK_DEADLOCK FALSE
