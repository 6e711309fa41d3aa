SPECIFICATION Spec
CONSTANTS
  MaxAttempt = 3
  MaxRuns = 2
  Crashes = FALSE
  Backends <- OnlyKubernetes
INVARIANT ReplacedJobIsGone
CHECK_DEADLOCK FALSE
