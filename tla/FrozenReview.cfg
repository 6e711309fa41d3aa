SPECIFICATION FirstSpec
CONSTANTS
  imported = imported
  p1 = p1
  p2 = p2
  Missing = Missing
  Absent = Absent
  Nobody = Nobody
  Unsaid = Unsaid
  Evidence <- OneImported
  Imported <- OneImported
  Papers <- TwoPapers
  Rows <- MCRows
  Queries <- MCQueries
  Claims <- MCClaims
  Known <- MCKnown
  Unverified = FALSE
  Layout <- MCLayout
  Humans <- MCHumans
  Matrix <- MCMatrix
  Checks <- MCChecks
  Policy <- MCPolicy
  FontCritical = 6
  FontWarning = 7
  MaxChanges = 1
  MaxDamage = 1
  MaxKills = 1
  MaxBundles = 4
INVARIANTS
  RegisteredIsFrozen
  AuthorizedAsAcknowledged
  AuthorityIsFinished
PROPERTIES
  NothingIsRewritten
  RefusedForCause
