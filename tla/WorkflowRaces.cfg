CONSTANTS
  p1 = p1  p2 = p2  p3 = p3
  Callers = {p1, p3}
  NeedsApproval = TRUE
  Marks = {"INTERRUPTED", "CANCELLED"}
  Killable = {p3}
  Profile = "full"
  Mode = "none"
  Requests <- MCRequests
  Metrics = 2
  Members = 2
  Answers <- MCAnswers
  Keys = {"known"}
  Drafts = {"draft"}
  NoJob = NoJob
SPECIFICATION ChainFairSpec
INVARIANTS ExecutesAlone DraftIsAccounted CompleteIsDelivered
PROPERTIES ResultKept ClaimsEnd
