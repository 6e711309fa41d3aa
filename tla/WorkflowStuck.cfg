CONSTANTS
  p1 = p1  p2 = p2  p3 = p3
  Callers = {p1}
  NeedsApproval = TRUE
  Marks = {}
  Killable = {p1}
  Profile = "full"
  Mode = "none"
  Requests <- MCRequests
  Metrics = 1
  Members = 1
  Answers <- MCAnswers
  Keys = {"known"}
  Drafts = {"draft"}
  NoJob = NoJob
SPECIFICATION ChainSpec
INVARIANTS ClaimHasHolder
