SPECIFICATION FairSpec
CONSTANTS
  p1 = p1  p2 = p2  d1 = d1  d2 = d2
  None = None
  PlanIds = {p1, p2}
  Contents = {d1, d2}
  MaxTransient = 3
  MaxRepairs = 2
  MaxReplays = 2
CHECK_DEADLOCK FALSE
INVARIANTS
  CallsBounded
  RowHasFile
PROPERTIES
  PlanIdIsContent
  ProposalEnds
