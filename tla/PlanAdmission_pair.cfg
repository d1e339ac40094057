SPECIFICATION Spec
CHECK_DEADLOCK FALSE
CONSTANTS
  t1 = t1  t2 = t2
  o = o  g = g
  e = e
  svc = svc
  schema = schema
  None = None
  Tasks = {t1, t2}
  Operators = {o, g}
  Offers <- TwoOffers
  Candidates <- SmallPlans
  Evidence = {e}
  Services = {svc}
  MaxChanges = 2
SYMMETRY Swap
INVARIANTS
  
  AllowedWasJustified
  WaitsForRequests
PROPERTIES
  RequestNeverReset
