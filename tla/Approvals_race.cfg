SPECIFICATION Spec
CHECK_DEADLOCK FALSE
CONSTANTS
  r1 = r1  p = p  a = a  b = b
  n1 = n1  n2 = n2  n3 = n3
  c1 = c1  c2 = c2
  ga = ga  ga2 = ga2  gb = gb  gp = gp  xa = xa
  None = None
  Subjects <- People
  Requester <- ByPat
  Owner <- OwnerOf
  Scope <- ScopeOf
  MaxRisk <- RiskOf
  Requests <- OneRequest
  Explicit = {}
  Grants <- OneGrantEach
  Nonces <- ThreeNonces
  Callers = {c1, c2}
  Unordered = {}
  Boots <- HighBoot
  MaxRevocations = 1
SYMMETRY Symmetry
PROPERTIES
  DenialIsTerminal
