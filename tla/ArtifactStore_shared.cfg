SPECIFICATION Spec
CHECK_DEADLOCK FALSE
CONSTANTS
  r1 = r1  r2 = r2
  a = a  b = b  c = c
  None = None
  Runs = {r1, r2}
  NPaths = 2
  Contents = {a, b, c}
  Survivors = {r2}
  MaxRewrites = 1
INVARIANTS
  StoreHoldsWhatItNames
  SuccessHasItsArtifacts
