SPECIFICATION LeaseFairSpec
CONSTANTS
  o1 = o1  o2 = o2
  None = None
  Owners = {o1, o2}
  Kept = {o2}
  TTL = 6
  Period = 2
  MaxStall = 6
INVARIANTS
  OnlyTheLateOverlap
PROPERTIES
  Takeover
  OvertakenStops
