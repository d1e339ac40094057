SPECIFICATION FairSpec
CONSTANTS
  w1 = w1  w2 = w2
  Workers = {w1}
  Limit = 2
  MaxAttempts = 2
  MaxEvents = 3
  MaxAborts = 1
INVARIANTS
  DeadLetteredInTime
  FateIsEarned
  ContextIsHonest
PROPERTIES
  SettledIsFinal
  EventuallySettled
