SPECIFICATION FairSpec
CONSTANTS
  governed = governed
  plain = plain
  ann = ann
  req = req
  None = None
  Plans = {governed}
  Governed = {governed}
  Approvers = {ann}
  Requester = req
  Calls = 2
  MaxCancels = 1
  MaxChanges = 1
CHECK_DEADLOCK FALSE
INVARIANTS
  RunWasApproved
  RunWasEntitled
  AuditTrail
  StatusExplained
PROPERTIES
  NoRunAfterCancel
  CallsEnd
