SPECIFICATION FairSpec
CONSTANTS
  Handlers = {h1, h2}
  Accounts = {a1}
  MaxRevision = 3
  MaxFaults = 1
  None = None
CHECK_DEADLOCK FALSE
INVARIANT AppliedIsEnforced
PROPERTY ApplicationEnds
