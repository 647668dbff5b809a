SPECIFICATION FairSpec
CONSTANTS
  Owners = {o1, o2}
  Retainable = {"stdout", "stderr"}
  MaxLines = 3
INVARIANT NothingIsLeft
PROPERTIES StartsWhole TransportEnds
CHECK_DEADLOCK FALSE
