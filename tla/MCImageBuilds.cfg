SPECIFICATION FairSpec
CONSTANTS
  Profiles = {p1}
  VMIDs = {v1}
  Keys = {k1, k2}
  Handlers = {h1, h2}
  Editors = {e1}
  EditedStatus = {"draft", "ready"}
  MaxFaults = 1
  None = None
INVARIANTS TypeOK OneBuildPerProfile ReadyIsTemplate CandidatesAreExcluded
PROPERTIES BuildsSettle
CHECK_DEADLOCK FALSE
