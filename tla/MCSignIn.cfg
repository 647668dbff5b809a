SPECIFICATION Spec
CONSTANTS
  Users = {u1, u2}
  Subjects = {s1}
  Handlers = {h1, h2, h3, h4}
  Requests = {q1}
  MaxHash = 3
  NoOne = NoOne
SYMMETRY Symmetry
CHECK_DEADLOCK FALSE
INVARIANTS TypeOK SessionsAreCurrent GrantsAreUsedOnce SoleAdministrator
