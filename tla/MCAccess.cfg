SPECIFICATION Spec
CONSTANTS
  Users = {u1, u2}
  Agents = {a1}
  LocalGroups = {l1}
  OidcGroups = {o1}
  Desktops = {d1}
  None = None
SYMMETRY Symmetry
CHECK_DEADLOCK FALSE
INVARIANTS ActiveIsEntitled PersonalIsExclusive MembershipsMirrorClaims
