SPECIFICATION Spec
CONSTANTS
  Joins = {j1, j2}
  Forwards = {f1}
  Users = {u1, u2}
  UserMaps <- MCUserMaps
  None = None
SYMMETRY Swaps
INVARIANTS
  NoForwardFromClosed
  ProcessSurvives
  MemberIsFound
  BothTracksJoin
CHECK_DEADLOCK FALSE
