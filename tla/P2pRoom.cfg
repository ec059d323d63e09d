CONSTANTS
  c1 = c1
  c2 = c2
  c3 = c3
  u1 = u1
  u2 = u2
  u3 = u3
  Conns <- MCConns
  Users <- MCUsers
  Logins <- MCLogins
  NoConn = NoConn
  NoUser = NoUser
  MaxCandidates = 1
SPECIFICATION FairSpec
INVARIANTS OneOffers JoinedIsMember MembersAreFindable MessagesFit
PROPERTIES PeersNegotiate
CHECK_DEADLOCK FALSE
