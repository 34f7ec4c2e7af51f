\* Three browsers, keys expire at any time.
CONSTANTS
  Conns = {c1, c2, c3}
  Users = {c1, c2, c3}
  UserOf <- MCUserOf
  OutboundCap = 2
  NoMsg = NoMsg
  Blocks = {b1}
  NoBlock = NoBlock
  Tokens = {t1}
  NoToken = NoToken
  NoUser = NoUser
  TTL = 1
  Faults <- NoFaults
SPECIFICATION ViewSpec
SYMMETRY Symmetry
INVARIANTS ViewTypeOK Informed IterationsVisitMembers
