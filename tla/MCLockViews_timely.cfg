\* Two browsers, no holder is late.
CONSTANTS
  Conns = {c1, c2}
  Users = {c1, c2}
  UserOf <- MCUserOf
  OutboundCap = 2
  NoMsg = NoMsg
  Blocks = {b1}
  NoBlock = NoBlock
  Tokens = {t1, t2}
  NoToken = NoToken
  NoUser = NoUser
  TTL = 1
  Faults <- RedisFaults
SPECIFICATION TimelySpec
SYMMETRY Symmetry
INVARIANTS OneEditor
