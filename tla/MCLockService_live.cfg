\* Liveness, every fault; no symmetry.
CONSTANTS
  Conns = {c1, c2}
  Users = {c1, c2}
  UserOf <- MCUserOf
  OutboundCap = 1
  NoMsg = NoMsg
  Blocks = {b1}
  NoBlock = NoBlock
  Tokens = {t1}
  NoToken = NoToken
  TTL = 2
  Faults <- AllFaults
SPECIFICATION FairSpec
PROPERTIES OrphansExpire BroadcastsEnd DisconnectCompletes
