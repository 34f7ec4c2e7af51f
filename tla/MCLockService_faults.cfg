\* Two connections, one block, every fault.
CONSTANTS
  Conns = {c1, c2}
  Users = {c1, c2}
  UserOf <- MCUserOf
  OutboundCap = 1
  NoMsg = NoMsg
  Blocks = {b1}
  NoBlock = NoBlock
  Tokens = {t1, t2, t3}
  NoToken = NoToken
  TTL = 2
  Faults <- AllFaults
SPECIFICATION Spec
SYMMETRY Symmetry
INVARIANTS TypeOK LockAccounted LockInv
PROPERTIES NoForeignEviction LeaseSpec
