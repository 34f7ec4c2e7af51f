\* Two calls and a pool of two, every fault, until the version column is full.
CONSTANTS
  Calls = {w1, w2}
  Texts = {x1, x2}
  Blank = Blank
  NoText = NoText
  NoCall = NoCall
  MaxVersion = 2
  PoolSize = 2
  Faults <- AllFaults
SPECIFICATION FairSpec
INVARIANTS PageTypeOK RevisionsMatch PageInv
PROPERTY PageSpec CallsReturn
