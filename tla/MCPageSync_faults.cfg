\* Two tabs that type and rename once each, an API client, and every fault.
CONSTANTS
  Conns = {c1, c2}
  OutboundCap = 1
  NoMsg = NoMsg
  Title = Title
  NoPage = NoPage
  MaxEdits = 1
  MaxRenames = 1
  MaxVersion = 2
  Faults <- AllFaults
SPECIFICATION SyncSpec
SYMMETRY Symmetry
INVARIANTS SyncTypeOK ShowsItsVersion Heard SavesAnswered
 
CHECK_DEADLOCK FALSE
