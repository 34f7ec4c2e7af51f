\* Two tabs that type twice each, and no fault.
CONSTANTS
  Conns = {c1, c2}
  OutboundCap = 1
  NoMsg = NoMsg
  Title = Title
  NoPage = NoPage
  MaxEdits = 2
  MaxRenames = 0
  MaxVersion = 1
  Faults = {}
SPECIFICATION SyncSpec
SYMMETRY Symmetry
PROPERTIES NoEditLost
CHECK_DEADLOCK FALSE
