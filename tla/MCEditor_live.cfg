\* Two rows nobody edits; no symmetry, as the property is temporal.
CONSTANTS
  Tabs = {d1, d2}
  Rows = {r1, r2}
  FirstPage = {r1, r2}
  NoTab = NoTab
  NoRow = NoRow
  NoMsg = NoMsg
  MaxEdits = 0
  QueueCap = 2
SPECIFICATION FairSpec
PROPERTY RowsComeFree
CHECK_DEADLOCK FALSE
