\* Two edits on a page of two rows.
CONSTANTS
  Tabs = {d1, d2}
  Rows = {r1, r2}
  FirstPage = {r1, r2}
  NoTab = NoTab
  NoRow = NoRow
  NoMsg = NoMsg
  MaxEdits = 2
  QueueCap = 2
SPECIFICATION SwitchSpec
PROPERTY SavedStays
CHECK_DEADLOCK FALSE
