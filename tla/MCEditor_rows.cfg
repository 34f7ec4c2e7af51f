\* Two tabs, two edits or added pages: a page of one row that can grow to two.
CONSTANTS
  Tabs = {d1, d2}
  Rows = {r1, r2}
  FirstPage = {r1}
  NoTab = NoTab
  NoRow = NoRow
  NoMsg = NoMsg
  MaxEdits = 2
  QueueCap = 1
SPECIFICATION EditorSpec
INVARIANT EditorTypeOK  WriterHolds OneRowKept
SYMMETRY Symmetry
CHECK_DEADLOCK FALSE
