\* Two requests at a time, two wikis, one page each.
CONSTANTS
  Me = u1
  u1 = u1
  u2 = u2
  Users = {u1, u2}
  WikiIds = {w1, w2}
  Codes = {k1, k2}
  Calls = {c1, c2}
  Nobody = Nobody
  NoWiki = NoWiki
  NoCode = NoCode
  NoCall = NoCall
  MaxSaves = 2
SPECIFICATION PortalSpec
SYMMETRY Symmetry
INVARIANT PortalTypeOK SignedIn InviteWorks RightPlace ButtonsWait
PROPERTY HistoryForward
