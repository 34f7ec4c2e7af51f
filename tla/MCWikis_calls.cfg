\* Two calls at a time, and codes that collide.
CONSTANTS
  Users = {u1, u2}
  WikiIds = {w1, w2}
  Codes = {k1, k2}
  Calls = {c1, c2}
  Nobody = Nobody
  NoWiki = NoWiki
  NoCode = NoCode
SPECIFICATION WikiSpec
SYMMETRY Symmetry
INVARIANTS WikiTypeOK OneCode MembersAsked WikiInv
PROPERTY SharingSpec
