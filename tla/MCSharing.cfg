CONSTANTS
  u = u
  v = v
  a = a
  c1 = c1
  c2 = c2
  Requests = {r1, r2}
  People = {u, v, a}
  Admins = {a}
  Connections = {c1, c2}
  Inactive = {}
  Owner <- MCOwner
  Board = Board
  Text = Text
  Rank <- MCRank
  Places <- MCPlaces
  ShareLists <- MCShareLists
  Granted <- MCGranted
  Nothing = Nothing
SPECIFICATION Spec
INVARIANT SharingInv
PROPERTIES FailuresAreRaces ReplaceIsExact RowsNeedAccess
SYMMETRY Interchangeable
