SPECIFICATION MCSpec
CONSTANTS
  Users = {h, a, z}
  Bots = {b1}
  Lobbies = {l1, l2}
  Calls = {c1, c2}
  PlayerSlots = 1
  MaxDeleted = 1
  MaxCrashes = 1
  Browsers = {h, a}
  MaxVisits = 1
  MaxDrops = 1
  UnderWay = 2
  Nobody = Nobody
  h = h
  a = a
  z = z
  l1 = l1
  l2 = l2
  b1 = b1
SYMMETRY Symmetry
INVARIANTS LobbyTypeOK GuestOfOneTable HostSitsAtHisTable StartSendsTheRoom
CHECK_DEADLOCK FALSE
