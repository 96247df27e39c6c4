SPECIFICATION MCSpec
CONSTANTS
  Users = {h, a, b}
  People = {h, a, b}
  Roster = {a}
  Devices = {d1, d2, d3}
  Calls = {c1, c2}
  Punishments = {{}, {"site_access"}, {"view_games"}}
  MaxVersion = 2
  Nobody = Nobody
  Clubs = {k1, k2, k3}
  MaxClubs = 2
  h = h
  a = a
  b = b
  d1 = d1
  d2 = d2
  d3 = d3
  k1 = k1
  k2 = k2
  k3 = k3
INVARIANTS PlatformTypeOK CopiedBansAreCurrent MembershipCap ClubsInOrder
PROPERTIES BansTakeHold
CHECK_DEADLOCK FALSE
