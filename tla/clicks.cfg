SPECIFICATION MCSpec
CONSTANTS
  Keys = {g1, g2}
  MaxCalls = 3
  Together = 3
  Clients = {p}
  MaxVisits = 2
  MaxDrops = 1
INVARIANTS InOrder NoLeak ClickMeansThePage
PROPERTIES EveryCallReturns ScreenNeverGoesBack ScreensCatchUp
CHECK_DEADLOCK FALSE
