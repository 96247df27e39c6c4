SPECIFICATION LogSpec
CONSTANTS
  SeatCount = 4
  FoulMute = 1
  FoulRemove = 2
  Cards = {c1, c2, c3, c4}
  Deals <- FourSeats
  MaxDay = 1
  MaxNominees = 1
  MaxFouls = 1
  MaxRemoved = 1
  FoulPhases <- Phases
  Starts <- Stretches
  HistoryLimit = 2
  MaxEvents = 3
  MaxMishaps = 1
SYMMETRY Symmetry
INVARIANTS ReplayIsFaithful NoCollision StatsCountedOnce ResultIsWritten
CHECK_DEADLOCK FALSE
