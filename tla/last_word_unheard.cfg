SPECIFICATION BallotSpec
CONSTANTS
  SeatCount = 5
  FoulMute = 1
  FoulRemove = 2
  Cards = {c1, c2, c3, c4, c5}
  Deals <- FiveSeats
  MaxDay = 1
  MaxNominees = 0
  MaxFouls = 0
  MaxRemoved = 1
  FoulPhases <- Phases
INVARIANTS CondemnedIsHeard
