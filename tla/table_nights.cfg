SPECIFICATION DuskSpec
CONSTANTS
  SeatCount = 6
  FoulMute = 1
  FoulRemove = 2
  Cards = {c1, c2, c3, c4, c5, c6}
  Deals <- SixSeats
  MaxDay = 2
  MaxNominees = 0
  MaxFouls = 0
  MaxRemoved = 1
  FoulPhases <- Phases
  BotTables <- Tables
INVARIANTS BotsDecideLegally
PROPERTIES NightVictimWasShotByAll NightMovesLeakNothing BotsAgree
