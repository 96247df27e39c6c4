SPECIFICATION ClockSpec
CONSTANTS
  SeatCount = 4
  FoulMute = 1
  FoulRemove = 2
  Cards = {c1, c2, c3, c4}
  Deals <- FourSeats
  MaxDay = 0
  MaxNominees = 0
  MaxFouls = 1
  MaxRemoved = 1
  FoulPhases <- Phases
  MaxAutoPicks = 2
INVARIANTS PickerCanPick
PROPERTIES LateAutoPickIsVoid FullCeremonyEnds
