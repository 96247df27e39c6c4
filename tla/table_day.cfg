SPECIFICATION Spec
CONSTANTS
  SeatCount = 4
  FoulMute = 1
  FoulRemove = 2
  Cards = {c1, c2, c3, c4}
  Deals <- FourSeats
  MaxDay = 1
  MaxNominees = 2
  MaxFouls = 2
  MaxRemoved = 1
  FoulPhases = {"ROLE_DISTRIBUTION", "DAY_SPEECH"}
SYMMETRY Symmetry
INVARIANTS TypeOK NominationsStand RemovedLeavesNoTrace OneVoiceByDay TheNightIsDark
PROPERTIES RefinesCycle EveryoneHeard
ACTION_CONSTRAINT FoulsEarly
