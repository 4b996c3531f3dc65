SPECIFICATION FairSpec
CONSTANTS
  Player = {p}
  Zone = {z}
  Slow = {z}
  Client = {}
  ReadsMayFail = FALSE
  MaxToggles = 0
  MaxActs = 1
INVARIANTS ReservationHasJob
PROPERTIES RefillComes
