SPECIFICATION Spec
CONSTANTS
  Player = {p}
  Zone = {z}
  Slow = {}
  Client = {c}
  ReadsMayFail = FALSE
  MaxToggles = 2
  MaxActs = 0
INVARIANTS TypeOK
PROPERTIES NothingAddedOnceOff
