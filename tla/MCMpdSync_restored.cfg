SPECIFICATION Spec
CONSTANTS
  a = a
  b = b
  Track = {a, b}
  Radio = radio
  MinUpcoming = 1
  Batches <- Album
  MaxLen = 3
  Found <- MayFind
  Foreign <- Others
  Commands = {"Play", "Pause", "Next", "Enqueue", "RemoveQueueItem"}
  MaxCommands = 2
  MaxFaults = 0
  MaxMoves = 0
INVARIANT RestoredCursorIsKept
CHECK_DEADLOCK FALSE
