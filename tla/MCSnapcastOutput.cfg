SPECIFICATION Spec
CONSTANTS
  a = a
  b = b
  Track = {a, b}
  Radio = radio
  MinUpcoming = 1
  Nothing = nothing
  Generations = {g1, g2, g3, g4, g5}
  Commands = {"Play", "Pause", "Stop", "Next", "SetShuffle", "PlayQueueIndex", "PlayTracks", "PlayStream", "RemoveQueueItem", "Enqueue", "Clear"}
  Batches <- Album
  Found <- MayFind
  MaxCommands = 2
  MaxLen = 2
INVARIANTS TypeOK SilentUnlessPlaying HeardUnlessAstray
PROPERTY PlaysInTheEnd
CHECK_DEADLOCK FALSE
