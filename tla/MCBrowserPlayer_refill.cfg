CONSTANTS
  a = a
  b = b
  c = c
  Radio = Radio
  Track = {a, b, c}
  MinUpcoming = 2
  Batches <- MCBatches
  Found <- MCFound
  MaxLen = 3
  MaxRevision = 2
  Commands = {"Play", "Pause", "Stop", "Next", "Previous", "Seek", "SetRepeat",
              "Clear", "RestoreClearedQueue", "PlayQueueIndex", "PlayTracks",
              "Enqueue", "RemoveQueueItem", "MoveQueueItem", "PlayStream"}
SPECIFICATION Spec
INVARIANTS
  TypeOK
  PositionInQueue
  ResumesBehindLastItem
  RefillHasSeed
  CheckpointIsCurrent
PROPERTIES
  RefillStartsAtFirstFound
  StaleResultIsDropped
  EditKeepsNowPlaying
