CONSTANTS
  a = a
  b = b
  c = c
  Radio = Radio
  Track = {a, b, c}
  MinUpcoming = 0
  Batches <- MCBatches
  Found <- MCFound
  MaxLen = 3
  MaxRevision = 1
  Commands = {"Next", "Previous", "SetRepeat", "SetShuffle", "PlayQueueIndex",
              "PlayTracks", "Enqueue", "RemoveQueueItem", "MoveQueueItem"}
SPECIFICATION Spec
INVARIANTS
  CheckpointIsCurrent
PROPERTIES
  NextUpIsHonoured
  PlayNextComesNext
