SPECIFICATION SpecAsked
CONSTANTS
  a = a
  b = b
  Track = {a, b}
  Radio = radio
  MinUpcoming = 1
  Batches <- Album
  MaxLen = 3
  Found <- MayFind
  Foreign <- Others
  Commands = {"Play", "Pause", "Next", "Enqueue", "RemoveQueueItem"}
  MaxCommands = 2
  MaxFaults = 2
  MaxMoves = 1
INVARIANTS TypeOK VersionVouches QuietMeansInStep
PROPERTIES LooksDisturbNothing FollowsDaemon
CHECK_DEADLOCK FALSE
