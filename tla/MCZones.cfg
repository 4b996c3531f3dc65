SPECIFICATION Spec
CONSTANTS
  a = a
  b = b
  Track = {a, b}
  Radio = radio
  MinUpcoming = 1
  Batches <- Album
  MaxLen = 2
  Nobody = nobody
  Snapcasts = {s}
  Mpds = {m}
  Browsers = {}
  Requests = {r, r2}
  Commands = {"Play", "Next", "RemoveQueueItem", "RestoreClearedQueue"}
  MaxElapsed = 1
  MaxSteps = 4
INVARIANTS TypeOK BestIsFollowed
PROPERTIES NoRollback MemberIsShown
CHECK_DEADLOCK FALSE
