SPECIFICATION Spec
CONSTANTS
  a = a
  b = b
  Track = {a, b}
  Radio = radio
  MinUpcoming = 1
  Batches <- Album
  MaxLen = 2
  Nobody = nobody
  Snapcasts = {s}
  Mpds = {m}
  Browsers = {}
  Requests = {r}
  Commands = {"Play", "Next", "RemoveQueueItem"}
  MaxElapsed = 1
  MaxSteps = 4
PROPERTY FenceIsLifted
CHECK_DEADLOCK FALSE
