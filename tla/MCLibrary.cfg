SPECIFICATION FairSpec
CONSTANTS
  Sources = {1}
  PathOf <- OnlyPath
  Requests = {r1}
  Nobody = Nobody
  MaxEdits = 1
  MaxRequests = 1
  MaxFaults = 1
INVARIANTS TypeOK RememberedMeansEmpty
PROPERTIES NoLostUpdate NothingGoesUnexplained CatchesUp
