SPECIFICATION FairSpec
CONSTANTS
  Sources = {1, 2}
  PathOf <- OnePath
  Requests = {}
  Nobody = Nobody
  MaxEdits = 1
  MaxRequests = 0
  MaxFaults = 0
PROPERTIES FilesAreFound
