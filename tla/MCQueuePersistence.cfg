CONSTANTS
  MaxMoments = 6
SPECIFICATION FairSpec
INVARIANTS
  TypeOK
  NothingForgotten
  ItemsNotOvertaken
PROPERTIES
  KeepsPromise
  EveryChangeIsSaved
  RemovalCompletes
CHECK_DEADLOCK FALSE
