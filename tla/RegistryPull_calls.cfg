SPECIFICATION FairSpec
CONSTANTS
  MaxPulls = 3
INVARIANTS
  TypeOK
  DirectoryIsComplete
  NothingOutlivesACall
PROPERTIES
  PullEnds
