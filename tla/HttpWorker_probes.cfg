SPECIFICATION FairSpec
CONSTANTS
  LiveProbes = {l1}
  ReadyProbes = {p1}
  Invocations = {i1, i2}
  PoolSize = 1
  MaxVersion = 2
  MaxStarts = 2
  Timeout = 2
  Free = Free
INVARIANTS
  TypeOK
  ConcurrentLoadsBounded
PROPERTIES
  ImplementsLoading
  KilledOnlyByInvocations
  EveryRequestAnswered
