SPECIFICATION FairSpec
CONSTANTS
  Callers = {c1, c2, c3, c4}
  MaxVersion = 3
  MaxStarts = 2
INVARIANTS
  TypeOK
  OneInstallPerCaller
  EnsuredIsLoaded
  NoRollback
PROPERTIES
  StaysSettled
  EventuallySettled
