SPECIFICATION FairSpec
CONSTANTS
  Requests = {r1, r2, r3}
  Bodies = {"empty", "payload"}
  MaxInflight = 1
  NoTask = NoTask
PROPERTIES
  EveryRequestAnswered
  ImplementsLimit
