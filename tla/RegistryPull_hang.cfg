SPECIFICATION CallerFairSpec
CONSTANTS
  MaxPulls = 1
PROPERTIES
  PullBounded
