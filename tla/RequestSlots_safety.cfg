SPECIFICATION Spec
CONSTANTS
  Requests = {r1, r2, r3, r4, r5}
  Bodies = {"empty", "payload", "over"}
  MaxInflight = 2
  NoTask = NoTask
SYMMETRY Symmetry
INVARIANTS
  TypeOK
  SlotsConserved
  NoStrandedWaiter
  PayloadsNeverOverlap
  PayloadsNeverShed
PROPERTIES
  TimesOutOnlyWhenSaturated
  NoOvertaking
