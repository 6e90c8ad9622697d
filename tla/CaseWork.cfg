\* two runs one after the other, an unmarked and a red alert, a value by hand, two steps of the loop
CONSTANTS
  Runs = {r1, r2}
  Alerts <- MCAlerts
  TypeOf <- MCTypeOf
  Artifacts <- MCArtifacts
  ManualMarks = {4}
  Calls <- MCCalls
  MaxSteps = 2
  MaxManual = 1
  MaxActive = 1
SPECIFICATION FairSpec
INVARIANTS
  StrictStaysInside
  ReportsAreTrue
PROPERTIES
  WorkEnds
\* all runs over, nothing left to add
CHECK_DEADLOCK FALSE
