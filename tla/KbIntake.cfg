\* a closed case, a run or a draft by hand, two faults anywhere
CONSTANTS
  Cases = {c1}
  MaxRuns = 4
  MaxByHand = 1
  MaxFaults = 2
SPECIFICATION FairSpec
INVARIANTS
  IndexTellsLedger
  OneDraftPerCase
PROPERTIES
  IntakeSettles
\* reviewers may do nothing more
CHECK_DEADLOCK FALSE
