\* two tasks a round, cancelled at any time, in a process that lives
CONSTANTS
  MaxRounds = 2
  MaxTasks = 2
  Faults = TRUE
  Overspends = {"token_budget", "llm_timeout", "round_timeout"}
  MaxRuns = 7
  MaxCrashes = 0
SPECIFICATION FairSpec
INVARIANTS
  NoVainWait
PROPERTIES
  HuntWindsUp
\* a hunt that is over does nothing more
CHECK_DEADLOCK FALSE
