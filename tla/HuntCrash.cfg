\* faults, overspent budgets and a crash anywhere in a hunt of three rounds
CONSTANTS
  MaxRounds = 3
  MaxTasks = 1
  Faults = TRUE
  Overspends = {"token_budget", "llm_timeout", "round_timeout"}
  MaxRuns = 8
  MaxCrashes = 1
SPECIFICATION Spec
INVARIANTS
  OneRoundAtATime
PROPERTIES
  KeepsPromise
\* a hunt that is over does nothing more
CHECK_DEADLOCK FALSE
