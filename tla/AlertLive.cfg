\* one alert, three runs for it, and every alert ends judged
CONSTANTS
  Alerts = {a1}
  Concurrency = 2
  MaxRuns = 3
  MaxFaults = 1
  MaxTouches = 2
  MaxTroubles = 4
SPECIFICATION FairSpec
INVARIANTS
  SoleTriager
PROPERTIES
  EveryAlertJudged
\* analysts and senders may do nothing more
CHECK_DEADLOCK FALSE
