\* a question of an analyst, of a duty lead, or of one who sees no tool; six nodes and six steps, two tokens
\* for two calls of the model; one restart, one broken connection
CONSTANTS
  MaxSteps = 6
  MaxTokens = 2
  EMPTY_STREAK_LIMIT = 2
  MaxCrashes = 1
  MaxDrops = 1
  Tools = {"get_alert", "isolate_host"}
  TierOf <- MCTierOf
  VisibleTo <- MCVisibleTo
  CHAT_READONLY_TOOLS = {"get_alert"}
  Costs = {1, 2}
SPECIFICATION FairSpec
INVARIANTS
  RowKeepsBooks
  AnswersAsAsked
PROPERTIES
  StreamDelivers
\* the run over, the browser stopped
CHECK_DEADLOCK FALSE
