\* no run and no card is left hanging: a run whose cards the external gateway decides, over a crash
\* and a replayed start, and a hunt parked beside the task it waits for
CONSTANTS
  r1 = r1  r2 = r2  r3 = r3  r4 = r4  c1 = c1  c2 = c2  c3 = c3  q1 = q1  q2 = q2
  NoRun = NoRun  NoCard = NoCard
  QueueRuns = {r1, r3}
  ParkedRuns = {r2}
  TicketedRuns = {r3}
  ChatRuns = {}
  Children <- EveryTask
  Flow <- L2Flow
  FreshParams = {r1}
  Cards = {c1, c2}
  Requests = {q1}
  RUN_DISPATCH = 2
  External = TRUE
  MintFails = FALSE
  MaxCrashes = 1
SPECIFICATION FairSpec
PROPERTIES
  NothingHangs
