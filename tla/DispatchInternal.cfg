\* a queued run, one with a ticket and a chat run, cards decided here, one crash
CONSTANTS
  r1 = r1  r2 = r2  r3 = r3  r4 = r4  c1 = c1  c2 = c2  c3 = c3  q1 = q1  q2 = q2
  NoRun = NoRun  NoCard = NoCard
  QueueRuns = {r1, r3}
  ParkedRuns = {}
  TicketedRuns = {r3}
  ChatRuns = {r4}
  Children <- EveryTask
  Flow <- L2Flow
  FreshParams = {}
  Cards = {c1, c2}
  Requests = {q1}
  RUN_DISPATCH = 2
  External = FALSE
  MintFails = TRUE
  MaxCrashes = 1
SPECIFICATION Spec
SYMMETRY CardSymmetry
INVARIANTS
  IInv
  NoOrphanRun
  EffectOnce
  JobsMatchRuns
