\* cards decided at the external gateway by two callers, one crash
CONSTANTS
  r1 = r1  r2 = r2  r3 = r3  r4 = r4  c1 = c1  c2 = c2  c3 = c3  q1 = q1  q2 = q2
  NoRun = NoRun  NoCard = NoCard
  QueueRuns = {r1}
  ParkedRuns = {}
  TicketedRuns = {}
  ChatRuns = {}
  Children <- EveryTask
  Flow <- L2Flow
  FreshParams = {r1}
  Cards = {c1, c2}
  Requests = {q1, q2}
  RUN_DISPATCH = 2
  External = TRUE
  MintFails = TRUE
  MaxCrashes = 1
SPECIFICATION Spec
SYMMETRY CardSymmetry
INVARIANTS
  OneDriver
  MirrorFollowsJiaotu
PROPERTIES
  ImplementsApprovalOnce
