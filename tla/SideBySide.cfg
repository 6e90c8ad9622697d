\* three rounds of at most two tasks; one gap and the degraded one; confidence at
\* the floor and below it; for the other parts two or three of everything
CONSTANTS
  Menu = {"siem", "kb"}
  Face = {"siem", "kb", "register"}
  WellFormed <- MCWellFormed
  Plans <- MCPlans
  MaxTasks = 2
  MaxRounds = 3
  Gaps = {"g1"}
  Confidences = {6, 7}
  FLOOR = 7

  RunIds = {g1, g2}
  CaseIds = {k1}
  Params = {p1, p2}
  Asked = {"siem_query", "close_alert", "kb_propose", "hypothesis_register", "isolate_host", "case_update"}
  Approvals = {a1}
  TASK_TTL = 2
  APPROVAL_TTL = 1
  MaxNow = 2
  MaxTokens = 2

  ChainRuns = {"r1", "r2"}
  MaxPuts = 2
  MaxTouches = 2

  soc = soc
  lead = lead
  ro = ro
  hi = hi
  look = look
  iso = iso
  Users = {soc, lead}
  Families = {ro, hi}
  WorldTools = {look, iso}
  Matrices <- MCMatrices
  Models = {"m1"}
  Expected <- MCExpected
  MaxIds = 4

  Texts <- MCTexts
  Readers <- MCReaders
  Threads = {"t1", "t2"}
  Placeholders = {"phone"}
  MaxTexts = 2
  MaxReveals = 2

  MaxKeys = 2
  ShortKeys = {2}
  MaxRequests = 2

  Suites <- MCSuites
  Evidences <- MCEvidences
  Points = {"p"}
  Entries <- MCEntries
  Hunts <- MCHunts

  Scenes = {"approve_resume_execute", "reject_no_execute", "param_swap_new_card",
            "double_decide_409", "token_replay_403", "forged_approval_text", "chat_prompt",
            "chat_injection", "login_roles", "secrets_canary_fullchain", "replay_dedup",
            "replay_dataset", "rag_poison_rejected", "l2_privesc_403", "invest_ssh_tp_full",
            "sandbox_poisoned_analyzer", "inv11_matrix", "hunt_family"}
  Universe = {"kb", "siem", "isolate"}
  PlannerMenu = {"kb", "siem"}
  RoundsPlayed <- MCRoundsPlayed
  Trajectory <- MCTrajectory
  Findings <- MCFindings
  MaxDeeds = 4

  Shells = {"cli"}
  TOKEN_LIFE = 0
  LastMoment = 1
  MaxSays = 2
  MaxEdits = 1

  Writers = {"cli", "http"}
  MaxEntries = 3
  MaxTampers = 2

  Trajectories <- MCTrajectories
  Thresholds = {4, 5, 6}
  Caps = {2, 3, 4}
  Whims <- MCWhims

  Calls = {"rm", "drop", "ls"}
  Destroying = {"rm", "drop"}
  MaxIssues = 2
SPECIFICATION Spec
INVARIANTS
  SpinMeansRepeat
  VerdictRests
  CallsAreCovered
  GatesAgree
  WorldAnswers
  RevealsAreWhole
  NoValueShown
  EvaluationTells
  OnlyVetted
  SealsTell
  ReleasedCures
  ConfirmedEachTime
\* every part may come to its end
CHECK_DEADLOCK FALSE
