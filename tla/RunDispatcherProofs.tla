------------------------ MODULE RunDispatcherProofs ------------------------
(***************************************************************************)
(* What TLAPS proves of RunDispatcher, for every set of runs, cards and    *)
(* requests, every flow and every number of crashes.                       *)
(***************************************************************************)
EXTENDS RunDispatcherProps, SequenceTheorems, TLAPS

-----------------------------------------------------------------------------
(* Types *)

LEMMA RunTransitionTypes == \A s \in RunStatus : RUN_TRANSITIONS[s] \subseteq RunStatus
BY DEF RUN_TRANSITIONS

LEMMA RecordTypes ==
  /\ NoCall \in Call
  /\ NoSync \in Commit
  /\ [op |-> "claim", run |-> NoRun, act |-> "start"] \in Commit
  /\ \A r \in Runs, a \in JobActions : [op |-> "complete", run |-> r, act |-> a] \in Commit
  /\ \A r \in Runs : [op |-> "enqueue", run |-> r, act |-> "resume"] \in Commit
  /\ \A r \in Runs \ ChatRuns : [op |-> "enqueue", run |-> r, act |-> "start"] \in Commit
BY RunsAssumption DEF NoCall, NoSync, Call, Commit, JobActions

LEMMA JobStates ==
  ASSUME NEW j \in Job, NEW st \in {"pending", "claimed", "done"}
  PROVE  [j EXCEPT !.state = st] \in Job
BY DEF Job

LEMMA JobsType ==
  ASSUME jobs \in Seq(Job),
         NEW f, DOMAIN f = DOMAIN jobs, f = [i \in DOMAIN f |-> f[i]],
         \A i \in DOMAIN jobs : f[i] \in Job
  PROVE  f \in Seq(Job)
<1>1. Len(jobs) \in Nat /\ DOMAIN jobs = 1 .. Len(jobs)
  BY LenProperties
<1>2. f \in [1 .. Len(jobs) -> Job]
  BY <1>1
<1> QED BY <1>1, <1>2, SeqDef

LEMMA SetJobsType ==
  ASSUME jobs \in Seq(Job), NEW S, NEW st \in {"pending", "claimed", "done"}
  PROVE  SetJobs(S, st) \in Seq(Job)
<1>1. \A i \in DOMAIN jobs : jobs[i] \in Job
  BY LenProperties, ElementOfSeq
<1>2. \A i \in DOMAIN jobs : SetJobs(S, st)[i] \in Job
  BY <1>1, JobStates DEF SetJobs
<1> QED BY <1>2, JobsType DEF SetJobs

LEMMA MoveType ==
  ASSUME TypeOK, NEW r \in Runs, NEW to \in RunStatus, Move(r, to)
  PROVE  status' \in [Runs -> RunStatus \cup {"none"}]
BY DEF TypeOK, Move

LEMMA DrvType ==
  ASSUME TypeOK, NEW r \in Runs, NEW a \in JobActions, NEW d \in DriverState,
         drv' = [drv EXCEPT ![r][a] = d]
  PROVE  drv' \in [Runs -> [JobActions -> DriverState]]
BY DEF TypeOK

LEMMA HandType ==
  ASSUME TypeOK, NEW r \in Runs, NEW a \in JobActions, NEW C \in SUBSET Cards,
         hand' = [hand EXCEPT ![r][a] = C]
  PROVE  hand' \in [Runs -> [JobActions -> SUBSET Cards]]
BY DEF TypeOK

LEMMA ReturnType ==
  ASSUME TypeOK, NEW r \in Runs, NEW a \in JobActions, Return(r, a)
  PROVE  /\ drv' \in [Runs -> [JobActions -> DriverState]]
         /\ hand' \in [Runs -> [JobActions -> SUBSET Cards]]
         /\ sync' \in Commit
BY RecordTypes DEF TypeOK, Return, Commits, DriverState

LEMMA NodeExitType ==
  ASSUME TypeOK, NEW r \in Runs, NEW a \in JobActions, NodeExit(r, a)
  PROVE  /\ status' \in [Runs -> RunStatus \cup {"none"}]
         /\ pos' \in [Runs -> Nat]
         /\ drv' \in [Runs -> [JobActions -> DriverState]]
         /\ hand' \in [Runs -> [JobActions -> SUBSET Cards]]
         /\ sync' \in Commit
<1>1. pos' \in [Runs -> Nat]
  BY DEF TypeOK, NodeExit
<1>2. CASE pos[r] + 1 = Len(Flow[r])
  BY <1>1, <1>2, MoveType, ReturnType DEF NodeExit, RunStatus
<1>3. CASE pos[r] + 1 # Len(Flow[r])
  <2>1. "node" \in DriverState /\ {} \in SUBSET Cards
    BY DEF DriverState
  <2>2. /\ drv' = [drv EXCEPT ![r][a] = "node"]
        /\ hand' = [hand EXCEPT ![r][a] = {}]
        /\ UNCHANGED <<status, sync>>
    BY <1>3 DEF NodeExit
  <2> QED BY <1>1, <2>1, <2>2, DrvType, HandType DEF TypeOK
<1> QED BY <1>2, <1>3

LEMMA SuspendType ==
  ASSUME TypeOK, NEW r \in Runs, NEW a \in JobActions, NEW C, Suspend(r, a, C)
  PROVE  /\ drv' \in [Runs -> [JobActions -> DriverState]]
         /\ hand' \in [Runs -> [JobActions -> SUBSET Cards]]
         /\ sync' \in Commit
<1>1. CASE External /\ Undeclared(r, C) # {}
  <2>1. "declare" \in DriverState /\ Undeclared(r, C) \in SUBSET Cards
    BY DEF DriverState, Undeclared
  <2>2. /\ drv' = [drv EXCEPT ![r][a] = "declare"]
        /\ hand' = [hand EXCEPT ![r][a] = Undeclared(r, C)]
        /\ UNCHANGED sync
    BY <1>1 DEF Suspend
  <2> QED BY <2>1, <2>2, DrvType, HandType DEF TypeOK
<1>2. CASE ~(External /\ Undeclared(r, C) # {})
  BY <1>2, ReturnType DEF Suspend
<1> QED BY <1>1, <1>2

LEMMA CardUpdates ==
  ASSUME NEW k \in Card
  PROVE  /\ [k EXCEPT !.executed = TRUE] \in Card
         /\ k.status # "none" => \A to \in ApprovalStatus : [k EXCEPT !.status = to] \in Card
BY DEF Card, ApprovalStatus

LEMMA ExpireType ==
  ASSUME TypeOK, NEW S \in SUBSET Cards, ExpireApprovalCards(S),
         \A c \in S : card[c].status # "none"
  PROVE  /\ card' \in [Cards -> Card]
         /\ status' \in [Runs -> RunStatus \cup {"none"}]
<1>1. card' \in [Cards -> Card]
  BY CardUpdates DEF TypeOK, ExpireApprovalCards, ApprovalStatus
<1>2. status' \in [Runs -> RunStatus \cup {"none"}]
  BY DEF TypeOK, ExpireApprovalCards, RunStatus
<1> QED BY <1>1, <1>2

LEMMA DecideType ==
  ASSUME TypeOK, NEW c \in Cards, card[c].status # "none", NEW to \in ApprovalStatus, Decide(c, to)
  PROVE  card' \in [Cards -> Card] /\ sync' \in Commit
<1>1. card[c] \in Card /\ card[c].run \in Runs
  BY DEF TypeOK, Card
<1>2. card' = [card EXCEPT ![c] = [card[c] EXCEPT !.status = to]]
  BY DEF Decide
<1>3. [card[c] EXCEPT !.status = to] \in Card
  BY <1>1, CardUpdates
<1>4. card' \in [Cards -> Card]
  BY <1>2, <1>3 DEF TypeOK
<1>5. sync' \in Commit
  BY <1>1, RecordTypes DEF Decide, Commits
<1> QED BY <1>4, <1>5

LEMMA RequestType ==
  ASSUME TypeOK, NEW c \in Cards, NEW s \in ApprovalStatus
  PROVE  /\ [jiaotu EXCEPT ![c] = Append(@, s)] \in [Cards -> Seq(ApprovalStatus)]
         /\ \A i : [jiaotu EXCEPT ![c][i] = s] \in [Cards -> Seq(ApprovalStatus)]
<1>1. jiaotu[c] \in Seq(ApprovalStatus)
  BY DEF TypeOK
<1>2. Append(jiaotu[c], s) \in Seq(ApprovalStatus)
  BY <1>1
<1>3. ASSUME NEW i PROVE [jiaotu[c] EXCEPT ![i] = s] \in Seq(ApprovalStatus)
  <2>1. jiaotu[c] \in [1 .. Len(jiaotu[c]) -> ApprovalStatus] /\ Len(jiaotu[c]) \in Nat
    BY <1>1, LenProperties
  <2>2. [jiaotu[c] EXCEPT ![i] = s] \in [1 .. Len(jiaotu[c]) -> ApprovalStatus]
    BY <2>1
  <2> QED BY <2>1, <2>2, SeqDef
<1> QED BY <1>2, <1>3 DEF TypeOK

LEMMA TypeInit == Init => TypeOK
BY RunsAssumption, RecordTypes DEF Init, TypeOK, Runs, RunStatus, Card, DriverState, ApprovalStatus, Job

LEMMA TypeEnqueueCommit ==
  ASSUME TypeOK, EnqueueCommit
  PROVE  TypeOK'
<1>1. PICK r \in Runs, b \in JobActions : sync.run = r /\ sync.act = b /\ (b = "start" => r \notin ChatRuns)
  BY DEF TypeOK, Commit, EnqueueCommit
<1>2. [run |-> r, action |-> b, state |-> "pending"] \in Job
  BY <1>1 DEF Job
<1>3. jobs' \in Seq(Job)
  BY <1>1, <1>2 DEF TypeOK, EnqueueCommit, EnqueueRunJob
<1> QED BY <1>3, RecordTypes DEF TypeOK, EnqueueCommit, remote

LEMMA TypeCompleteRunJob ==
  ASSUME TypeOK, CompleteRunJob
  PROVE  TypeOK'
<1>1. jobs' \in Seq(Job)
  BY SetJobsType DEF TypeOK, CompleteRunJob
<1> QED BY <1>1, RecordTypes DEF TypeOK, CompleteRunJob, remote

LEMMA TypeClaimRunJobs ==
  ASSUME TypeOK, ClaimRunJobs
  PROVE  TypeOK'
<1>1. drv' \in [Runs -> [JobActions -> DriverState]]
  BY DEF TypeOK, ClaimRunJobs, DriverState
<1>2. \A i \in DOMAIN jobs : jobs[i] \in Job
  BY LenProperties, ElementOfSeq DEF TypeOK
<1>3. jobs' \in Seq(Job)
  <2>1. DOMAIN jobs' = DOMAIN jobs /\ jobs' = [i \in DOMAIN jobs' |-> jobs'[i]]
    BY DEF ClaimRunJobs
  <2>2. ASSUME NEW i \in DOMAIN jobs PROVE jobs'[i] \in Job
    <3>1. \/ jobs'[i] = jobs[i]
          \/ jobs'[i] = [jobs[i] EXCEPT !.state = "claimed"]
          \/ jobs'[i] = [jobs[i] EXCEPT !.state = "done"]
      BY DEF ClaimRunJobs
    <3> QED BY <1>2, <3>1, JobStates
  <2> QED BY <2>1, <2>2, JobsType DEF TypeOK
<1> QED BY <1>1, <1>3, RecordTypes DEF TypeOK, ClaimRunJobs, remote

LEMMA TypePostRun ==
  ASSUME TypeOK, NEW r \in Runs, PostRun(r)
  PROVE  TypeOK'
BY RunsAssumption, RecordTypes DEF TypeOK, PostRun, remote, Commits, RunStatus, JobActions, Runs

LEMMA TypePostTicketedRun ==
  ASSUME TypeOK, NEW r \in Runs, PostTicketedRun(r)
  PROVE  TypeOK'
BY DrvType DEF TypeOK, PostTicketedRun, remote, RunStatus, JobActions, DriverState

LEMMA TypePostChat ==
  ASSUME TypeOK, NEW r \in Runs, PostChat(r)
  PROVE  TypeOK'
BY DrvType DEF TypeOK, PostChat, remote, RunStatus, JobActions, DriverState

LEMMA TypeRejectNow ==
  ASSUME TypeOK, NEW c \in Cards, RejectNow(c)
  PROVE  TypeOK'
BY DecideType DEF TypeOK, RejectNow, remote, ApprovalStatus

LEMMA TypeCallDecide ==
  ASSUME TypeOK, NEW q \in Requests, NEW c \in Cards, NEW approve \in BOOLEAN, CallDecide(q, c, approve)
  PROVE  TypeOK'
<1>1. Len(jiaotu[c]) \in Nat
  BY DEF TypeOK
<1> QED BY <1>1 DEF TypeOK, CallDecide, disk, remote, Call

LEMMA TypeJiaotuDecides ==
  ASSUME TypeOK, NEW q \in Requests, JiaotuDecides(q)
  PROVE  TypeOK'
<1>1. /\ req[q] \in Call /\ req[q].card \in Cards
      /\ req' = [req EXCEPT ![q].pc = "answered"]
  BY DEF TypeOK, JiaotuDecides, Call
<1>2. req' \in [Requests -> Call]
  BY <1>1 DEF TypeOK, Call
<1>3. jiaotu' \in [Cards -> Seq(ApprovalStatus)]
  <2>1. Decision(req[q].approve) \in ApprovalStatus
    BY DEF Decision, ApprovalStatus
  <2> QED BY <1>1, <2>1, RequestType DEF TypeOK, JiaotuDecides
<1> QED BY <1>2, <1>3 DEF TypeOK, JiaotuDecides, disk

LEMMA TypeDecisionLands ==
  ASSUME TypeOK, NEW q \in Requests, DecisionLands(q)
  PROVE  TypeOK'
<1> DEFINE c == req[q].card
<1>1. c \in Cards
  BY DEF TypeOK, DecisionLands, Call
<1>2. card' \in [Cards -> Card] /\ sync' \in Commit
  <2>1. Decision(req[q].approve) \in ApprovalStatus
    BY DEF Decision, ApprovalStatus
  <2> QED BY <1>1, <2>1, DecideType DEF TypeOK, DecisionLands
<1> QED BY <1>2, RecordTypes DEF TypeOK, DecisionLands, remote

LEMMA TypeDecisionFails ==
  ASSUME TypeOK, NEW q \in Requests, DecisionFails(q)
  PROVE  TypeOK'
BY RecordTypes DEF TypeOK, DecisionFails, disk, remote

LEMMA TypeTicketMinted ==
  ASSUME TypeOK, NEW r \in Runs, TicketMinted(r)
  PROVE  TypeOK'
<1>1. "start" \in JobActions /\ "off" \in DriverState
  BY DEF JobActions, DriverState
<1>2. sync' \in Commit
  BY RunsAssumption, RecordTypes DEF TicketMinted, Commits
<1> QED BY <1>1, <1>2, DrvType DEF TypeOK, TicketMinted, disk, remote

LEMMA TypeTicketMintFailed ==
  ASSUME TypeOK, NEW r \in Runs, TicketMintFailed(r)
  PROVE  TypeOK'
BY DrvType DEF TypeOK, TicketMintFailed, FailUnTicketedRun, remote, RunStatus, JobActions, DriverState

LEMMA TypeStartMinted ==
  ASSUME TypeOK, NEW r \in Runs, StartMinted(r)
  PROVE  TypeOK'
<1>1. "start" \in JobActions /\ "node" \in DriverState
  BY DEF JobActions, DriverState
<1>2. CASE MayBecome(status[r], "running")
  <2>1. drv' \in [Runs -> [JobActions -> DriverState]]
    BY <1>1, <1>2, DrvType DEF StartMinted
  <2>2. status' \in [Runs -> RunStatus \cup {"none"}]
    BY <1>2 DEF TypeOK, StartMinted, RunStatus
  <2>3. pos' \in [Runs -> Nat] /\ gen' \in [Runs -> Nat]
    <3>1. pos' = [pos EXCEPT ![r] = 0] /\ gen' = [gen EXCEPT ![r] = @ + 1]
      BY <1>2 DEF StartMinted
    <3> QED BY <3>1 DEF TypeOK
  <2> QED BY <1>2, <2>1, <2>2, <2>3 DEF TypeOK, StartMinted, remote
<1>3. CASE ~MayBecome(status[r], "running")
  BY <1>1, <1>3, ReturnType DEF TypeOK, StartMinted, remote
<1> QED BY <1>2, <1>3

LEMMA TypeStartMintFailed ==
  ASSUME TypeOK, NEW r \in Runs, StartMintFailed(r)
  PROVE  TypeOK'
<1>1. "start" \in JobActions
  BY DEF JobActions
<1> QED BY <1>1, ReturnType DEF TypeOK, StartMintFailed, FailUnTicketedRun, RunStatus, remote

LEMMA TypeResumeMinted ==
  ASSUME TypeOK, NEW r \in Runs, ResumeMinted(r)
  PROVE  TypeOK'
<1>1. "resume" \in JobActions /\ "node" \in DriverState
  BY DEF JobActions, DriverState
<1>2. CASE status[r] = "awaiting_approval"
  BY <1>1, <1>2, DrvType DEF TypeOK, ResumeMinted, RunStatus, remote
<1>3. CASE status[r] # "awaiting_approval"
  BY <1>1, <1>3, ReturnType DEF TypeOK, ResumeMinted, remote
<1> QED BY <1>2, <1>3

LEMMA TypeResumeMintFailed ==
  ASSUME TypeOK, NEW r \in Runs, ResumeMintFailed(r)
  PROVE  TypeOK'
<1>1. "resume" \in JobActions
  BY DEF JobActions
<1> QED BY <1>1, ReturnType DEF TypeOK, ResumeMintFailed, disk, remote

LEMMA TypeSweepExpired ==
  ASSUME TypeOK, SweepExpired
  PROVE  TypeOK'
<1>1. card' \in [Cards -> Card] /\ status' \in [Runs -> RunStatus \cup {"none"}]
  BY ExpireType DEF TypeOK, SweepExpired, Overdue, ToReconcile
<1>2. \A c \in Cards : Len(jiaotu[c]) \in Nat
  BY DEF TypeOK
<1> QED BY <1>1, <1>2, RecordTypes DEF TypeOK, SweepExpired, Overdue, ToReconcile, Commits, remote

LEMMA TypeBatchSettled ==
  ASSUME TypeOK, BatchSettled
  PROVE  TypeOK'
BY DEF TypeOK, BatchSettled, disk, remote

LEMMA TypeReconcileExpired ==
  ASSUME TypeOK, NEW x \in recon, ReconcileExpired(x)
  PROVE  TypeOK'
<1>1. card' \in [Cards -> Card] /\ status' \in [Runs -> RunStatus \cup {"none"}]
  BY ExpireType DEF TypeOK, ReconcileExpired
<1> QED BY <1>1, RecordTypes DEF TypeOK, ReconcileExpired, ReconcileNext, Commits, remote

LEMMA TypeReconcileSkip ==
  ASSUME TypeOK, NEW x \in recon, ReconcileSkip(x)
  PROVE  TypeOK'
BY RecordTypes DEF TypeOK, ReconcileSkip, ReconcileNext, Commits, disk, remote

LEMMA TypeWorkNode ==
  ASSUME TypeOK, NEW r \in Runs, NEW a \in JobActions, WorkNode(r, a)
  PROVE  TypeOK'
BY NodeExitType DEF TypeOK, WorkNode, remote

LEMMA TypeWorkNodeThrows ==
  ASSUME TypeOK, NEW r \in Runs, NEW a \in JobActions, WorkNodeThrows(r, a)
  PROVE  TypeOK'
BY MoveType, ReturnType DEF TypeOK, WorkNodeThrows, Kill, RunStatus, remote

LEMMA TypeOpenApprovalCard ==
  ASSUME TypeOK, NEW r \in Runs, NEW a \in JobActions, OpenApprovalCard(r, a)
  PROVE  TypeOK'
<1>1. gen[r] \in Nat /\ status' \in [Runs -> RunStatus \cup {"none"}]
  BY DEF TypeOK, OpenApprovalCard, RunStatus
<1>2. card' \in [Cards -> Card]
  BY <1>1, RunsAssumption DEF TypeOK, OpenApprovalCard, Card, ApprovalStatus
<1>3. Suspend(r, a, card')
  BY DEF OpenApprovalCard
<1> QED BY <1>1, <1>2, <1>3, SuspendType DEF TypeOK, OpenApprovalCard, remote

LEMMA TypeInterruptAgain ==
  ASSUME TypeOK, NEW r \in Runs, NEW a \in JobActions, InterruptAgain(r, a)
  PROVE  TypeOK'
BY MoveType, SuspendType DEF TypeOK, InterruptAgain, RunStatus, remote

LEMMA TypeSkipRejected ==
  ASSUME TypeOK, NEW r \in Runs, NEW a \in JobActions, SkipRejected(r, a)
  PROVE  TypeOK'
BY NodeExitType DEF TypeOK, SkipRejected, remote

LEMMA TypeLookUpBurn ==
  ASSUME TypeOK, NEW r \in Runs, NEW a \in JobActions, LookUpBurn(r, a)
  PROVE  TypeOK'
<1>1. "gate" \in DriverState
  BY DEF DriverState
<1>2. PICK c \in Cards : hand' = [hand EXCEPT ![r][a] = {c}]
  BY DEF LookUpBurn, Decidable
<1> QED BY <1>1, <1>2, DrvType, HandType DEF TypeOK, LookUpBurn, disk, remote

LEMMA TypeGatePass ==
  ASSUME TypeOK, NEW r \in Runs, NEW a \in JobActions, GatePass(r, a)
  PROVE  TypeOK'
<1>1. "act" \in DriverState
  BY DEF DriverState
<1> QED BY <1>1, DrvType DEF TypeOK, GatePass, disk, remote

LEMMA TypeGateDeny ==
  ASSUME TypeOK, NEW r \in Runs, NEW a \in JobActions, GateDeny(r, a)
  PROVE  TypeOK'
BY MoveType, ReturnType DEF TypeOK, GateDeny, Kill, RunStatus, remote

LEMMA TypeAct ==
  ASSUME TypeOK, NEW r \in Runs, NEW a \in JobActions, Act(r, a)
  PROVE  TypeOK'
<1>1. "acted" \in DriverState
  BY DEF DriverState
<1>2. effects' \in [Cards -> Nat]
  BY DEF TypeOK, Act
<1> QED BY <1>1, <1>2, DrvType DEF TypeOK, Act, disk

LEMMA TypeActThrows ==
  ASSUME TypeOK, NEW r \in Runs, NEW a \in JobActions, ActThrows(r, a)
  PROVE  TypeOK'
BY MoveType, ReturnType DEF TypeOK, ActThrows, Kill, RunStatus, remote

LEMMA TypeActReturned ==
  ASSUME TypeOK, NEW r \in Runs, NEW a \in JobActions, ActReturned(r, a)
  PROVE  TypeOK'
<1>1. card' \in [Cards -> Card]
  BY CardUpdates DEF TypeOK, ActReturned
<1>2. burning' \in SUBSET Cards
  BY DEF TypeOK, ActReturned
<1> QED BY <1>1, <1>2, NodeExitType DEF TypeOK, ActReturned

LEMMA TypeDeclared ==
  ASSUME TypeOK, NEW r \in Runs, NEW a \in JobActions, Declared(r, a)
  PROVE  TypeOK'
<1>1. PICK c \in hand[r][a] :
        /\ \/ jiaotu' = [jiaotu EXCEPT ![c] = Append(@, "pending")]
           \/ UNCHANGED jiaotu
        /\ IF hand[r][a] = {c}
           THEN Return(r, a)
           ELSE hand' = [hand EXCEPT ![r][a] = @ \ {c}] /\ UNCHANGED <<drv, sync>>
  BY DEF Declared
<1>2. jiaotu' \in [Cards -> Seq(ApprovalStatus)]
  <2>1. c \in Cards /\ "pending" \in ApprovalStatus
    BY DEF TypeOK, ApprovalStatus
  <2>2. CASE UNCHANGED jiaotu
    BY <2>2 DEF TypeOK
  <2>3. CASE jiaotu' = [jiaotu EXCEPT ![c] = Append(@, "pending")]
    BY <2>1, <2>3, RequestType
  <2> QED BY <1>1, <2>2, <2>3
<1>3. hand[r][a] \ {c} \in SUBSET Cards
  BY DEF TypeOK
<1>4. /\ drv' \in [Runs -> [JobActions -> DriverState]]
      /\ hand' \in [Runs -> [JobActions -> SUBSET Cards]]
      /\ sync' \in Commit
  <2>1. CASE hand[r][a] = {c}
    BY <1>1, <2>1, ReturnType
  <2>2. CASE hand[r][a] # {c}
    BY <1>1, <1>3, <2>2, HandType DEF TypeOK
  <2> QED BY <2>1, <2>2
<1> QED BY <1>2, <1>4 DEF TypeOK, Declared, disk

LEMMA TypeBurnSettles ==
  ASSUME TypeOK, NEW c \in Cards, BurnSettles(c)
  PROVE  TypeOK'
BY DEF TypeOK, BurnSettles, disk, process

LEMMA TypeJiaotuExpires ==
  ASSUME TypeOK, NEW c \in Cards, JiaotuExpires(c)
  PROVE  TypeOK'
<1>1. jiaotu' \in [Cards -> Seq(ApprovalStatus)]
  BY RequestType DEF TypeOK, JiaotuExpires, ApprovalStatus
<1> QED BY <1>1 DEF TypeOK, JiaotuExpires, disk, process

LEMMA TypeAge ==
  ASSUME TypeOK, NEW c \in Cards, Age(c)
  PROVE  TypeOK'
BY DEF TypeOK, Age, disk, process, remote

LEMMA TypeCrash ==
  ASSUME TypeOK, Crash
  PROVE  TypeOK'
BY RecordTypes DEF TypeOK, Crash, disk, DriverState

LEMMA TypeRecover ==
  ASSUME TypeOK, Recover
  PROVE  TypeOK'
<1>1. \A i \in DOMAIN jobs : jobs[i] \in Job
  BY LenProperties, ElementOfSeq DEF TypeOK
<1>2. jobs' \in Seq(Job)
  <2>1. DOMAIN jobs' = DOMAIN jobs /\ jobs' = [i \in DOMAIN jobs' |-> jobs'[i]]
    BY DEF Recover
  <2>2. ASSUME NEW i \in DOMAIN jobs PROVE jobs'[i] \in Job
    <3>1. jobs[i].state \in {"pending", "claimed", "done"}
      BY <1>1 DEF Job
    <3>2. \/ jobs'[i] = [jobs[i] EXCEPT !.state = "done"]
          \/ jobs'[i] = [jobs[i] EXCEPT !.state = "pending"]
          \/ jobs'[i] = [jobs[i] EXCEPT !.state = jobs[i].state]
      BY DEF Recover
    <3> QED BY <1>1, <3>1, <3>2, JobStates
  <2> QED BY <2>1, <2>2, JobsType DEF TypeOK
<1> QED BY <1>2 DEF TypeOK, Recover, RunStatus, remote

LEMMA TypeStep ==
  ASSUME TypeOK, [Next]_vars
  PROVE  TypeOK'
<1>1. CASE Segment
  BY <1>1, TypeEnqueueCommit, TypeCompleteRunJob, TypeClaimRunJobs DEF Segment
<1>2. CASE Http
  BY <1>2, TypePostRun, TypePostTicketedRun, TypePostChat, TypeRejectNow, TypeCallDecide DEF Http
<1>3. CASE Answers
  BY <1>3, TypeJiaotuDecides, TypeDecisionLands, TypeDecisionFails DEF Answers
<1>4. CASE Minted
  BY <1>4, TypeTicketMinted, TypeTicketMintFailed, TypeStartMinted, TypeStartMintFailed,
     TypeResumeMinted, TypeResumeMintFailed DEF Minted
<1>5. CASE Loop
  BY <1>5, TypeSweepExpired, TypeBatchSettled, TypeReconcileExpired, TypeReconcileSkip DEF Loop
<1>6. ASSUME NEW r \in Runs, NEW a \in JobActions, Driver(r, a) PROVE TypeOK'
  BY <1>6, TypeWorkNode, TypeWorkNodeThrows, TypeOpenApprovalCard, TypeInterruptAgain,
     TypeSkipRejected, TypeLookUpBurn, TypeGatePass, TypeGateDeny, TypeAct, TypeActThrows,
     TypeActReturned, TypeDeclared DEF Driver
<1>7. CASE Environment
  BY <1>7, TypeBurnSettles, TypeJiaotuExpires, TypeAge DEF Environment
<1>8. CASE UNCHANGED vars
  BY <1>8 DEF TypeOK, vars
<1> QED BY <1>1, <1>2, <1>3, <1>4, <1>5, <1>6, <1>7, <1>8, TypeCrash, TypeRecover DEF Next, Alive

\* Every table and every piece of process state keeps its shape, for any number of
\* runs, cards, calls and crashes.
THEOREM TypeCorrect == Spec => []TypeOK
<1>1. TypeOK /\ [Next]_vars => TypeOK'
  BY TypeStep
<1> QED BY TypeInit, <1>1, PTL DEF Spec

-----------------------------------------------------------------------------
(* How a step disturbs IInv *)

LEMMA CardRun ==
  ASSUME TypeOK
  PROVE  /\ \A c \in Cards : card[c].status # "none" <=> card[c].run \in Runs
         /\ \A r \in Runs, a \in JobActions : hand[r][a] \subseteq Cards
<1>1. \A c \in Cards : card[c].status # "none" <=> card[c].run \in Runs
  BY RunsAssumption DEF TypeOK, Card
<1>2. \A r \in Runs, a \in JobActions : hand[r][a] \subseteq Cards
  BY DEF TypeOK
<1> QED BY <1>1, <1>2

\* the driver (r, a) goes to d with the cards C in hand, its run to st
Moves(r, a, d, C, st) ==
  /\ tick # "down" /\ sync'.op # "claim" /\ tick' = tick
  /\ \A s \in Runs, b \in JobActions :
       /\ drv'[s][b]  = IF s = r /\ b = a THEN d ELSE drv[s][b]
       /\ hand'[s][b] = IF s = r /\ b = a THEN C ELSE hand[s][b]
  /\ \A s \in Runs : status'[s] = IF s = r THEN st ELSE status[s]

LEMMA MovesBy ==
  ASSUME TypeOK, NEW r \in Runs, NEW a \in JobActions, NEW d, NEW C, NEW st,
         tick # "down", sync'.op # "claim", tick' = tick,
         drv' = [drv EXCEPT ![r][a] = d],
         (hand' = hand /\ C = hand[r][a]) \/ hand' = [hand EXCEPT ![r][a] = C],
         (status' = status /\ st = status[r]) \/ status' = [status EXCEPT ![r] = st]
  PROVE  Moves(r, a, d, C, st)
<1>1. \A s \in Runs, b \in JobActions : drv'[s][b] = IF s = r /\ b = a THEN d ELSE drv[s][b]
  BY DEF TypeOK
<1>2. \A s \in Runs, b \in JobActions : hand'[s][b] = IF s = r /\ b = a THEN C ELSE hand[s][b]
  BY DEF TypeOK
<1>3. \A s \in Runs : status'[s] = IF s = r THEN st ELSE status[s]
  BY DEF TypeOK
<1> QED BY <1>1, <1>2, <1>3 DEF Moves

LEMMA QuietKeeps ==
  ASSUME IInv, TypeOK', UNCHANGED <<status, card, drv, hand, tick, effects>>,
         sync' = sync \/ (sync'.op # "claim" /\ tick # "down")
  PROVE  IInv'
<1>0. /\ \A e \in Cards : card[e].status # "none" <=> card[e].run \in Runs
      /\ \A s \in Runs, b \in JobActions : hand[s][b] \subseteq Cards
  BY CardRun DEF IInv
<1>1. DownIsQuiet'
  BY <1>0, RunsAssumption DEF IInv, DownIsQuiet, RunStatus, JobActions, Runs
<1>2. RoundsAreSerial'
  BY <1>0, RunsAssumption DEF IInv, RoundsAreSerial, Awaited, OneDriver, Inside, RunStatus, JobActions, Runs
<1>3. OneDriver'
  BY <1>0, RunsAssumption DEF IInv, OneDriver, Inside, RoundsAreSerial, Awaited, CardsAreOwned, ChatStartsBare, RunStatus, JobActions, Runs
<1>4. CardsAreOwned'
  BY <1>0, RunsAssumption DEF IInv, CardsAreOwned, OneDriver, Inside, RunStatus, JobActions, Runs
<1>5. ChatStartsBare'
  BY <1>0, RunsAssumption DEF IInv, ChatStartsBare, OneDriver, Inside, CardsAreOwned, RunStatus, JobActions, Runs
<1>6. HandIsGood'
  BY <1>0, RunsAssumption DEF IInv, HandIsGood, OneDriver, EffectIsAccounted, DownIsQuiet, Inside, IsTerminalRun, RunStatus, JobActions, Runs
<1>7. EffectIsAccounted'
  BY <1>0, RunsAssumption DEF IInv, EffectIsAccounted, HandIsGood, OneDriver, Inside, IsTerminalRun, DownIsQuiet, RunStatus, JobActions, Runs
<1>8. ExpiryEndsRun'
  BY <1>0, RunsAssumption DEF IInv, ExpiryEndsRun, IsTerminalRun, OneDriver, Inside, CardsAreOwned, RunStatus, JobActions, Runs
<1> QED BY <1>1, <1>2, <1>3, <1>4, <1>5, <1>6, <1>7, <1>8 DEF IInv

LEMMA EnterKeeps ==
  ASSUME IInv, TypeOK', NEW r \in Runs, NEW a \in JobActions, NEW d, NEW C, NEW st,
         Moves(r, a, d, C, st), UNCHANGED <<card, effects>>,
         drv[r][a] = "mint", status[r] \in {"queued", "awaiting_approval"},
         status[r] = "queued" => a = "start",
         d = "node", st = "running"
  PROVE  IInv'
<1>0. /\ \A e \in Cards : card[e].status # "none" <=> card[e].run \in Runs
      /\ \A s \in Runs, b \in JobActions : hand[s][b] \subseteq Cards
  BY CardRun DEF IInv
<1>1. DownIsQuiet'
  BY <1>0, RunsAssumption DEF IInv, DownIsQuiet, RunStatus, JobActions, Runs, Moves
<1>2. RoundsAreSerial'
  BY <1>0, RunsAssumption DEF IInv, RoundsAreSerial, Awaited, OneDriver, Inside, RunStatus, JobActions, Runs, Moves
<1>3. OneDriver'
  BY <1>0, RunsAssumption DEF IInv, OneDriver, Inside, RoundsAreSerial, Awaited, CardsAreOwned, ChatStartsBare, RunStatus, JobActions, Runs, Moves
<1>4. CardsAreOwned'
  BY <1>0, RunsAssumption DEF IInv, CardsAreOwned, OneDriver, Inside, RunStatus, JobActions, Runs, Moves
<1>5. ChatStartsBare'
  BY <1>0, RunsAssumption DEF IInv, ChatStartsBare, OneDriver, Inside, CardsAreOwned, RunStatus, JobActions, Runs, Moves
<1>6. HandIsGood'
  BY <1>0, RunsAssumption DEF IInv, HandIsGood, OneDriver, EffectIsAccounted, DownIsQuiet, Inside, IsTerminalRun, RunStatus, JobActions, Runs, Moves
<1>7. EffectIsAccounted'
  BY <1>0, RunsAssumption DEF IInv, EffectIsAccounted, HandIsGood, OneDriver, Inside, IsTerminalRun, DownIsQuiet, RunStatus, JobActions, Runs, Moves
<1>8. ExpiryEndsRun'
  BY <1>0, RunsAssumption DEF IInv, ExpiryEndsRun, IsTerminalRun, OneDriver, Inside, CardsAreOwned, RunStatus, JobActions, Runs, Moves
<1> QED BY <1>1, <1>2, <1>3, <1>4, <1>5, <1>6, <1>7, <1>8 DEF IInv

LEMMA StayKeeps ==
  ASSUME IInv, TypeOK', NEW r \in Runs, NEW a \in JobActions, NEW d, NEW C, NEW st,
         Moves(r, a, d, C, st), UNCHANGED <<card, effects>>,
         Inside(r, a), drv[r][a] # "acted", st = "running", d \in {"node", "gate", "act"},
         d # "node" => /\ \E c \in C : \A e \in C : e = c
                       /\ \A c \in C : /\ card[c].run = r /\ effects[c] = 0
                                       /\ card[c].status = "approved" /\ ~card[c].executed
  PROVE  IInv'
<1>0. /\ \A e \in Cards : card[e].status # "none" <=> card[e].run \in Runs
      /\ \A s \in Runs, b \in JobActions : hand[s][b] \subseteq Cards
  BY CardRun DEF IInv
<1>1. DownIsQuiet'
  BY <1>0, RunsAssumption DEF IInv, DownIsQuiet, RunStatus, JobActions, Runs, Moves
<1>2. RoundsAreSerial'
  BY <1>0, RunsAssumption DEF IInv, RoundsAreSerial, Awaited, OneDriver, Inside, RunStatus, JobActions, Runs, Moves
<1>3. OneDriver'
  BY <1>0, RunsAssumption DEF IInv, OneDriver, Inside, RoundsAreSerial, Awaited, CardsAreOwned, ChatStartsBare, RunStatus, JobActions, Runs, Moves
<1>4. CardsAreOwned'
  BY <1>0, RunsAssumption DEF IInv, CardsAreOwned, OneDriver, Inside, RunStatus, JobActions, Runs, Moves
<1>5. ChatStartsBare'
  BY <1>0, RunsAssumption DEF IInv, ChatStartsBare, OneDriver, Inside, CardsAreOwned, RunStatus, JobActions, Runs, Moves
<1>6. HandIsGood'
  BY <1>0, RunsAssumption DEF IInv, HandIsGood, OneDriver, EffectIsAccounted, DownIsQuiet, Inside, IsTerminalRun, RunStatus, JobActions, Runs, Moves
<1>7. EffectIsAccounted'
  BY <1>0, RunsAssumption DEF IInv, EffectIsAccounted, HandIsGood, OneDriver, Inside, IsTerminalRun, DownIsQuiet, RunStatus, JobActions, Runs, Moves
<1>8. ExpiryEndsRun'
  BY <1>0, RunsAssumption DEF IInv, ExpiryEndsRun, IsTerminalRun, OneDriver, Inside, CardsAreOwned, RunStatus, JobActions, Runs, Moves
<1> QED BY <1>1, <1>2, <1>3, <1>4, <1>5, <1>6, <1>7, <1>8 DEF IInv

LEMMA LeaveKeeps ==
  ASSUME IInv, TypeOK', NEW r \in Runs, NEW a \in JobActions, NEW d, NEW C, NEW st,
         Moves(r, a, d, C, st), UNCHANGED <<card, effects>>,
         Inside(r, a), d \in {"off", "declare"},
         st \in {"completed", "failed", "awaiting_approval"},
         drv[r][a] = "acted" => st # "awaiting_approval"
  PROVE  IInv'
<1>0. /\ \A e \in Cards : card[e].status # "none" <=> card[e].run \in Runs
      /\ \A s \in Runs, b \in JobActions : hand[s][b] \subseteq Cards
  BY CardRun DEF IInv
<1>1. DownIsQuiet'
  BY <1>0, RunsAssumption DEF IInv, DownIsQuiet, RunStatus, JobActions, Runs, Moves
<1>2. RoundsAreSerial'
  BY <1>0, RunsAssumption DEF IInv, RoundsAreSerial, Awaited, OneDriver, Inside, RunStatus, JobActions, Runs, Moves
<1>3. OneDriver'
  BY <1>0, RunsAssumption DEF IInv, OneDriver, Inside, RoundsAreSerial, Awaited, CardsAreOwned, ChatStartsBare, RunStatus, JobActions, Runs, Moves
<1>4. CardsAreOwned'
  BY <1>0, RunsAssumption DEF IInv, CardsAreOwned, OneDriver, Inside, RunStatus, JobActions, Runs, Moves
<1>5. ChatStartsBare'
  BY <1>0, RunsAssumption DEF IInv, ChatStartsBare, OneDriver, Inside, CardsAreOwned, RunStatus, JobActions, Runs, Moves
<1>6. HandIsGood'
  BY <1>0, RunsAssumption DEF IInv, HandIsGood, OneDriver, EffectIsAccounted, DownIsQuiet, Inside, IsTerminalRun, RunStatus, JobActions, Runs, Moves
<1>7. EffectIsAccounted'
  BY <1>0, RunsAssumption DEF IInv, EffectIsAccounted, HandIsGood, OneDriver, Inside, IsTerminalRun, DownIsQuiet, RunStatus, JobActions, Runs, Moves
<1>8. ExpiryEndsRun'
  BY <1>0, RunsAssumption DEF IInv, ExpiryEndsRun, IsTerminalRun, OneDriver, Inside, CardsAreOwned, RunStatus, JobActions, Runs, Moves
<1> QED BY <1>1, <1>2, <1>3, <1>4, <1>5, <1>6, <1>7, <1>8 DEF IInv

LEMMA QuitKeeps ==
  ASSUME IInv, TypeOK', NEW r \in Runs, NEW a \in JobActions, NEW d, NEW C, NEW st,
         Moves(r, a, d, C, st), UNCHANGED <<card, effects>>,
         drv[r][a] \in {"mint", "declare", "ticket"}, d \in {"off", "declare"},
         d = "declare" => drv[r][a] = "declare",
         st = status[r] \/ (status[r] \in {"queued", "awaiting_approval"} /\ st = "failed" /\ a = "start")
  PROVE  IInv'
<1>0. /\ \A e \in Cards : card[e].status # "none" <=> card[e].run \in Runs
      /\ \A s \in Runs, b \in JobActions : hand[s][b] \subseteq Cards
  BY CardRun DEF IInv
<1>1. DownIsQuiet'
  BY <1>0, RunsAssumption DEF IInv, DownIsQuiet, RunStatus, JobActions, Runs, Moves
<1>2. RoundsAreSerial'
  BY <1>0, RunsAssumption DEF IInv, RoundsAreSerial, Awaited, OneDriver, Inside, RunStatus, JobActions, Runs, Moves
<1>3. OneDriver'
  BY <1>0, RunsAssumption DEF IInv, OneDriver, Inside, RoundsAreSerial, Awaited, CardsAreOwned, ChatStartsBare, RunStatus, JobActions, Runs, Moves
<1>4. CardsAreOwned'
  BY <1>0, RunsAssumption DEF IInv, CardsAreOwned, OneDriver, Inside, RunStatus, JobActions, Runs, Moves
<1>5. ChatStartsBare'
  BY <1>0, RunsAssumption DEF IInv, ChatStartsBare, OneDriver, Inside, CardsAreOwned, RunStatus, JobActions, Runs, Moves
<1>6. HandIsGood'
  BY <1>0, RunsAssumption DEF IInv, HandIsGood, OneDriver, EffectIsAccounted, DownIsQuiet, Inside, IsTerminalRun, RunStatus, JobActions, Runs, Moves
<1>7. EffectIsAccounted'
  BY <1>0, RunsAssumption DEF IInv, EffectIsAccounted, HandIsGood, OneDriver, Inside, IsTerminalRun, DownIsQuiet, RunStatus, JobActions, Runs, Moves
<1>8. ExpiryEndsRun'
  BY <1>0, RunsAssumption DEF IInv, ExpiryEndsRun, IsTerminalRun, OneDriver, Inside, CardsAreOwned, RunStatus, JobActions, Runs, Moves
<1> QED BY <1>1, <1>2, <1>3, <1>4, <1>5, <1>6, <1>7, <1>8 DEF IInv

LEMMA AcceptKeeps ==
  ASSUME IInv, TypeOK', NEW r \in Runs, NEW d, status[r] = "none",
         Moves(r, "start", d, hand[r]["start"], "queued"),
         d = drv[r]["start"] \/ d = "ticket" \/ (d = "mint" /\ r \in ChatRuns),
         UNCHANGED <<card, effects>>
  PROVE  IInv'
<1>0. /\ \A e \in Cards : card[e].status # "none" <=> card[e].run \in Runs
      /\ \A s \in Runs, b \in JobActions : hand[s][b] \subseteq Cards
  BY CardRun DEF IInv
<1>1. DownIsQuiet'
  BY <1>0, RunsAssumption DEF IInv, DownIsQuiet, RunStatus, JobActions, Runs, Moves
<1>2. RoundsAreSerial'
  BY <1>0, RunsAssumption DEF IInv, RoundsAreSerial, Awaited, OneDriver, Inside, RunStatus, JobActions, Runs, Moves
<1>3. OneDriver'
  BY <1>0, RunsAssumption DEF IInv, OneDriver, Inside, RoundsAreSerial, Awaited, CardsAreOwned, ChatStartsBare, RunStatus, JobActions, Runs, Moves
<1>4. CardsAreOwned'
  BY <1>0, RunsAssumption DEF IInv, CardsAreOwned, OneDriver, Inside, RunStatus, JobActions, Runs, Moves
<1>5. ChatStartsBare'
  BY <1>0, RunsAssumption DEF IInv, ChatStartsBare, OneDriver, Inside, CardsAreOwned, RunStatus, JobActions, Runs, Moves
<1>6. HandIsGood'
  BY <1>0, RunsAssumption DEF IInv, HandIsGood, OneDriver, EffectIsAccounted, DownIsQuiet, Inside, IsTerminalRun, RunStatus, JobActions, Runs, Moves
<1>7. EffectIsAccounted'
  BY <1>0, RunsAssumption DEF IInv, EffectIsAccounted, HandIsGood, OneDriver, Inside, IsTerminalRun, DownIsQuiet, RunStatus, JobActions, Runs, Moves
<1>8. ExpiryEndsRun'
  BY <1>0, RunsAssumption DEF IInv, ExpiryEndsRun, IsTerminalRun, OneDriver, Inside, CardsAreOwned, RunStatus, JobActions, Runs, Moves
<1> QED BY <1>1, <1>2, <1>3, <1>4, <1>5, <1>6, <1>7, <1>8 DEF IInv

LEMMA DecideKeeps ==
  ASSUME IInv, TypeOK', NEW c \in Cards, card[c].status = "pending", NEW to \in {"approved", "rejected"},
         \A e \in Cards : card'[e].run = card[e].run /\ card'[e].executed = card[e].executed,
         \A e \in Cards : card'[e].status = IF e = c THEN to ELSE card[e].status,
         UNCHANGED <<status, drv, hand, tick, effects>>, sync'.op # "claim", tick # "down"
  PROVE  IInv'
<1>0. /\ \A e \in Cards : card[e].status # "none" <=> card[e].run \in Runs
      /\ \A s \in Runs, b \in JobActions : hand[s][b] \subseteq Cards
  BY CardRun DEF IInv
<1>1. DownIsQuiet'
  BY <1>0, RunsAssumption DEF IInv, DownIsQuiet, RunStatus, JobActions, Runs
<1>2. RoundsAreSerial'
  BY <1>0, RunsAssumption DEF IInv, RoundsAreSerial, Awaited, OneDriver, Inside, RunStatus, JobActions, Runs
<1>3. OneDriver'
  BY <1>0, RunsAssumption DEF IInv, OneDriver, Inside, RoundsAreSerial, Awaited, CardsAreOwned, ChatStartsBare, RunStatus, JobActions, Runs
<1>4. CardsAreOwned'
  BY <1>0, RunsAssumption DEF IInv, CardsAreOwned, OneDriver, Inside, RunStatus, JobActions, Runs
<1>5. ChatStartsBare'
  BY <1>0, RunsAssumption DEF IInv, ChatStartsBare, OneDriver, Inside, CardsAreOwned, RunStatus, JobActions, Runs
<1>6. HandIsGood'
  BY <1>0, RunsAssumption DEF IInv, HandIsGood, OneDriver, EffectIsAccounted, DownIsQuiet, Inside, IsTerminalRun, RunStatus, JobActions, Runs
<1>7. EffectIsAccounted'
  BY <1>0, RunsAssumption DEF IInv, EffectIsAccounted, HandIsGood, OneDriver, Inside, IsTerminalRun, DownIsQuiet, RunStatus, JobActions, Runs
<1>8. ExpiryEndsRun'
  BY <1>0, RunsAssumption DEF IInv, ExpiryEndsRun, IsTerminalRun, OneDriver, Inside, CardsAreOwned, RunStatus, JobActions, Runs
<1> QED BY <1>1, <1>2, <1>3, <1>4, <1>5, <1>6, <1>7, <1>8 DEF IInv

LEMMA ExpireKeeps ==
  ASSUME IInv, TypeOK', NEW S \in SUBSET Cards, \A c \in S : card[c].status = "pending",
         \A e \in Cards : card'[e].run = card[e].run /\ card'[e].executed = card[e].executed,
         \A e \in Cards : card'[e].status = IF e \in S THEN "expired" ELSE card[e].status,
         \A s \in Runs : status'[s] = IF /\ \E c \in S : card[c].run = s
                                        /\ status[s] \in {"awaiting_approval", "running"}
                                     THEN "failed" ELSE status[s],
         UNCHANGED <<drv, hand, effects>>,
         tick \in {"idle", "reconcile"}, tick' \in {"reconcile", "claim"},
         sync'.op = "claim" => tick' = "claim"
  PROVE  IInv'
<1>0. /\ \A e \in Cards : card[e].status # "none" <=> card[e].run \in Runs
      /\ \A s \in Runs, b \in JobActions : hand[s][b] \subseteq Cards
  BY CardRun DEF IInv
<1>1. DownIsQuiet'
  BY <1>0, RunsAssumption DEF IInv, DownIsQuiet, RunStatus, JobActions, Runs
<1>2. RoundsAreSerial'
  BY <1>0, RunsAssumption DEF IInv, RoundsAreSerial, Awaited, OneDriver, Inside, RunStatus, JobActions, Runs
<1>3. OneDriver'
  BY <1>0, RunsAssumption DEF IInv, OneDriver, Inside, RoundsAreSerial, Awaited, CardsAreOwned, ChatStartsBare, RunStatus, JobActions, Runs
<1>4. CardsAreOwned'
  BY <1>0, RunsAssumption DEF IInv, CardsAreOwned, OneDriver, Inside, RunStatus, JobActions, Runs
<1>5. ChatStartsBare'
  BY <1>0, RunsAssumption DEF IInv, ChatStartsBare, OneDriver, Inside, CardsAreOwned, RunStatus, JobActions, Runs
<1>6. HandIsGood'
  BY <1>0, RunsAssumption DEF IInv, HandIsGood, OneDriver, EffectIsAccounted, DownIsQuiet, Inside, IsTerminalRun, RunStatus, JobActions, Runs
<1>7. EffectIsAccounted'
  BY <1>0, RunsAssumption DEF IInv, EffectIsAccounted, HandIsGood, OneDriver, Inside, IsTerminalRun, DownIsQuiet, RunStatus, JobActions, Runs
<1>8. ExpiryEndsRun'
  BY <1>0, RunsAssumption DEF IInv, ExpiryEndsRun, IsTerminalRun, OneDriver, Inside, CardsAreOwned, RunStatus, JobActions, Runs
<1> QED BY <1>1, <1>2, <1>3, <1>4, <1>5, <1>6, <1>7, <1>8 DEF IInv

LEMMA DecisionKeeps ==
  ASSUME IInv, TypeOK', NEW c \in Cards, card[c].status = "pending",
         NEW to \in {"approved", "rejected"}, card' = [card EXCEPT ![c].status = to],
         UNCHANGED <<status, drv, hand, tick, effects>>, sync'.op # "claim", tick # "down"
  PROVE  IInv'
<1>1. /\ \A e \in Cards : card'[e].run = card[e].run /\ card'[e].executed = card[e].executed
      /\ \A e \in Cards : card'[e].status = IF e = c THEN to ELSE card[e].status
  BY DEF IInv, TypeOK, Card
<1> QED BY <1>1, DecideKeeps

LEMMA RunningFrom ==
  ASSUME NEW s, MayBecome(s, "running")
  PROVE  s \in {"queued", "awaiting_approval"}
BY DEF MayBecome, RUN_TRANSITIONS, RunStatus

-----------------------------------------------------------------------------
(* The composite operators as moves *)

LEMMA ReturnMoves ==
  ASSUME TypeOK, NEW r \in Runs, NEW a \in JobActions, NEW st, Return(r, a),
         (status' = status /\ st = status[r]) \/ status' = [status EXCEPT ![r] = st],
         tick # "down", sync.op = "none", tick' = tick
  PROVE  Moves(r, a, "off", {}, st)
<1>1. sync'.op # "claim"
  BY DEF Return, Commits
<1> QED BY <1>1, MovesBy DEF Return

LEMMA KillMoves ==
  ASSUME TypeOK, NEW r \in Runs, NEW a \in JobActions, Kill(r, a), status[r] = "running",
         tick # "down", sync.op = "none", tick' = tick
  PROVE  Moves(r, a, "off", {}, "failed")
<1>1. status' = [status EXCEPT ![r] = "failed"]
  BY DEF Kill, Move, MayBecome, RUN_TRANSITIONS, RunStatus
<1> QED BY <1>1, ReturnMoves DEF Kill

LEMMA NodeExitMoves ==
  ASSUME TypeOK, NEW r \in Runs, NEW a \in JobActions, NodeExit(r, a), status[r] = "running",
         tick # "down", sync.op = "none", tick' = tick
  PROVE  Moves(r, a, "off", {}, "completed") \/ Moves(r, a, "node", {}, "running")
<1>1. CASE pos[r] + 1 = Len(Flow[r])
  <2>1. status' = [status EXCEPT ![r] = "completed"] /\ Return(r, a)
    BY <1>1 DEF NodeExit, Move, MayBecome, RUN_TRANSITIONS, RunStatus
  <2> QED BY <2>1, ReturnMoves
<1>2. CASE pos[r] + 1 # Len(Flow[r])
  <2>1. /\ drv' = [drv EXCEPT ![r][a] = "node"]
        /\ hand' = [hand EXCEPT ![r][a] = {}]
        /\ status' = status /\ sync' = sync
    BY <1>2 DEF NodeExit
  <2> QED BY <2>1, MovesBy
<1> QED BY <1>1, <1>2

LEMMA SuspendMoves ==
  ASSUME TypeOK, NEW r \in Runs, NEW a \in JobActions, NEW D, Suspend(r, a, D), NEW st,
         status' = [status EXCEPT ![r] = st],
         tick # "down", sync.op = "none", tick' = tick
  PROVE  \E d \in {"off", "declare"}, C \in SUBSET Cards : Moves(r, a, d, C, st)
<1>1. CASE External /\ Undeclared(r, D) # {}
  <2>1. /\ drv' = [drv EXCEPT ![r][a] = "declare"]
        /\ hand' = [hand EXCEPT ![r][a] = Undeclared(r, D)]
        /\ sync' = sync
    BY <1>1 DEF Suspend
  <2>2. Moves(r, a, "declare", Undeclared(r, D), st)
    BY <2>1, MovesBy
  <2> QED BY <2>2 DEF Undeclared
<1>2. CASE ~(External /\ Undeclared(r, D) # {})
  BY <1>2, ReturnMoves DEF Suspend
<1> QED BY <1>1, <1>2

-----------------------------------------------------------------------------
(* Every action keeps IInv *)

\* a step of the process between two segments
LEMMA HttpKeeps ==
  ASSUME IInv, TypeOK', sync.op = "none", tick # "down", Http
  PROVE  IInv'
<1>1. ASSUME NEW r \in Runs, PostRun(r) PROVE IInv'
  <2>1. status[r] = "none" /\ status' = [status EXCEPT ![r] = "queued"]
    BY <1>1 DEF PostRun
  <2>2. drv' = [drv EXCEPT ![r]["start"] = drv[r]["start"]] /\ "start" \in JobActions
    BY <1>1 DEF PostRun, IInv, TypeOK, JobActions
  <2>3. Moves(r, "start", drv[r]["start"], hand[r]["start"], "queued")
    BY <1>1, <2>1, <2>2, MovesBy DEF PostRun, IInv, Commits
  <2> QED BY <1>1, <2>1, <2>3, AcceptKeeps DEF PostRun, remote
<1>2. ASSUME NEW r \in Runs, PostTicketedRun(r) PROVE IInv'
  <2>1. Moves(r, "start", "ticket", hand[r]["start"], "queued")
    BY <1>2, MovesBy DEF PostTicketedRun, IInv, JobActions
  <2> QED BY <1>2, <2>1, AcceptKeeps DEF PostTicketedRun, remote
<1>3. ASSUME NEW r \in Runs, PostChat(r) PROVE IInv'
  <2>1. Moves(r, "start", "mint", hand[r]["start"], "queued")
    BY <1>3, MovesBy DEF PostChat, IInv, JobActions
  <2> QED BY <1>3, <2>1, AcceptKeeps DEF PostChat, remote
<1>4. ASSUME NEW c \in Cards, RejectNow(c) PROVE IInv'
  <2>1. card' = [card EXCEPT ![c].status = "rejected"] /\ sync'.op # "claim"
    BY <1>4 DEF RejectNow, Decide, Commits
  <2> QED BY <1>4, <2>1, DecisionKeeps DEF RejectNow, remote
<1>5. ASSUME NEW q \in Requests, NEW c \in Cards, NEW approve \in BOOLEAN, CallDecide(q, c, approve)
      PROVE IInv'
  BY <1>5, QuietKeeps DEF CallDecide, disk, remote
<1> QED BY <1>1, <1>2, <1>3, <1>4, <1>5 DEF Http

LEMMA AnswersKeep ==
  ASSUME IInv, TypeOK', sync.op = "none", tick # "down", Answers
  PROVE  IInv'
<1> PICK q \in Requests : JiaotuDecides(q) \/ DecisionLands(q) \/ DecisionFails(q)
  BY DEF Answers
<1>1. CASE JiaotuDecides(q)
  BY <1>1, QuietKeeps DEF JiaotuDecides, disk
<1>2. CASE DecisionLands(q)
  <2> DEFINE c == req[q].card
  <2>1. c \in Cards
    BY <1>2 DEF DecisionLands, IInv, TypeOK, Call
  <2>2. CASE card[c].status = "pending"
    <3> DEFINE to == Decision(req[q].approve)
    <3>1. card' = [card EXCEPT ![c].status = to] /\ sync'.op # "claim"
      BY <1>2, <2>2 DEF DecisionLands, Decide, Commits
    <3>2. to \in {"approved", "rejected"}
      BY DEF Decision
    <3>3. UNCHANGED <<status, drv, hand, tick, effects>>
      BY <1>2 DEF DecisionLands, remote
    <3> HIDE DEF c, to
    <3> QED BY <2>1, <2>2, <3>1, <3>2, <3>3, DecisionKeeps
  <2>3. CASE card[c].status # "pending"
    BY <1>2, <2>3, QuietKeeps DEF DecisionLands, remote
  <2> QED BY <2>2, <2>3
<1>3. CASE DecisionFails(q)
  BY <1>3, QuietKeeps DEF DecisionFails, disk, remote
<1> QED BY <1>1, <1>2, <1>3

LEMMA MintedKeeps ==
  ASSUME IInv, TypeOK', sync.op = "none", tick # "down", Minted
  PROVE  IInv'
<1> USE DEF JobActions
<1> PICK r \in Runs : \/ TicketMinted(r) \/ TicketMintFailed(r)
                      \/ StartMinted(r) \/ StartMintFailed(r)
                      \/ ResumeMinted(r) \/ ResumeMintFailed(r)
  BY DEF Minted
<1>t. TypeOK
  BY DEF IInv
<1>1. CASE TicketMinted(r)
  <2>1. Moves(r, "start", "off", hand[r]["start"], status[r])
    BY <1>t, <1>1, MovesBy DEF TicketMinted, Commits, disk
  <2> QED BY <1>1, <2>1, QuitKeeps DEF TicketMinted, disk, remote
<1>2. CASE TicketMintFailed(r)
  <2>1. CASE MayBecome(status[r], "running")
    <3>1. Moves(r, "start", "off", hand[r]["start"], "failed")
      BY <1>t, <1>2, <2>1, MovesBy DEF TicketMintFailed, FailUnTicketedRun
    <3>2. status[r] \in {"queued", "awaiting_approval"}
      BY <2>1, RunningFrom
    <3> QED BY <1>2, <3>1, <3>2, QuitKeeps DEF TicketMintFailed, FailUnTicketedRun, remote
  <2>2. CASE ~MayBecome(status[r], "running")
    <3>1. Moves(r, "start", "off", hand[r]["start"], status[r])
      BY <1>t, <1>2, <2>2, MovesBy DEF TicketMintFailed, FailUnTicketedRun
    <3> QED BY <1>2, <3>1, QuitKeeps DEF TicketMintFailed, FailUnTicketedRun, remote
  <2> QED BY <2>1, <2>2
<1>3. CASE StartMinted(r)
  <2>1. CASE MayBecome(status[r], "running")
    <3>1. Moves(r, "start", "node", hand[r]["start"], "running")
      BY <1>t, <1>3, <2>1, MovesBy DEF StartMinted
    <3>2. status[r] \in {"queued", "awaiting_approval"}
      BY <2>1, RunningFrom
    <3> QED BY <1>3, <3>1, <3>2, EnterKeeps DEF StartMinted, remote
  <2>2. CASE ~MayBecome(status[r], "running")
    <3>1. Moves(r, "start", "off", {}, status[r])
      BY <1>t, <1>3, <2>2, ReturnMoves DEF StartMinted
    <3> QED BY <1>3, <3>1, QuitKeeps DEF StartMinted, remote
  <2> QED BY <2>1, <2>2
<1>4. CASE StartMintFailed(r)
  <2>1. CASE r \notin ChatRuns /\ MayBecome(status[r], "running")
    <3>1. Moves(r, "start", "off", {}, "failed")
      BY <1>t, <1>4, <2>1, ReturnMoves DEF StartMintFailed, FailUnTicketedRun
    <3>2. status[r] \in {"queued", "awaiting_approval"}
      BY <2>1, RunningFrom
    <3> QED BY <1>4, <3>1, <3>2, QuitKeeps DEF StartMintFailed, FailUnTicketedRun, remote
  <2>2. CASE ~(r \notin ChatRuns /\ MayBecome(status[r], "running"))
    <3>1. Moves(r, "start", "off", {}, status[r])
      BY <1>t, <1>4, <2>2, ReturnMoves DEF StartMintFailed, FailUnTicketedRun
    <3> QED BY <1>4, <3>1, QuitKeeps DEF StartMintFailed, FailUnTicketedRun, remote
  <2> QED BY <2>1, <2>2
<1>5. CASE ResumeMinted(r)
  <2>1. CASE status[r] = "awaiting_approval"
    <3>1. Moves(r, "resume", "node", hand[r]["resume"], "running")
      BY <1>t, <1>5, <2>1, MovesBy DEF ResumeMinted
    <3> QED BY <1>5, <2>1, <3>1, EnterKeeps DEF ResumeMinted, remote
  <2>2. CASE status[r] # "awaiting_approval"
    <3>1. Moves(r, "resume", "off", {}, status[r])
      BY <1>t, <1>5, <2>2, ReturnMoves DEF ResumeMinted
    <3> QED BY <1>5, <3>1, QuitKeeps DEF ResumeMinted, remote
  <2> QED BY <2>1, <2>2
<1>6. CASE ResumeMintFailed(r)
  <2>1. Moves(r, "resume", "off", {}, status[r])
    BY <1>t, <1>6, ReturnMoves DEF ResumeMintFailed, disk
  <2> QED BY <1>6, <2>1, QuitKeeps DEF ResumeMintFailed, disk, remote
<1> QED BY <1>1, <1>2, <1>3, <1>4, <1>5, <1>6

LEMMA OpenKeeps ==
  ASSUME IInv, TypeOK', sync.op = "none", tick # "down",
         NEW r \in Runs, NEW a \in JobActions, OpenApprovalCard(r, a)
  PROVE  IInv'
<1>0. r \notin ParkedRuns
  <2>1. pos[r] \in Nat /\ pos[r] < Len(Flow[r]) /\ Flow[r][pos[r] + 1] = "l2"
    BY DEF OpenApprovalCard, AtNode, IInv, TypeOK
  <2>2. Len(Flow[r]) \in Nat
    BY FlowAssumption
  <2>3. pos[r] + 1 \in 1 .. Len(Flow[r])
    BY <2>1, <2>2
  <2> QED BY <2>1, <2>3, FlowAssumption
<1>1. /\ Inside(r, a) /\ drv[r][a] = "node" /\ status[r] = "running" /\ r \notin ParkedRuns
      /\ \A b \in JobActions : Inside(r, b) => b = a
  BY <1>0 DEF OpenApprovalCard, AtNode, Inside, IInv, OneDriver
<1>2. PICK d \in {"off", "declare"}, C \in SUBSET Cards : Moves(r, a, d, C, "awaiting_approval")
  BY SuspendMoves DEF OpenApprovalCard, IInv
<1>3. PICK c \in Cards :
        /\ card[c].status = "none"
        /\ card' = [card EXCEPT ![c] = [run |-> r, gen |-> gen[r],
                                        status |-> "pending", executed |-> FALSE]]
  BY DEF OpenApprovalCard
<1>4. /\ \A e \in Cards : e # c => card'[e] = card[e]
      /\ card'[c].run = r /\ card'[c].status = "pending" /\ ~card'[c].executed
      /\ effects' = effects
  BY <1>3 DEF IInv, TypeOK, OpenApprovalCard, remote
<1>5. \A e \in Cards : card[e].status # "none" <=> card[e].run \in Runs
  BY CardRun DEF IInv
<1>6. DownIsQuiet'
  BY <1>1, <1>2, <1>3, <1>4, <1>5, RunsAssumption DEF IInv, DownIsQuiet, Moves
<1>7. RoundsAreSerial'
  BY <1>1, <1>2, <1>3, <1>4, <1>5, RunsAssumption DEF IInv, RoundsAreSerial, Awaited, OneDriver, Inside, Moves
<1>8. OneDriver'
  BY <1>1, <1>2, <1>3, <1>4, <1>5, RunsAssumption DEF IInv, OneDriver, Inside, Moves
<1>9. CardsAreOwned'
  BY <1>1, <1>2, <1>3, <1>4, <1>5, RunsAssumption DEF IInv, CardsAreOwned, OneDriver, Inside, RunStatus, Moves
<1>10. ChatStartsBare'
  BY <1>1, <1>2, <1>3, <1>4, <1>5, RunsAssumption DEF IInv, ChatStartsBare, OneDriver, Inside, CardsAreOwned, JobActions, Runs, Moves
<1>11. HandIsGood'
  BY <1>1, <1>2, <1>3, <1>4, <1>5, RunsAssumption DEF IInv, HandIsGood, OneDriver, Inside, Moves
<1>12. EffectIsAccounted'
  BY <1>1, <1>2, <1>3, <1>4, <1>5, RunsAssumption DEF IInv, EffectIsAccounted, HandIsGood, OneDriver, Inside, IsTerminalRun, Moves
<1>13. ExpiryEndsRun'
  BY <1>1, <1>2, <1>3, <1>4, <1>5, RunsAssumption DEF IInv, ExpiryEndsRun, IsTerminalRun, OneDriver, Inside, Moves
<1> QED BY <1>6, <1>7, <1>8, <1>9, <1>10, <1>11, <1>12, <1>13 DEF IInv

LEMMA ActKeeps ==
  ASSUME IInv, TypeOK', sync.op = "none", tick # "down",
         NEW r \in Runs, NEW a \in JobActions, Act(r, a)
  PROVE  IInv'
<1>1. /\ Inside(r, a) /\ status[r] = "running" /\ drv[r][a] = "act"
      /\ \A b \in JobActions : Inside(r, b) => b = a
  BY DEF Act, Inside, IInv, TypeOK, OneDriver
<1>2. Moves(r, a, "acted", hand[r][a], "running")
  BY <1>1, MovesBy DEF Act, disk, IInv
<1>3. card' = card /\ \A c \in Cards : effects'[c] = IF c \in hand[r][a] THEN effects[c] + 1 ELSE effects[c]
  BY DEF Act, disk
<1>4. \A c \in hand[r][a] : /\ c \in Cards /\ effects[c] = 0 /\ effects'[c] = 1
                            /\ card[c].run = r /\ card[c].status = "approved" /\ ~card[c].executed
  <2>1. hand[r][a] \subseteq Cards
    BY CardRun DEF IInv
  <2>2. \A c \in hand[r][a] : /\ card[c].run = r /\ card[c].status = "approved" /\ ~card[c].executed
                              /\ effects[c] = 0
    BY <1>1 DEF IInv, HandIsGood
  <2> QED BY <1>3, <2>1, <2>2
<1>5. \A e \in Cards : card[e].status # "none" <=> card[e].run \in Runs
  BY CardRun DEF IInv
<1>6. DownIsQuiet'
  BY <1>1, <1>2, <1>3, <1>4, <1>5, RunsAssumption DEF IInv, DownIsQuiet, Moves
<1>7. RoundsAreSerial'
  BY <1>1, <1>2, <1>3, <1>4, <1>5, RunsAssumption DEF IInv, RoundsAreSerial, Awaited, OneDriver, Inside, Moves
<1>8. OneDriver'
  BY <1>1, <1>2, <1>3, <1>4, <1>5, RunsAssumption DEF IInv, OneDriver, Inside, Moves
<1>9. CardsAreOwned'
  BY <1>1, <1>2, <1>3, <1>4, <1>5, RunsAssumption DEF IInv, CardsAreOwned, OneDriver, Inside, RunStatus, Moves
<1>10. ChatStartsBare'
  BY <1>1, <1>2, <1>3, <1>4, <1>5, RunsAssumption DEF IInv, ChatStartsBare, OneDriver, Inside, CardsAreOwned, JobActions, Runs, Moves
<1>11. HandIsGood'
  <2> SUFFICES ASSUME NEW s \in Runs, NEW b \in JobActions, drv'[s][b] \in {"gate", "act", "acted"}
               PROVE  /\ \E c \in hand'[s][b] : \A e \in hand'[s][b] : e = c
                      /\ \A c \in hand'[s][b] :
                           /\ card'[c].run = s /\ card'[c].status = "approved" /\ ~card'[c].executed
                           /\ effects'[c] = IF drv'[s][b] = "acted" THEN 1 ELSE 0
    BY DEF HandIsGood
  <2>1. CASE s = r /\ b = a
    <3>1. hand'[s][b] = hand[r][a] /\ drv'[s][b] = "acted"
      BY <1>2, <2>1 DEF Moves
    <3>2. \E c \in hand[r][a] : \A e \in hand[r][a] : e = c
      BY <1>1 DEF IInv, HandIsGood
    <3> QED BY <1>3, <1>4, <2>1, <3>1, <3>2
  <2>2. CASE ~(s = r /\ b = a)
    <3>1. hand'[s][b] = hand[s][b] /\ drv'[s][b] = drv[s][b]
      BY <1>2, <2>2 DEF Moves
    <3>2. /\ \E c \in hand[s][b] : \A e \in hand[s][b] : e = c
          /\ \A c \in hand[s][b] :
               /\ card[c].run = s /\ card[c].status = "approved" /\ ~card[c].executed
               /\ effects[c] = IF drv[s][b] = "acted" THEN 1 ELSE 0
      BY <3>1 DEF IInv, HandIsGood
    <3>3. s # r
      BY <1>1, <2>2, <3>1 DEF Inside
    <3>4. \A c \in hand[s][b] : c \in Cards /\ c \notin hand[r][a]
      BY <1>4, <3>2, <3>3, CardRun DEF IInv
    <3> QED BY <1>3, <3>1, <3>2, <3>4
  <2> QED BY <2>1, <2>2
<1>12. EffectIsAccounted'
  BY <1>1, <1>2, <1>3, <1>4, <1>5, RunsAssumption DEF IInv, EffectIsAccounted, HandIsGood, OneDriver, Inside, IsTerminalRun, Moves
<1>13. ExpiryEndsRun'
  BY <1>1, <1>2, <1>3, <1>4, <1>5, RunsAssumption DEF IInv, ExpiryEndsRun, IsTerminalRun, OneDriver, Inside, Moves
<1> QED BY <1>6, <1>7, <1>8, <1>9, <1>10, <1>11, <1>12, <1>13 DEF IInv

LEMMA ActReturnedKeeps ==
  ASSUME IInv, TypeOK', sync.op = "none", tick # "down",
         NEW r \in Runs, NEW a \in JobActions, ActReturned(r, a)
  PROVE  IInv'
<1>1. /\ Inside(r, a) /\ status[r] = "running" /\ drv[r][a] = "acted"
      /\ \A b \in JobActions : Inside(r, b) => b = a
  BY DEF ActReturned, Inside, IInv, TypeOK, OneDriver
<1>2. Moves(r, a, "off", {}, "completed") \/ Moves(r, a, "node", {}, "running")
  BY <1>1, NodeExitMoves DEF ActReturned, IInv
<1>3. /\ effects' = effects
      /\ \A c \in Cards : /\ card'[c].run = card[c].run /\ card'[c].status = card[c].status
                          /\ c \in hand[r][a] => card'[c].executed
                          /\ c \notin hand[r][a] => card'[c] = card[c]
  BY DEF ActReturned, IInv, TypeOK, Card
<1>4. \A c \in hand[r][a] : /\ c \in Cards /\ effects[c] = 1
                            /\ card[c].run = r /\ card[c].status = "approved" /\ ~card[c].executed
  <2>1. hand[r][a] \subseteq Cards
    BY CardRun DEF IInv
  <2> QED BY <1>1, <2>1 DEF IInv, HandIsGood
<1>5. \A e \in Cards : card[e].status # "none" <=> card[e].run \in Runs
  BY CardRun DEF IInv
<1>6. DownIsQuiet'
  BY <1>1, <1>2, <1>3, <1>4, <1>5, RunsAssumption DEF IInv, DownIsQuiet, Moves
<1>7. RoundsAreSerial'
  BY <1>1, <1>2, <1>3, <1>4, <1>5, RunsAssumption DEF IInv, RoundsAreSerial, Awaited, OneDriver, Inside, Moves
<1>8. OneDriver'
  BY <1>1, <1>2, <1>3, <1>4, <1>5, RunsAssumption DEF IInv, OneDriver, Inside, Moves
<1>9. CardsAreOwned'
  BY <1>1, <1>2, <1>3, <1>4, <1>5, RunsAssumption DEF IInv, CardsAreOwned, OneDriver, Inside, RunStatus, Moves
<1>10. ChatStartsBare'
  BY <1>1, <1>2, <1>3, <1>4, <1>5, RunsAssumption DEF IInv, ChatStartsBare, OneDriver, Inside, CardsAreOwned, JobActions, Runs, Moves
<1>11. HandIsGood'
  <2> SUFFICES ASSUME NEW s \in Runs, NEW b \in JobActions, drv'[s][b] \in {"gate", "act", "acted"}
               PROVE  /\ \E c \in hand'[s][b] : \A e \in hand'[s][b] : e = c
                      /\ \A c \in hand'[s][b] :
                           /\ card'[c].run = s /\ card'[c].status = "approved" /\ ~card'[c].executed
                           /\ effects'[c] = IF drv'[s][b] = "acted" THEN 1 ELSE 0
    BY DEF HandIsGood
  <2>1. CASE s = r /\ b = a
    BY <1>2, <2>1 DEF Moves
  <2>2. CASE ~(s = r /\ b = a)
    <3>1. hand'[s][b] = hand[s][b] /\ drv'[s][b] = drv[s][b]
      BY <1>2, <2>2 DEF Moves
    <3>2. /\ \E c \in hand[s][b] : \A e \in hand[s][b] : e = c
          /\ \A c \in hand[s][b] :
               /\ card[c].run = s /\ card[c].status = "approved" /\ ~card[c].executed
               /\ effects[c] = IF drv[s][b] = "acted" THEN 1 ELSE 0
      BY <3>1 DEF IInv, HandIsGood
    <3>3. s # r
      BY <1>1, <2>2, <3>1 DEF Inside
    <3>4. \A c \in hand[s][b] : c \in Cards /\ c \notin hand[r][a]
      BY <1>4, <3>2, <3>3, CardRun DEF IInv
    <3> QED BY <1>3, <3>1, <3>2, <3>4
  <2> QED BY <2>1, <2>2
<1>12. EffectIsAccounted'
  BY <1>1, <1>2, <1>3, <1>4, <1>5, RunsAssumption DEF IInv, EffectIsAccounted, HandIsGood, OneDriver, Inside, IsTerminalRun, Moves
<1>13. ExpiryEndsRun'
  BY <1>1, <1>2, <1>3, <1>4, <1>5, RunsAssumption DEF IInv, ExpiryEndsRun, IsTerminalRun, OneDriver, Inside, Moves
<1> QED BY <1>6, <1>7, <1>8, <1>9, <1>10, <1>11, <1>12, <1>13 DEF IInv

LEMMA BatchKeeps ==
  ASSUME IInv, TypeOK', sync.op = "none", tick # "down", BatchSettled
  PROVE  IInv'
<1>1. /\ UNCHANGED <<status, card, drv, hand, effects>> /\ tick' = "idle" /\ sync' = sync
      /\ \A r \in Runs, a \in JobActions : Awaited(r, a) => drv[r][a] \in {"off", "ticket"}
  BY DEF BatchSettled, disk, remote
<1>2. DownIsQuiet'
  BY <1>1 DEF IInv, DownIsQuiet, Runs
<1>3. RoundsAreSerial'
  BY <1>1 DEF IInv, RoundsAreSerial, Awaited, OneDriver, Inside, Runs
<1>4. OneDriver'
  BY <1>1 DEF IInv, OneDriver, Inside, Runs
<1>5. CardsAreOwned'
  BY <1>1 DEF IInv, CardsAreOwned, OneDriver, Inside, RunStatus, Runs
<1>6. ChatStartsBare'
  BY <1>1 DEF IInv, ChatStartsBare, OneDriver, Inside, CardsAreOwned, JobActions, Runs
<1>7. HandIsGood'
  BY <1>1 DEF IInv, HandIsGood, OneDriver, Inside, Runs
<1>8. EffectIsAccounted'
  BY <1>1 DEF IInv, EffectIsAccounted, HandIsGood, OneDriver, Inside, IsTerminalRun, Runs
<1>9. ExpiryEndsRun'
  BY <1>1 DEF IInv, ExpiryEndsRun, IsTerminalRun, OneDriver, Inside, Runs
<1> QED BY <1>2, <1>3, <1>4, <1>5, <1>6, <1>7, <1>8, <1>9 DEF IInv

LEMMA ExpiriesKeep ==
  ASSUME IInv, TypeOK', NEW S \in SUBSET Cards, \A c \in S : card[c].status = "pending",
         ExpireApprovalCards(S), UNCHANGED <<drv, hand, effects>>,
         tick \in {"idle", "reconcile"}, tick' \in {"reconcile", "claim"},
         sync'.op = "claim" => tick' = "claim"
  PROVE  IInv'
<1>1. /\ \A e \in Cards : card'[e].run = card[e].run /\ card'[e].executed = card[e].executed
      /\ \A e \in Cards : card'[e].status = IF e \in S THEN "expired" ELSE card[e].status
  BY DEF ExpireApprovalCards, IInv, TypeOK, Card
<1>2. \A s \in Runs : status'[s] = IF /\ \E c \in S : card[c].run = s
                                      /\ status[s] \in {"awaiting_approval", "running"}
                                   THEN "failed" ELSE status[s]
  BY DEF ExpireApprovalCards
<1> QED BY <1>1, <1>2, ExpireKeeps

LEMMA DriverKeeps ==
  ASSUME IInv, TypeOK', sync.op = "none", tick # "down",
         NEW r \in Runs, NEW a \in JobActions, Driver(r, a)
  PROVE  IInv'
<1>t. TypeOK /\ OneDriver
  BY DEF IInv
<1>1. CASE WorkNode(r, a)
  <2>1. Inside(r, a) /\ status[r] = "running" /\ drv[r][a] = "node"
    BY <1>t, <1>1 DEF WorkNode, AtNode, OneDriver, Inside
  <2>2. Moves(r, a, "off", {}, "completed") \/ Moves(r, a, "node", {}, "running")
    BY <1>t, <1>1, <2>1, NodeExitMoves DEF WorkNode
  <2> QED BY <1>1, <2>1, <2>2, StayKeeps, LeaveKeeps DEF WorkNode, remote
<1>2. CASE WorkNodeThrows(r, a)
  <2>1. Inside(r, a) /\ status[r] = "running"
    BY <1>t, <1>2 DEF WorkNodeThrows, AtNode, OneDriver, Inside
  <2>2. Moves(r, a, "off", {}, "failed")
    BY <1>t, <1>2, <2>1, KillMoves DEF WorkNodeThrows
  <2> QED BY <1>2, <2>1, <2>2, LeaveKeeps DEF WorkNodeThrows, remote
<1>3. CASE OpenApprovalCard(r, a)
  BY <1>3, OpenKeeps
<1>4. CASE InterruptAgain(r, a)
  <2>1. Inside(r, a) /\ status[r] = "running" /\ drv[r][a] = "node"
    BY <1>t, <1>4 DEF InterruptAgain, AtNode, OneDriver, Inside
  <2>2. status' = [status EXCEPT ![r] = "awaiting_approval"] /\ Suspend(r, a, card)
    BY <1>4, <2>1 DEF InterruptAgain, Move, MayBecome, RUN_TRANSITIONS, RunStatus
  <2>3. PICK d \in {"off", "declare"}, C \in SUBSET Cards : Moves(r, a, d, C, "awaiting_approval")
    BY <1>t, <1>4, <2>2, SuspendMoves DEF InterruptAgain
  <2> QED BY <1>4, <2>1, <2>3, LeaveKeeps DEF InterruptAgain, remote
<1>5. CASE SkipRejected(r, a)
  <2>1. Inside(r, a) /\ status[r] = "running" /\ drv[r][a] = "node"
    BY <1>t, <1>5 DEF SkipRejected, AtNode, OneDriver, Inside
  <2>2. Moves(r, a, "off", {}, "completed") \/ Moves(r, a, "node", {}, "running")
    BY <1>t, <1>5, <2>1, NodeExitMoves DEF SkipRejected
  <2> QED BY <1>5, <2>1, <2>2, StayKeeps, LeaveKeeps DEF SkipRejected, remote
<1>6. CASE LookUpBurn(r, a)
  <2>1. Inside(r, a) /\ status[r] = "running" /\ drv[r][a] = "node"
    BY <1>t, <1>6 DEF LookUpBurn, AtNode, OneDriver, Inside
  <2>2. PICK c \in Cards : /\ card[c].run = r /\ ~card[c].executed
                           /\ card[c].status = "approved"
                           /\ hand' = [hand EXCEPT ![r][a] = {c}]
    BY <1>6 DEF LookUpBurn, Decidable
  <2>3. effects[c] = 0
    BY <2>1, <2>2 DEF IInv, EffectIsAccounted, OneDriver, Inside, IsTerminalRun
  <2>4. Moves(r, a, "gate", {c}, "running")
    BY <1>t, <1>6, <2>1, <2>2, MovesBy DEF LookUpBurn, disk
  <2> QED BY <1>6, <2>1, <2>2, <2>3, <2>4, StayKeeps DEF LookUpBurn, disk, remote
<1>7. CASE GatePass(r, a)
  <2>1. Inside(r, a) /\ status[r] = "running" /\ drv[r][a] = "gate"
    BY <1>t, <1>7 DEF GatePass, OneDriver, Inside
  <2>2. Moves(r, a, "act", hand[r][a], "running")
    BY <1>t, <1>7, <2>1, MovesBy DEF GatePass, disk
  <2>3. /\ \E c \in hand[r][a] : \A e \in hand[r][a] : e = c
        /\ \A c \in hand[r][a] : /\ card[c].run = r /\ effects[c] = 0
                                 /\ card[c].status = "approved" /\ ~card[c].executed
    BY <2>1 DEF IInv, HandIsGood
  <2> QED BY <1>7, <2>1, <2>2, <2>3, StayKeeps DEF GatePass, disk, remote
<1>8. CASE GateDeny(r, a)
  <2>1. Inside(r, a) /\ status[r] = "running"
    BY <1>t, <1>8 DEF GateDeny, OneDriver, Inside
  <2>2. Moves(r, a, "off", {}, "failed")
    BY <1>t, <1>8, <2>1, KillMoves DEF GateDeny
  <2> QED BY <1>8, <2>1, <2>2, LeaveKeeps DEF GateDeny, remote
<1>9. CASE Act(r, a)
  BY <1>9, ActKeeps
<1>10. CASE ActThrows(r, a)
  <2>1. Inside(r, a) /\ status[r] = "running"
    BY <1>t, <1>10 DEF ActThrows, OneDriver, Inside
  <2>2. Moves(r, a, "off", {}, "failed")
    BY <1>t, <1>10, <2>1, KillMoves DEF ActThrows
  <2> QED BY <1>10, <2>1, <2>2, LeaveKeeps DEF ActThrows, remote
<1>11. CASE ActReturned(r, a)
  BY <1>11, ActReturnedKeeps
<1>12. CASE Declared(r, a)
  <2>1. drv[r][a] = "declare"
    BY <1>12 DEF Declared
  <2>2. PICK c \in hand[r][a] :
          IF hand[r][a] = {c}
          THEN Return(r, a)
          ELSE hand' = [hand EXCEPT ![r][a] = @ \ {c}] /\ UNCHANGED <<drv, sync>>
    BY <1>12 DEF Declared
  <2>3. CASE hand[r][a] = {c}
    <3>1. Moves(r, a, "off", {}, status[r])
      BY <1>t, <1>12, <2>2, <2>3, ReturnMoves DEF Declared, disk
    <3> QED BY <1>12, <2>1, <3>1, QuitKeeps DEF Declared, disk
  <2>4. CASE hand[r][a] # {c}
    <3>1. hand' = [hand EXCEPT ![r][a] = hand[r][a] \ {c}] /\ drv' = drv /\ sync' = sync
      BY <2>2, <2>4
    <3>2. drv' = [drv EXCEPT ![r][a] = "declare"]
      BY <1>t, <2>1, <3>1 DEF TypeOK
    <3>3. Moves(r, a, "declare", hand[r][a] \ {c}, status[r])
      BY <1>t, <1>12, <3>1, <3>2, MovesBy DEF Declared, disk
    <3> QED BY <1>12, <2>1, <3>3, QuitKeeps DEF Declared, disk
  <2> QED BY <2>3, <2>4
<1> QED BY <1>1, <1>2, <1>3, <1>4, <1>5, <1>6, <1>7, <1>8, <1>9, <1>10, <1>11, <1>12 DEF Driver

LEMMA LoopKeeps ==
  ASSUME IInv, TypeOK', sync.op = "none", tick # "down", Loop
  PROVE  IInv'
<1>1. CASE SweepExpired
  <2>1. /\ Overdue \in SUBSET Cards /\ ExpireApprovalCards(Overdue)
        /\ \A c \in Overdue : card[c].status = "pending"
    BY <1>1 DEF SweepExpired, Overdue, IInv, TypeOK
  <2>2. /\ UNCHANGED <<drv, hand, effects>>
        /\ tick = "idle" /\ tick' \in {"reconcile", "claim"}
        /\ sync'.op = "claim" => tick' = "claim"
    BY <1>1 DEF SweepExpired, Commits, remote
  <2> QED BY <2>1, <2>2, ExpiriesKeep
<1>2. CASE BatchSettled
  BY <1>2, BatchKeeps
<1>3. ASSUME NEW x \in recon, ReconcileExpired(x) PROVE IInv'
  <2> DEFINE S == {x.card}
  <2>1. /\ S \subseteq Cards /\ ExpireApprovalCards(S)
        /\ \A c \in S : card[c].status = "pending"
    BY <1>3 DEF ReconcileExpired, IInv, TypeOK
  <2>2. /\ UNCHANGED <<drv, hand, effects>>
        /\ tick = "reconcile" /\ tick' \in {"reconcile", "claim"}
        /\ sync'.op = "claim" => tick' = "claim"
    BY <1>3 DEF ReconcileExpired, ReconcileNext, Commits, remote
  <2> HIDE DEF S
  <2> QED BY <2>1, <2>2, ExpiriesKeep
<1>4. ASSUME NEW x \in recon, ReconcileSkip(x) PROVE IInv'
  <2>1. tick = "reconcile" /\ tick' \in {"reconcile", "claim"} /\ (sync'.op = "claim" => tick' = "claim")
    BY <1>4 DEF ReconcileSkip, ReconcileNext, Commits
  <2>2. UNCHANGED <<status, card, drv, hand, effects>>
    BY <1>4 DEF ReconcileSkip, disk, remote
  <2>3. /\ {} \in SUBSET Cards /\ \A c \in {} : card[c].status = "pending"
        /\ \A e \in Cards : card'[e].status = IF e \in {} THEN "expired" ELSE card[e].status
        /\ \A s \in Runs : status'[s] = IF /\ \E c \in {} : card[c].run = s
                                           /\ status[s] \in {"awaiting_approval", "running"}
                                        THEN "failed" ELSE status[s]
    BY <2>2
  <2> QED BY <2>1, <2>2, <2>3, ExpireKeeps
<1> QED BY <1>1, <1>2, <1>3, <1>4 DEF Loop

LEMMA ClaimKeeps ==
  ASSUME IInv, TypeOK', ClaimRunJobs
  PROVE  IInv'
<1>1. /\ UNCHANGED <<status, card, hand, effects>> /\ tick' = "batch" /\ sync' = NoSync
      /\ tick = "claim" /\ tick # "down"
  BY DEF ClaimRunJobs, IInv, RoundsAreSerial, remote
<1>2. \A r \in Runs, a \in JobActions : drv'[r][a] = drv[r][a] \/ drv'[r][a] = "mint"
  BY DEF ClaimRunJobs
<1>3. \A r \in ChatRuns : drv'[r]["start"] = drv[r]["start"]
  <2>1. \A i \in DOMAIN jobs : jobs[i] \in Job
    BY LenProperties, ElementOfSeq DEF IInv, TypeOK
  <2>2. \A i \in Claimable : i \in DOMAIN jobs
    BY DEF Claimable
  <2>3. \A i \in Claimable : jobs[i].action = "start" => jobs[i].run \notin ChatRuns
    BY <2>1, <2>2 DEF Job
  <2> QED BY <2>3 DEF ClaimRunJobs, Runs, JobActions
<1>4. \A r \in Runs, a \in JobActions :
        drv[r][a] = "acted" => drv'[r][a] = "acted" \/ \A c \in Cards : card[c].run # r
  <2> SUFFICES ASSUME NEW r \in Runs, NEW a \in JobActions, drv[r][a] = "acted"
               PROVE  drv'[r][a] = "acted" \/ \A c \in Cards : card[c].run # r
    OBVIOUS
  <2>1. ~Awaited(r, a)
    BY <1>1 DEF IInv, RoundsAreSerial
  <2>2. CASE r \in ParkedRuns
    BY <2>2, CardRun DEF IInv, CardsAreOwned
  <2>3. CASE r \in ChatRuns /\ a = "start"
    BY <1>3, <2>3
  <2> QED BY <2>1, <2>2, <2>3 DEF Awaited, Runs, JobActions
<1>5. DownIsQuiet'
  BY <1>1 DEF DownIsQuiet
<1>6. RoundsAreSerial'
  BY <1>1 DEF RoundsAreSerial, NoSync
<1>7. OneDriver'
  BY <1>1, <1>2 DEF IInv, OneDriver, Inside
<1>8. CardsAreOwned'
  BY <1>1 DEF IInv, CardsAreOwned
<1>9. ChatStartsBare'
  BY <1>1, <1>3 DEF IInv, ChatStartsBare, Inside
<1>10. HandIsGood'
  BY <1>1, <1>2 DEF IInv, HandIsGood
<1>11. EffectIsAccounted'
  BY <1>1, <1>2, <1>4, CardRun DEF IInv, EffectIsAccounted
<1>12. ExpiryEndsRun'
  BY <1>1 DEF IInv, ExpiryEndsRun
<1> QED BY <1>5, <1>6, <1>7, <1>8, <1>9, <1>10, <1>11, <1>12 DEF IInv

\* a crash: what was running is accounted for by its status
LEMMA CrashKeeps ==
  ASSUME IInv, TypeOK', Crash
  PROVE  IInv'
<1>1. /\ UNCHANGED <<status, card, effects>> /\ tick' = "down" /\ sync' = NoSync /\ tick # "down"
      /\ \A r \in Runs, a \in JobActions : drv'[r][a] = "off"
  BY DEF Crash, disk
<1>2. DownIsQuiet'
  BY <1>1 DEF DownIsQuiet
<1>3. RoundsAreSerial'
  BY <1>1 DEF RoundsAreSerial, NoSync
<1>4. OneDriver' /\ HandIsGood'
  BY <1>1 DEF OneDriver, HandIsGood, Inside
<1>5. CardsAreOwned' /\ ExpiryEndsRun'
  BY <1>1 DEF IInv, CardsAreOwned, ExpiryEndsRun
<1>6. ChatStartsBare'
  BY <1>1 DEF ChatStartsBare, Inside, Runs, JobActions
<1>7. EffectIsAccounted'
  BY <1>1, CardRun DEF IInv, EffectIsAccounted, OneDriver, Inside
<1> QED BY <1>2, <1>3, <1>4, <1>5, <1>6, <1>7 DEF IInv

\* the restart: what was running has failed
LEMMA RecoverKeeps ==
  ASSUME IInv, TypeOK', Recover
  PROVE  IInv'
<1>1. /\ UNCHANGED <<card, drv, hand, effects>> /\ tick = "down" /\ tick' = "idle" /\ sync' = sync
      /\ \A r \in Runs : status'[r] = IF status[r] = "running" THEN "failed" ELSE status[r]
  BY DEF Recover, remote
<1>2. sync = NoSync /\ \A r \in Runs, a \in JobActions : drv[r][a] = "off"
  BY <1>1 DEF IInv, DownIsQuiet
<1>3. DownIsQuiet'
  BY <1>1 DEF DownIsQuiet
<1>4. RoundsAreSerial'
  BY <1>1, <1>2 DEF RoundsAreSerial, NoSync
<1>5. OneDriver' /\ HandIsGood'
  BY <1>1, <1>2 DEF OneDriver, HandIsGood, Inside
<1>6. CardsAreOwned'
  BY <1>1, CardRun DEF IInv, CardsAreOwned, RunStatus
<1>7. ChatStartsBare'
  BY <1>1, <1>2 DEF ChatStartsBare, Inside, Runs, JobActions
<1>8. EffectIsAccounted'
  BY <1>1, <1>2, CardRun DEF IInv, EffectIsAccounted, IsTerminalRun
<1>9. ExpiryEndsRun'
  BY <1>1, CardRun DEF IInv, ExpiryEndsRun, IsTerminalRun
<1> QED BY <1>3, <1>4, <1>5, <1>6, <1>7, <1>8, <1>9 DEF IInv

LEMMA InvStep ==
  ASSUME IInv, [Next]_vars
  PROVE  IInv'
<1>0. TypeOK'
  BY TypeStep DEF IInv
<1>1. CASE EnqueueCommit
  <2>1. tick # "down" /\ sync' = NoSync
    BY <1>1 DEF EnqueueCommit, IInv, DownIsQuiet, NoSync
  <2> QED BY <1>0, <1>1, <2>1, QuietKeeps DEF EnqueueCommit, NoSync, remote
<1>2. CASE CompleteRunJob
  <2>1. tick # "down" /\ sync' = NoSync
    BY <1>2 DEF CompleteRunJob, IInv, DownIsQuiet, NoSync
  <2> QED BY <1>0, <1>2, <2>1, QuietKeeps DEF CompleteRunJob, NoSync, remote
<1>3. CASE Alive
  BY <1>0, <1>3, HttpKeeps, AnswersKeep, MintedKeeps, LoopKeeps, DriverKeeps DEF Alive
<1>4. CASE Environment
  BY <1>0, <1>4, QuietKeeps DEF Environment, BurnSettles, JiaotuExpires, Age, disk, process, remote
<1>5. CASE UNCHANGED vars
  BY <1>0, <1>5, QuietKeeps DEF vars
<1> QED BY <1>0, <1>1, <1>2, <1>3, <1>4, <1>5, ClaimKeeps, CrashKeeps, RecoverKeeps DEF Next, Segment

LEMMA InvInit == Init => IInv
<1> SUFFICES ASSUME Init PROVE IInv
  OBVIOUS
<1>1. TypeOK
  BY TypeInit
<1>2. /\ \A r \in Runs, a \in JobActions : drv[r][a] = "off"
      /\ \A c \in Cards : card[c].status = "none" /\ card[c].run = NoRun /\ effects[c] = 0
      /\ tick = "idle" /\ sync = NoSync
  BY DEF Init
<1>3. DownIsQuiet /\ RoundsAreSerial /\ OneDriver /\ HandIsGood
  BY <1>2 DEF DownIsQuiet, RoundsAreSerial, OneDriver, HandIsGood, Inside, NoSync
<1>4. CardsAreOwned /\ EffectIsAccounted /\ ExpiryEndsRun
  BY <1>2 DEF CardsAreOwned, EffectIsAccounted, ExpiryEndsRun
<1>5. ChatStartsBare
  BY <1>2 DEF ChatStartsBare, Inside, Runs, JobActions
<1> QED BY <1>1, <1>3, <1>4, <1>5 DEF IInv

-----------------------------------------------------------------------------
(* Every step is one of ApprovalOnce or leaves no trace in it *)

\* Cards keep their run and their decision, nothing takes effect, and a run that is
\* over stays over.
Traceless ==
  /\ \A c \in Cards : card'[c].run = card[c].run /\ card'[c].status = card[c].status
  /\ effects' = effects
  /\ \A r \in Runs : IsTerminalRun(status[r]) => IsTerminalRun(status'[r])

LEMMA TracelessEnds ==
  ASSUME Traceless
  PROVE  Once!Next
<1> DEFINE R == {r \in Runs : IsTerminalRun(status'[r])}
<1>1. R = {r \in Runs : IsTerminalRun(status[r])} \cup R
  BY DEF Traceless
<1>2. Once!End(R)
  BY <1>1 DEF Once!End, Traceless
<1>3. R \in SUBSET Runs
  OBVIOUS
<1> QED BY <1>2, <1>3 DEF Once!Next

LEMMA OverStays ==
  ASSUME TypeOK, NEW r \in Runs, NEW to,
         status' = status \/ (status' = [status EXCEPT ![r] = to] /\ ~IsTerminalRun(status[r]))
  PROVE  \A s \in Runs : IsTerminalRun(status[s]) => IsTerminalRun(status'[s])
BY DEF TypeOK

LEMMA NoWayBack ==
  ASSUME NEW s, NEW to, MayBecome(s, to)
  PROVE  ~IsTerminalRun(s)
BY DEF MayBecome, RUN_TRANSITIONS, RunStatus, IsTerminalRun

LEMMA MoveTraceless ==
  ASSUME TypeOK, NEW r \in Runs, NEW to, Move(r, to), UNCHANGED <<card, effects>>
  PROVE  Traceless
BY NoWayBack, OverStays DEF Move, Traceless

LEMMA ExitTraceless ==
  ASSUME TypeOK, NEW r \in Runs, NEW a \in JobActions, NodeExit(r, a), effects' = effects,
         \A c \in Cards : card'[c].run = card[c].run /\ card'[c].status = card[c].status
  PROVE  Traceless
<1>1. status' = status \/ Move(r, "completed")
  BY DEF NodeExit
<1>2. \A s \in Runs : IsTerminalRun(status[s]) => IsTerminalRun(status'[s])
  BY <1>1, NoWayBack, OverStays DEF Move
<1> QED BY <1>2 DEF Traceless

LEMMA DecisionDecides ==
  ASSUME TypeOK, NEW c \in Cards, card[c].status = "pending",
         NEW to \in {"approved", "rejected"}, card' = [card EXCEPT ![c].status = to],
         UNCHANGED <<status, effects>>
  PROVE  Once!Next
<1>1. /\ \A e \in Cards : card'[e].run = card[e].run
      /\ \A e \in Cards : card'[e].status = IF e = c THEN to ELSE card[e].status
  BY DEF TypeOK, Card
<1>2. Once!Decide(c)
  BY <1>1 DEF Once!Decide
<1> QED BY <1>2 DEF Once!Next

LEMMA ExpiryExpires ==
  ASSUME IInv, NEW S \in SUBSET Cards, \A c \in S : card[c].status = "pending",
         ExpireApprovalCards(S), effects' = effects
  PROVE  Once!Next
<1>1. /\ \A e \in Cards : card'[e].run = card[e].run
      /\ \A e \in Cards : card'[e].status = IF e \in S THEN "expired" ELSE card[e].status
  BY DEF ExpireApprovalCards, IInv, TypeOK, Card
<1>2. \A c \in S : card[c].run \in Runs /\ status[card[c].run] \in RunStatus \ {"queued"}
  BY CardRun DEF IInv, CardsAreOwned
<1>3. \A r \in Runs : IsTerminalRun(status'[r])
                        <=> IsTerminalRun(status[r]) \/ \E c \in S : card[c].run = r
  BY <1>2 DEF ExpireApprovalCards, IsTerminalRun, RunStatus
<1>4. {r \in Runs : IsTerminalRun(status'[r])}
        = {r \in Runs : IsTerminalRun(status[r])} \cup {card[c].run : c \in S}
  BY <1>2, <1>3
<1>5. Once!Expire(S)
  BY <1>1, <1>4 DEF Once!Expire
<1> QED BY <1>5 DEF Once!Next

LEMMA OpenAsks ==
  ASSUME IInv, NEW r \in Runs, NEW a \in JobActions, OpenApprovalCard(r, a)
  PROVE  Once!Next
<1>1. PICK c \in Cards :
        /\ card[c].status = "none"
        /\ card' = [card EXCEPT ![c] = [run |-> r, gen |-> gen[r], status |-> "pending", executed |-> FALSE]]
  BY DEF OpenApprovalCard
<1>2. /\ \A e \in Cards : card'[e].run = IF e = c THEN r ELSE card[e].run
      /\ \A e \in Cards : card'[e].status = IF e = c THEN "pending" ELSE card[e].status
  BY <1>1 DEF IInv, TypeOK
<1>3. ~IsTerminalRun(status[r]) /\ status' = [status EXCEPT ![r] = "awaiting_approval"] /\ effects' = effects
  BY NoWayBack DEF OpenApprovalCard, remote
<1>4. \A s \in Runs : IsTerminalRun(status'[s]) <=> IsTerminalRun(status[s])
  BY <1>3 DEF IInv, TypeOK, IsTerminalRun
<1>5. Once!Ask(c, r)
  BY <1>1, <1>2, <1>3, <1>4 DEF Once!Ask
<1> QED BY <1>5 DEF Once!Next

LEMMA ActPerforms ==
  ASSUME IInv, NEW r \in Runs, NEW a \in JobActions, Act(r, a)
  PROVE  Once!Next
<1>1. drv[r][a] = "act" /\ status[r] = "running"
  BY DEF Act, IInv, OneDriver, Inside
<1>2. PICK c \in Cards : /\ hand[r][a] = {c} /\ card[c].run = r
                         /\ card[c].status = "approved" /\ effects[c] = 0
  <2>1. hand[r][a] \subseteq Cards
    BY CardRun DEF IInv
  <2>2. PICK c \in hand[r][a] : \A e \in hand[r][a] : e = c
    BY <1>1 DEF IInv, HandIsGood
  <2>3. card[c].run = r /\ card[c].status = "approved" /\ effects[c] = 0
    BY <1>1, <2>2 DEF IInv, HandIsGood
  <2> QED BY <2>1, <2>2, <2>3
<1>3. effects' = [effects EXCEPT ![c] = 1] /\ UNCHANGED <<card, status>>
  <2>1. effects' = [e \in Cards |-> IF e \in hand[r][a] THEN effects[e] + 1 ELSE effects[e]]
    BY DEF Act
  <2>2. effects' = [e \in Cards |-> IF e = c THEN 1 ELSE effects[e]]
    BY <1>2, <2>1
  <2>3. effects \in [Cards -> Nat]
    BY DEF IInv, TypeOK
  <2> QED BY <2>2, <2>3 DEF Act, disk
<1>4. Once!Perform(c)
  BY <1>1, <1>2, <1>3 DEF Once!Perform, IsTerminalRun
<1> QED BY <1>4 DEF Once!Next

LEMMA HttpPromised ==
  ASSUME IInv, Http
  PROVE  Once!Next
<1>t. TypeOK
  BY DEF IInv
<1>1. ASSUME NEW r \in Runs, PostRun(r) \/ PostTicketedRun(r) \/ PostChat(r) PROVE Traceless
  <2>1. /\ status' = [status EXCEPT ![r] = "queued"] /\ ~IsTerminalRun(status[r])
        /\ UNCHANGED <<card, effects>>
    BY <1>1 DEF PostRun, PostTicketedRun, PostChat, remote, IsTerminalRun
  <2> QED BY <1>t, <2>1, OverStays DEF Traceless
<1>2. ASSUME NEW c \in Cards, RejectNow(c) PROVE Once!Next
  BY <1>t, <1>2, DecisionDecides DEF RejectNow, Decide, remote
<1>3. ASSUME NEW q \in Requests, NEW c \in Cards, NEW approve \in BOOLEAN, CallDecide(q, c, approve)
      PROVE Traceless
  BY <1>3 DEF CallDecide, disk, remote, Traceless
<1> QED BY <1>1, <1>2, <1>3, TracelessEnds DEF Http

LEMMA AnswersPromised ==
  ASSUME IInv, Answers
  PROVE  Once!Next
<1> PICK q \in Requests : JiaotuDecides(q) \/ DecisionLands(q) \/ DecisionFails(q)
  BY DEF Answers
<1>1. CASE JiaotuDecides(q) \/ DecisionFails(q)
  BY <1>1, TracelessEnds DEF JiaotuDecides, DecisionFails, disk, remote, Traceless
<1>2. CASE DecisionLands(q)
  <2> DEFINE c == req[q].card
             to == Decision(req[q].approve)
  <2>1. c \in Cards /\ TypeOK
    BY <1>2 DEF DecisionLands, IInv, TypeOK, Call
  <2>2. UNCHANGED <<status, effects>>
    BY <1>2 DEF DecisionLands, remote
  <2>3. CASE card[c].status = "pending"
    <3>1. card' = [card EXCEPT ![c].status = to]
      BY <1>2, <2>3 DEF DecisionLands, Decide
    <3>2. to \in {"approved", "rejected"}
      BY DEF Decision
    <3> HIDE DEF c, to
    <3> QED BY <2>1, <2>2, <2>3, <3>1, <3>2, DecisionDecides
  <2>4. CASE card[c].status # "pending"
    BY <1>2, <2>2, <2>4, TracelessEnds DEF DecisionLands, Traceless
  <2> QED BY <2>3, <2>4
<1> QED BY <1>1, <1>2

LEMMA MintedPromised ==
  ASSUME IInv, Minted
  PROVE  Once!Next
<1>t. TypeOK
  BY DEF IInv
<1> PICK r \in Runs : \/ TicketMinted(r) \/ TicketMintFailed(r)
                      \/ StartMinted(r) \/ StartMintFailed(r)
                      \/ ResumeMinted(r) \/ ResumeMintFailed(r)
  BY DEF Minted
<1>1. UNCHANGED <<card, effects>>
  BY DEF TicketMinted, TicketMintFailed, StartMinted, StartMintFailed, ResumeMinted, ResumeMintFailed,
     disk, remote
<1>2. \/ status' = status
      \/ status' = [status EXCEPT ![r] = "running"] /\ ~IsTerminalRun(status[r])
      \/ status' = [status EXCEPT ![r] = "failed"] /\ ~IsTerminalRun(status[r])
  <2>1. CASE TicketMinted(r) \/ ResumeMintFailed(r)
    BY <2>1 DEF TicketMinted, ResumeMintFailed, disk
  <2>2. CASE TicketMintFailed(r) \/ StartMintFailed(r)
    BY <2>2, NoWayBack DEF TicketMintFailed, StartMintFailed, FailUnTicketedRun
  <2>3. CASE StartMinted(r)
    BY <2>3, NoWayBack DEF StartMinted
  <2>4. CASE ResumeMinted(r)
    BY <2>4 DEF ResumeMinted, IsTerminalRun
  <2> QED BY <2>1, <2>2, <2>3, <2>4
<1>3. \A s \in Runs : IsTerminalRun(status[s]) => IsTerminalRun(status'[s])
  BY <1>t, <1>2, OverStays
<1> QED BY <1>1, <1>3, TracelessEnds DEF Traceless

LEMMA LoopPromised ==
  ASSUME IInv, Loop
  PROVE  Once!Next
<1>1. CASE SweepExpired
  <2>1. Overdue \in SUBSET Cards /\ \A c \in Overdue : card[c].status = "pending"
    BY DEF IInv, TypeOK, Overdue
  <2> QED BY <1>1, <2>1, ExpiryExpires DEF SweepExpired, remote
<1>2. CASE BatchSettled
  BY <1>2, TracelessEnds DEF BatchSettled, disk, remote, Traceless
<1>3. ASSUME NEW x \in recon, ReconcileExpired(x) PROVE Once!Next
  <2>1. {x.card} \in SUBSET Cards /\ \A c \in {x.card} : card[c].status = "pending"
    BY <1>3 DEF IInv, TypeOK, ReconcileExpired
  <2> QED BY <1>3, <2>1, ExpiryExpires DEF ReconcileExpired, remote
<1>4. ASSUME NEW x \in recon, ReconcileSkip(x) PROVE Once!Next
  BY <1>4, TracelessEnds DEF ReconcileSkip, disk, remote, Traceless
<1> QED BY <1>1, <1>2, <1>3, <1>4 DEF Loop

LEMMA DriverPromised ==
  ASSUME IInv, NEW r \in Runs, NEW a \in JobActions, Driver(r, a)
  PROVE  Once!Next
<1>t. TypeOK
  BY DEF IInv
<1>1. CASE WorkNode(r, a) \/ SkipRejected(r, a)
  BY <1>t, <1>1, ExitTraceless, TracelessEnds DEF WorkNode, SkipRejected, remote
<1>2. CASE WorkNodeThrows(r, a) \/ GateDeny(r, a) \/ ActThrows(r, a)
  BY <1>t, <1>2, MoveTraceless, TracelessEnds DEF WorkNodeThrows, GateDeny, ActThrows, Kill, remote
<1>3. CASE OpenApprovalCard(r, a)
  BY <1>3, OpenAsks
<1>4. CASE InterruptAgain(r, a)
  BY <1>t, <1>4, MoveTraceless, TracelessEnds DEF InterruptAgain, remote
<1>5. CASE LookUpBurn(r, a) \/ GatePass(r, a) \/ Declared(r, a)
  BY <1>5, TracelessEnds DEF LookUpBurn, GatePass, Declared, disk, remote, Traceless
<1>6. CASE Act(r, a)
  BY <1>6, ActPerforms
<1>7. CASE ActReturned(r, a)
  <2>1. \A c \in Cards : card'[c].run = card[c].run /\ card'[c].status = card[c].status
    BY <1>t, <1>7 DEF ActReturned, TypeOK, Card
  <2> QED BY <1>t, <1>7, <2>1, ExitTraceless, TracelessEnds DEF ActReturned
<1> QED BY <1>1, <1>2, <1>3, <1>4, <1>5, <1>6, <1>7 DEF Driver

LEMMA StepPromised ==
  ASSUME IInv, [Next]_vars
  PROVE  [Once!Next]_(Once!ovars)
<1>1. CASE Segment
  BY <1>1, TracelessEnds DEF Segment, EnqueueCommit, CompleteRunJob, ClaimRunJobs, remote, Traceless
<1>2. CASE Alive
  BY <1>2, HttpPromised, AnswersPromised, MintedPromised, LoopPromised, DriverPromised DEF Alive
<1>3. CASE Environment
  BY <1>3, TracelessEnds DEF Environment, BurnSettles, JiaotuExpires, Age, disk, process, remote, Traceless
<1>4. CASE Crash
  BY <1>4, TracelessEnds DEF Crash, disk, Traceless
<1>5. CASE Recover
  <2>1. /\ UNCHANGED <<card, effects>>
        /\ \A s \in Runs : IsTerminalRun(status[s]) => IsTerminalRun(status'[s])
    BY <1>5 DEF Recover, remote, IsTerminalRun
  <2> QED BY <2>1, TracelessEnds DEF Traceless
<1>6. CASE UNCHANGED vars
  BY <1>6 DEF vars, Once!ovars
<1> QED BY <1>1, <1>2, <1>3, <1>4, <1>5, <1>6 DEF Next

LEMMA InitPromised == Init => Once!Init
BY DEF Init, Once!Init, IsTerminalRun

-----------------------------------------------------------------------------
(* The mirror of the external gateway *)

MirrorInv == TypeOK /\ CallsKnowJiaotu /\ MirrorFollowsJiaotu

\* A request the external gateway decided stays decided; no card is decided here, and of
\* the calls in flight some may be given up.
MirrorUntouched ==
  /\ \A c \in Cards : \A i \in DOMAIN jiaotu[c] :
       /\ i \in DOMAIN jiaotu'[c]
       /\ jiaotu[c][i] \in {"approved", "rejected"} => jiaotu'[c][i] = jiaotu[c][i]
  /\ \A c \in Cards : card'[c].status \in {"approved", "rejected"} => card'[c].status = card[c].status
  /\ \A q \in Requests : req'[q].pc = "idle" \/ req'[q] = req[q]

LEMMA UntouchedKeeps ==
  ASSUME External, MirrorInv, MirrorUntouched
  PROVE  CallsKnowJiaotu' /\ MirrorFollowsJiaotu'
<1>1. \A q \in Requests : req[q].pc # "idle" => req[q].card \in Cards
  BY DEF MirrorInv, TypeOK, Call
<1>2. CallsKnowJiaotu'
  <2> SUFFICES ASSUME NEW q \in Requests, req'[q].pc # "idle"
               PROVE  /\ req'[q].ext \in DOMAIN jiaotu'[req'[q].card]
                      /\ req'[q].pc = "answered" =>
                           jiaotu'[req'[q].card][req'[q].ext] = Decision(req'[q].approve)
    BY DEF CallsKnowJiaotu, Decision
  <2>1. req'[q] = req[q] /\ req[q].card \in Cards
    BY <1>1 DEF MirrorUntouched
  <2>2. req[q].ext \in DOMAIN jiaotu[req[q].card]
    BY <2>1 DEF MirrorInv, CallsKnowJiaotu
  <2> QED BY <2>1, <2>2 DEF MirrorInv, CallsKnowJiaotu, MirrorUntouched, Decision
<1>3. MirrorFollowsJiaotu'
  <2> SUFFICES ASSUME NEW c \in Cards, card'[c].status \in {"approved", "rejected"}
               PROVE  \E i \in DOMAIN jiaotu'[c] : jiaotu'[c][i] = card'[c].status
    BY DEF MirrorFollowsJiaotu
  <2>1. card'[c].status = card[c].status
    BY DEF MirrorUntouched
  <2>2. PICK i \in DOMAIN jiaotu[c] : jiaotu[c][i] = card[c].status
    BY <2>1 DEF MirrorInv, MirrorFollowsJiaotu
  <2> QED BY <2>1, <2>2 DEF MirrorUntouched
<1> QED BY <1>2, <1>3

\* most steps disturb nothing of it
LEMMA ElsewhereKeeps ==
  ASSUME External, MirrorInv, UNCHANGED <<jiaotu, card>>,
         \A q \in Requests : req'[q].pc = "idle" \/ req'[q] = req[q]
  PROVE  CallsKnowJiaotu' /\ MirrorFollowsJiaotu'
BY UntouchedKeeps DEF MirrorUntouched

LEMMA CardsKeep ==
  ASSUME External, MirrorInv, UNCHANGED <<jiaotu, req>>,
         \A c \in Cards : card'[c].status \in {"approved", "rejected"} => card'[c].status = card[c].status
  PROVE  CallsKnowJiaotu' /\ MirrorFollowsJiaotu'
BY UntouchedKeeps DEF MirrorUntouched

LEMMA CallKeepsMirror ==
  ASSUME External, MirrorInv, NEW q \in Requests, NEW c \in Cards, NEW approve \in BOOLEAN,
         CallDecide(q, c, approve)
  PROVE  CallsKnowJiaotu' /\ MirrorFollowsJiaotu'
<1>1. /\ req' = [req EXCEPT ![q] = [pc |-> "sent", card |-> c, ext |-> Len(jiaotu[c]), approve |-> approve]]
      /\ UNCHANGED <<card, jiaotu>> /\ jiaotu[c] # <<>>
  BY DEF CallDecide, disk, remote
<1>2. Len(jiaotu[c]) \in DOMAIN jiaotu[c]
  <2>1. jiaotu[c] \in Seq(ApprovalStatus)
    BY DEF MirrorInv, TypeOK
  <2> QED BY <1>1, <2>1
<1>3. \A p \in Requests : req'[p] = IF p = q THEN [pc |-> "sent", card |-> c, ext |-> Len(jiaotu[c]), approve |-> approve]
                                             ELSE req[p]
  BY <1>1 DEF MirrorInv, TypeOK
<1>4. CallsKnowJiaotu'
  BY <1>1, <1>2, <1>3 DEF MirrorInv, CallsKnowJiaotu, Decision
<1> QED BY <1>1, <1>4 DEF MirrorInv, MirrorFollowsJiaotu

LEMMA ArbitrationKeepsMirror ==
  ASSUME External, MirrorInv, NEW q \in Requests, JiaotuDecides(q)
  PROVE  CallsKnowJiaotu' /\ MirrorFollowsJiaotu'
<1> DEFINE d == req[q].card
           k == req[q].ext
<1>1. /\ d \in Cards /\ k \in DOMAIN jiaotu[d] /\ jiaotu[d][k] = "pending"
      /\ jiaotu' = [jiaotu EXCEPT ![d] = [jiaotu[d] EXCEPT ![k] = Decision(req[q].approve)]]
      /\ req' = [req EXCEPT ![q] = [req[q] EXCEPT !.pc = "answered"]] /\ card' = card
  BY DEF MirrorInv, TypeOK, Call, CallsKnowJiaotu, JiaotuDecides, disk
<1>2. \A c \in Cards : /\ DOMAIN jiaotu'[c] = DOMAIN jiaotu[c]
                       /\ \A i \in DOMAIN jiaotu[c] :
                            jiaotu'[c][i] = IF c = d /\ i = k THEN Decision(req[q].approve) ELSE jiaotu[c][i]
  BY <1>1 DEF MirrorInv, TypeOK
<1>3. \A p \in Requests : req'[p] = IF p = q THEN [req[q] EXCEPT !.pc = "answered"] ELSE req[p]
  BY <1>1 DEF MirrorInv, TypeOK
<1>4. req[q] \in Call /\ req[q].pc = "sent"
  BY DEF MirrorInv, TypeOK, JiaotuDecides
<1>5. CallsKnowJiaotu'
  <2> SUFFICES ASSUME NEW p \in Requests, req'[p].pc # "idle"
               PROVE  /\ req'[p].ext \in DOMAIN jiaotu'[req'[p].card]
                      /\ req'[p].pc = "answered" =>
                           jiaotu'[req'[p].card][req'[p].ext] = Decision(req'[p].approve)
    BY DEF CallsKnowJiaotu, Decision
  <2>1. CASE p = q
    <3>1. /\ req'[p].card = d /\ req'[p].ext = k /\ req'[p].approve = req[q].approve
      BY <1>3, <1>4, <2>1 DEF Call
    <3> QED BY <1>1, <1>2, <3>1
  <2>2. CASE p # q
    <3>1. req'[p] = req[p] /\ req[p].card \in Cards /\ req[p].ext \in DOMAIN jiaotu[req[p].card]
      BY <1>3, <2>2 DEF MirrorInv, TypeOK, Call, CallsKnowJiaotu
    <3>2. req[p].pc = "answered" => jiaotu[req[p].card][req[p].ext] = Decision(req[p].approve)
      BY <3>1, <2>2 DEF MirrorInv, CallsKnowJiaotu
    <3>3. Decision(req[p].approve) # "pending"
      BY DEF Decision
    <3> HIDE DEF d, k
    <3> QED BY <1>1, <1>2, <3>1, <3>2, <3>3
  <2> QED BY <2>1, <2>2
<1>6. MirrorFollowsJiaotu'
  <2> SUFFICES ASSUME NEW c \in Cards, card[c].status \in {"approved", "rejected"}
               PROVE  \E i \in DOMAIN jiaotu'[c] : jiaotu'[c][i] = card[c].status
    BY <1>1 DEF MirrorFollowsJiaotu
  <2>1. PICK i \in DOMAIN jiaotu[c] : jiaotu[c][i] = card[c].status
    BY DEF MirrorInv, MirrorFollowsJiaotu
  <2>2. jiaotu'[c][i] = card[c].status
    BY <1>1, <1>2, <2>1
  <2> QED BY <1>2, <2>1, <2>2
<1> QED BY <1>5, <1>6

LEMMA LandingKeepsMirror ==
  ASSUME External, MirrorInv, NEW q \in Requests, DecisionLands(q)
  PROVE  CallsKnowJiaotu' /\ MirrorFollowsJiaotu'
<1> DEFINE d == req[q].card
<1>1. /\ d \in Cards /\ jiaotu' = jiaotu /\ req' = [req EXCEPT ![q] = NoCall]
      /\ req[q].ext \in DOMAIN jiaotu[d] /\ jiaotu[d][req[q].ext] = Decision(req[q].approve)
  BY DEF MirrorInv, TypeOK, Call, CallsKnowJiaotu, DecisionLands, remote
<1>2. \A c \in Cards : card'[c].status = card[c].status \/ (c = d /\ card'[c].status = Decision(req[q].approve))
  BY <1>1 DEF MirrorInv, TypeOK, Card, DecisionLands, Decide
<1>3. \A p \in Requests : req'[p] = IF p = q THEN NoCall ELSE req[p]
  BY <1>1 DEF MirrorInv, TypeOK
<1>4. CallsKnowJiaotu'
  BY <1>1, <1>3 DEF MirrorInv, CallsKnowJiaotu, NoCall, Decision
<1>5. MirrorFollowsJiaotu'
  BY <1>1, <1>2 DEF MirrorInv, MirrorFollowsJiaotu
<1> QED BY <1>4, <1>5

LEMMA ExpiryKeepsMirror ==
  ASSUME External, MirrorInv, NEW S, ExpireApprovalCards(S), UNCHANGED <<jiaotu, req>>
  PROVE  CallsKnowJiaotu' /\ MirrorFollowsJiaotu'
<1>1. \A c \in Cards : card'[c].status \in {"approved", "rejected"} => card'[c].status = card[c].status
  BY DEF ExpireApprovalCards, MirrorInv, TypeOK, Card
<1> QED BY <1>1, CardsKeep

LEMMA RequestsKeepMirror ==
  ASSUME External, MirrorInv, UNCHANGED <<card, req>>, NEW c \in Cards,
         \/ jiaotu' = [jiaotu EXCEPT ![c] = Append(@, "pending")]
         \/ \E i \in DOMAIN jiaotu[c] :
              jiaotu[c][i] = "pending" /\ jiaotu' = [jiaotu EXCEPT ![c][i] = "expired"]
  PROVE  CallsKnowJiaotu' /\ MirrorFollowsJiaotu'
<1>1. jiaotu[c] \in Seq(ApprovalStatus) /\ jiaotu \in [Cards -> Seq(ApprovalStatus)]
  BY DEF MirrorInv, TypeOK
<1>2. \A e \in Cards \ {c} : jiaotu'[e] = jiaotu[e]
  BY <1>1
<1>3. ASSUME NEW i \in DOMAIN jiaotu[c]
      PROVE  /\ i \in DOMAIN jiaotu'[c]
             /\ jiaotu[c][i] \in {"approved", "rejected"} => jiaotu'[c][i] = jiaotu[c][i]
  <2>1. CASE jiaotu' = [jiaotu EXCEPT ![c] = Append(@, "pending")]
    <3>1. jiaotu'[c] = Append(jiaotu[c], "pending")
      BY <1>1, <2>1
    <3> QED BY <1>1, <3>1
  <2>2. CASE \E k \in DOMAIN jiaotu[c] :
              jiaotu[c][k] = "pending" /\ jiaotu' = [jiaotu EXCEPT ![c][k] = "expired"]
    BY <1>1, <2>2
  <2> QED BY <2>1, <2>2
<1>4. MirrorUntouched
  <2>1. \A e \in Cards : \A i \in DOMAIN jiaotu[e] :
       /\ i \in DOMAIN jiaotu'[e]
       /\ jiaotu[e][i] \in {"approved", "rejected"} => jiaotu'[e][i] = jiaotu[e][i]
    BY <1>2, <1>3
  <2> QED BY <2>1 DEF MirrorUntouched
<1> QED BY <1>4, UntouchedKeeps

LEMMA DriverKeepsMirror ==
  ASSUME External, MirrorInv, NEW r \in Runs, NEW a \in JobActions, Driver(r, a)
  PROVE  CallsKnowJiaotu' /\ MirrorFollowsJiaotu'
<1>1. CASE \/ WorkNode(r, a) \/ WorkNodeThrows(r, a) \/ InterruptAgain(r, a) \/ SkipRejected(r, a)
           \/ LookUpBurn(r, a) \/ GatePass(r, a) \/ GateDeny(r, a) \/ Act(r, a) \/ ActThrows(r, a)
  BY <1>1, ElsewhereKeeps DEF WorkNode, WorkNodeThrows, InterruptAgain, SkipRejected, LookUpBurn,
     GatePass, GateDeny, Act, ActThrows, disk, remote
<1>2. CASE OpenApprovalCard(r, a)
  <2>1. \A c \in Cards : card'[c].status \in {"approved", "rejected"} => card'[c].status = card[c].status
    BY <1>2 DEF OpenApprovalCard, MirrorInv, TypeOK
  <2> QED BY <1>2, <2>1, CardsKeep DEF OpenApprovalCard, remote
<1>3. CASE ActReturned(r, a)
  <2>1. \A c \in Cards : card'[c].status = card[c].status
    BY <1>3 DEF ActReturned, MirrorInv, TypeOK, Card
  <2> QED BY <1>3, <2>1, CardsKeep DEF ActReturned
<1>4. CASE Declared(r, a)
  <2>1. PICK c \in hand[r][a] : jiaotu' = [jiaotu EXCEPT ![c] = Append(@, "pending")] \/ UNCHANGED jiaotu
    BY <1>4 DEF Declared
  <2>2. c \in Cards /\ UNCHANGED <<card, req>>
    BY <1>4, CardRun DEF Declared, MirrorInv, disk
  <2> QED BY <2>1, <2>2, RequestsKeepMirror, ElsewhereKeeps
<1> QED BY <1>1, <1>2, <1>3, <1>4 DEF Driver

LEMMA MirrorStep ==
  ASSUME External, MirrorInv, [Next]_vars
  PROVE  CallsKnowJiaotu' /\ MirrorFollowsJiaotu'
<1>1. CASE Segment
  BY <1>1, ElsewhereKeeps DEF Segment, EnqueueCommit, CompleteRunJob, ClaimRunJobs, remote
<1>2. CASE Http
  <2>1. ASSUME NEW r \in Runs, PostRun(r) \/ PostTicketedRun(r) \/ PostChat(r)
        PROVE  CallsKnowJiaotu' /\ MirrorFollowsJiaotu'
    BY <2>1, ElsewhereKeeps DEF PostRun, PostTicketedRun, PostChat, remote
  <2>2. \A c \in Cards : ~RejectNow(c)
    BY DEF RejectNow
  <2> QED BY <1>2, <2>1, <2>2, CallKeepsMirror DEF Http
<1>3. CASE Answers
  <2>1. ASSUME NEW q \in Requests, DecisionFails(q)
        PROVE  CallsKnowJiaotu' /\ MirrorFollowsJiaotu'
    <3>1. \A p \in Requests : req'[p].pc = "idle" \/ req'[p] = req[p]
      BY <2>1 DEF DecisionFails, MirrorInv, TypeOK, NoCall
    <3> QED BY <2>1, <3>1, ElsewhereKeeps DEF DecisionFails, disk, remote
  <2> QED BY <1>3, <2>1, ArbitrationKeepsMirror, LandingKeepsMirror DEF Answers
<1>4. CASE Minted
  BY <1>4, ElsewhereKeeps DEF Minted, TicketMinted, TicketMintFailed, StartMinted, StartMintFailed,
     ResumeMinted, ResumeMintFailed, disk, remote
<1>5. CASE Loop
  <2>1. CASE SweepExpired
    BY <2>1, ExpiryKeepsMirror DEF SweepExpired, remote
  <2>2. ASSUME NEW x \in recon, ReconcileExpired(x)
        PROVE  CallsKnowJiaotu' /\ MirrorFollowsJiaotu'
    BY <2>2, ExpiryKeepsMirror DEF ReconcileExpired, remote
  <2>3. ASSUME BatchSettled \/ \E x \in recon : ReconcileSkip(x)
        PROVE  CallsKnowJiaotu' /\ MirrorFollowsJiaotu'
    BY <2>3, ElsewhereKeeps DEF BatchSettled, ReconcileSkip, disk, remote
  <2> QED BY <1>5, <2>1, <2>2, <2>3 DEF Loop
<1>6. ASSUME NEW r \in Runs, NEW a \in JobActions, Driver(r, a)
      PROVE  CallsKnowJiaotu' /\ MirrorFollowsJiaotu'
  BY <1>6, DriverKeepsMirror
<1>7. CASE Environment
  <2>1. ASSUME NEW c \in Cards, JiaotuExpires(c)
        PROVE  CallsKnowJiaotu' /\ MirrorFollowsJiaotu'
    BY <2>1, RequestsKeepMirror DEF JiaotuExpires, disk, process
  <2>2. ASSUME NEW c \in Cards, BurnSettles(c) \/ Age(c)
        PROVE  CallsKnowJiaotu' /\ MirrorFollowsJiaotu'
    BY <2>2, ElsewhereKeeps DEF BurnSettles, Age, disk, process, remote
  <2> QED BY <1>7, <2>1, <2>2 DEF Environment
<1>8. CASE Crash
  <2>1. UNCHANGED <<jiaotu, card>> /\ \A q \in Requests : req'[q].pc = "idle"
    BY <1>8 DEF Crash, disk, NoCall
  <2> QED BY <2>1, ElsewhereKeeps
<1>9. CASE Recover
  BY <1>9, ElsewhereKeeps DEF Recover, remote
<1>10. CASE UNCHANGED vars
  BY <1>10, ElsewhereKeeps DEF vars
<1> QED BY <1>1, <1>2, <1>3, <1>4, <1>5, <1>6, <1>7, <1>8, <1>9, <1>10 DEF Next, Alive

LEMMA MirrorInit == Init => CallsKnowJiaotu /\ MirrorFollowsJiaotu
BY DEF Init, CallsKnowJiaotu, MirrorFollowsJiaotu, NoCall

-----------------------------------------------------------------------------
(* No running run without a driver *)

NotToParked == sync'.op = "enqueue" => sync' = sync \/ sync'.run \notin ParkedRuns

\* steps in which no driver moves
LEMMA StillKeeps ==
  ASSUME NoOrphanRun, ParkedStartsOnce, UNCHANGED <<jobs, drv>>, NotToParked,
         tick' # "down" => tick # "down",
         \A s \in Runs : /\ status'[s] = "running" => status[s] = "running"
                         /\ status'[s] = "none" <=> status[s] = "none"
  PROVE  NoOrphanRun' /\ ParkedStartsOnce'
<1>1. NoOrphanRun'
  BY DEF NoOrphanRun, Inside
<1>2. ParkedStartsOnce'
  BY DEF ParkedStartsOnce, NotToParked, Runs
<1> QED BY <1>1, <1>2

\* steps in which one does
LEMMA MoveKeepsDriven ==
  ASSUME NoOrphanRun, ParkedStartsOnce, UNCHANGED jobs, NotToParked,
         NEW r \in Runs, NEW a \in JobActions, NEW d, NEW C, NEW st, Moves(r, a, d, C, st),
         r \in ParkedRuns => drv[r][a] # "off",
         st # "none" \/ st = status[r],
         st = "running" => \/ d \in {"node", "gate", "act", "acted"}
                           \/ status[r] = "running" /\ ~Inside(r, a)
  PROVE  NoOrphanRun' /\ ParkedStartsOnce'
<1>1. NoOrphanRun'
  <2> SUFFICES ASSUME NEW s \in Runs, status'[s] = "running"
               PROVE  \E b \in JobActions : drv'[s][b] \in {"node", "gate", "act", "acted"}
    BY DEF NoOrphanRun, Inside
  <2>1. CASE s = r /\ d \in {"node", "gate", "act", "acted"}
    BY <2>1 DEF Moves
  <2>2. CASE s = r /\ d \notin {"node", "gate", "act", "acted"}
    <3>1. status[r] = "running" /\ ~Inside(r, a)
      BY <2>2 DEF Moves
    <3>2. PICK b \in JobActions : Inside(r, b)
      BY <3>1 DEF NoOrphanRun, Moves
    <3>3. b # a
      BY <3>1, <3>2
    <3> QED BY <2>2, <3>2, <3>3 DEF Moves, Inside
  <2>3. CASE s # r
    <3>1. status[s] = "running"
      BY <2>3 DEF Moves
    <3>2. PICK b \in JobActions : Inside(s, b)
      BY <3>1 DEF NoOrphanRun, Moves
    <3> QED BY <2>3, <3>2 DEF Moves, Inside
  <2> QED BY <2>1, <2>2, <2>3
<1>2. ParkedStartsOnce'
  BY DEF ParkedStartsOnce, NotToParked, Moves, Runs, JobActions
<1> QED BY <1>1, <1>2

DrivenInv == IInv /\ NoOrphanRun /\ ParkedStartsOnce

\* who calls Return in a segment of its own queues no job
LEMMA ReturnNotToParked ==
  ASSUME sync.op = "none", NEW r, NEW a, Return(r, a)
  PROVE  NotToParked
BY DEF Return, Commits, NotToParked

LEMMA HttpKeepsDriven ==
  ASSUME DrivenInv, sync.op = "none", tick # "down", Http
  PROVE  NoOrphanRun' /\ ParkedStartsOnce'
<1>t. TypeOK /\ NoOrphanRun /\ ParkedStartsOnce
  BY DEF DrivenInv, IInv
<1>1. ASSUME NEW r \in Runs, PostRun(r) PROVE NoOrphanRun' /\ ParkedStartsOnce'
  <2>1. /\ status[r] = "none" /\ \A s \in Runs : status'[s] = IF s = r THEN "queued" ELSE status[s]
        /\ sync'.op = "enqueue" /\ sync'.run = r /\ sync'.act = "start"
        /\ UNCHANGED <<jobs, drv, tick>>
    BY <1>t, <1>1 DEF PostRun, Commits, TypeOK
  <2>2. NoOrphanRun'
    BY <1>t, <2>1 DEF NoOrphanRun, Inside
  <2>3. ParkedStartsOnce'
    BY <1>t, <2>1 DEF ParkedStartsOnce, Runs
  <2> QED BY <2>2, <2>3
<1>2. ASSUME NEW r \in Runs, PostTicketedRun(r) PROVE NoOrphanRun' /\ ParkedStartsOnce'
  <2>1. Moves(r, "start", "ticket", hand[r]["start"], "queued")
    BY <1>t, <1>2, MovesBy DEF PostTicketedRun, JobActions
  <2>2. r \notin ParkedRuns
    BY <1>2, RunsAssumption DEF PostTicketedRun
  <2> QED BY <1>t, <1>2, <2>1, <2>2, MoveKeepsDriven DEF PostTicketedRun, NotToParked, JobActions
<1>3. ASSUME NEW r \in Runs, PostChat(r) PROVE NoOrphanRun' /\ ParkedStartsOnce'
  <2>1. Moves(r, "start", "mint", hand[r]["start"], "queued")
    BY <1>t, <1>3, MovesBy DEF PostChat, JobActions
  <2>2. r \notin ParkedRuns
    BY <1>3, RunsAssumption DEF PostChat
  <2> QED BY <1>t, <1>3, <2>1, <2>2, MoveKeepsDriven DEF PostChat, NotToParked, JobActions
<1>4. ASSUME NEW c \in Cards, RejectNow(c) PROVE NoOrphanRun' /\ ParkedStartsOnce'
  <2>1. card[c].run \notin ParkedRuns
    BY <1>4 DEF RejectNow, DrivenInv, IInv, CardsAreOwned
  <2> QED BY <1>t, <1>4, <2>1, StillKeeps DEF RejectNow, Decide, Commits, NotToParked
<1>5. ASSUME NEW q \in Requests, NEW c \in Cards, NEW approve \in BOOLEAN, CallDecide(q, c, approve)
      PROVE  NoOrphanRun' /\ ParkedStartsOnce'
  BY <1>t, <1>5, StillKeeps DEF CallDecide, disk, NotToParked
<1> QED BY <1>1, <1>2, <1>3, <1>4, <1>5 DEF Http

LEMMA AnswersKeepDriven ==
  ASSUME DrivenInv, sync.op = "none", tick # "down", Answers
  PROVE  NoOrphanRun' /\ ParkedStartsOnce'
<1>t. TypeOK /\ NoOrphanRun /\ ParkedStartsOnce
  BY DEF DrivenInv, IInv
<1> PICK q \in Requests : JiaotuDecides(q) \/ DecisionLands(q) \/ DecisionFails(q)
  BY DEF Answers
<1>1. CASE JiaotuDecides(q) \/ DecisionFails(q)
  BY <1>t, <1>1, StillKeeps DEF JiaotuDecides, DecisionFails, disk, NotToParked
<1>2. CASE DecisionLands(q)
  <2>1. req[q].card \in Cards
    BY <1>t, <1>2 DEF DecisionLands, TypeOK, Call
  <2>2. card[req[q].card].status = "pending" => card[req[q].card].run \notin ParkedRuns
    BY <2>1 DEF DrivenInv, IInv, CardsAreOwned
  <2> QED BY <1>t, <1>2, <2>2, StillKeeps DEF DecisionLands, Decide, Commits, NotToParked
<1> QED BY <1>1, <1>2

LEMMA MintedKeepsDriven ==
  ASSUME DrivenInv, sync.op = "none", tick # "down", Minted
  PROVE  NoOrphanRun' /\ ParkedStartsOnce'
<1> USE DEF JobActions
<1> PICK r \in Runs : \/ TicketMinted(r) \/ TicketMintFailed(r)
                      \/ StartMinted(r) \/ StartMintFailed(r)
                      \/ ResumeMinted(r) \/ ResumeMintFailed(r)
  BY DEF Minted
<1>t. TypeOK /\ NoOrphanRun /\ ParkedStartsOnce
  BY DEF DrivenInv, IInv
<1>1. CASE TicketMinted(r) \/ TicketMintFailed(r)
  <2>1. /\ drv[r]["start"] = "ticket" /\ ~Inside(r, "start") /\ UNCHANGED jobs /\ NotToParked
    BY <1>1, RunsAssumption DEF TicketMinted, TicketMintFailed, Inside, disk, NotToParked, Commits
  <2>2. /\ sync'.op # "claim" /\ tick' = tick /\ hand' = hand
        /\ drv' = [drv EXCEPT ![r]["start"] = "off"]
        /\ status' = status \/ status' = [status EXCEPT ![r] = "failed"]
    BY <1>1 DEF TicketMinted, TicketMintFailed, FailUnTicketedRun, Commits, disk
  <2>3. \/ Moves(r, "start", "off", hand[r]["start"], status[r])
        \/ Moves(r, "start", "off", hand[r]["start"], "failed")
    BY <1>t, <2>2, MovesBy
  <2> QED BY <1>t, <2>1, <2>3, MoveKeepsDriven
<1>2. ASSUME NEW a \in JobActions, drv[r][a] = "mint", Return(r, a), UNCHANGED <<jobs, tick>>,
             status' = status \/ status' = [status EXCEPT ![r] = "failed"]
      PROVE  NoOrphanRun' /\ ParkedStartsOnce'
  <2>1. NotToParked /\ ~Inside(r, a)
    BY <1>2, ReturnNotToParked DEF Inside
  <2>2. Moves(r, a, "off", {}, status[r]) \/ Moves(r, a, "off", {}, "failed")
    BY <1>t, <1>2, ReturnMoves
  <2> QED BY <1>t, <1>2, <2>1, <2>2, MoveKeepsDriven
<1>3. ASSUME NEW a \in JobActions, drv[r][a] = "mint", UNCHANGED <<jobs, tick, hand, sync>>,
             drv' = [drv EXCEPT ![r][a] = "node"], status' = [status EXCEPT ![r] = "running"]
      PROVE  NoOrphanRun' /\ ParkedStartsOnce'
  <2>1. Moves(r, a, "node", hand[r][a], "running")
    BY <1>t, <1>3, MovesBy
  <2> QED BY <1>t, <1>3, <2>1, MoveKeepsDriven DEF NotToParked
<1>4. CASE StartMinted(r)
  BY <1>2, <1>3, <1>4 DEF StartMinted
<1>5. CASE StartMintFailed(r)
  BY <1>2, <1>5 DEF StartMintFailed, FailUnTicketedRun
<1>6. CASE ResumeMinted(r)
  BY <1>2, <1>3, <1>6 DEF ResumeMinted
<1>7. CASE ResumeMintFailed(r)
  BY <1>2, <1>7 DEF ResumeMintFailed, disk
<1> QED BY <1>1, <1>4, <1>5, <1>6, <1>7

LEMMA LoopKeepsDriven ==
  ASSUME DrivenInv, sync.op = "none", tick # "down", Loop
  PROVE  NoOrphanRun' /\ ParkedStartsOnce'
<1>t. TypeOK /\ NoOrphanRun /\ ParkedStartsOnce
  BY DEF DrivenInv, IInv
<1>1. ASSUME NEW S, ExpireApprovalCards(S), UNCHANGED <<jobs, drv>>, NotToParked
      PROVE  NoOrphanRun' /\ ParkedStartsOnce'
  <2>1. \A s \in Runs : /\ status'[s] = "running" => status[s] = "running"
                        /\ status'[s] = "none" <=> status[s] = "none"
    BY <1>1 DEF ExpireApprovalCards
  <2> QED BY <1>t, <1>1, <2>1, StillKeeps
<1>2. CASE SweepExpired
  BY <1>1, <1>2 DEF SweepExpired, Commits, NotToParked
<1>3. ASSUME NEW x \in recon, ReconcileExpired(x) PROVE NoOrphanRun' /\ ParkedStartsOnce'
  BY <1>1, <1>3 DEF ReconcileExpired, ReconcileNext, Commits, NotToParked
<1>4. ASSUME BatchSettled \/ \E x \in recon : ReconcileSkip(x)
      PROVE  NoOrphanRun' /\ ParkedStartsOnce'
  BY <1>t, <1>4, StillKeeps DEF BatchSettled, ReconcileSkip, ReconcileNext, Commits, disk, NotToParked
<1> QED BY <1>2, <1>3, <1>4 DEF Loop

LEMMA DriverKeepsDriven ==
  ASSUME DrivenInv, sync.op = "none", tick # "down",
         NEW r \in Runs, NEW a \in JobActions, Driver(r, a)
  PROVE  NoOrphanRun' /\ ParkedStartsOnce'
<1>t. TypeOK /\ NoOrphanRun /\ ParkedStartsOnce /\ OneDriver
  BY DEF DrivenInv, IInv
<1>m. ASSUME NEW d \in {"node", "gate", "act", "acted"}, NEW C, Moves(r, a, d, C, "running"),
             drv[r][a] # "off", UNCHANGED jobs, NotToParked
      PROVE  NoOrphanRun' /\ ParkedStartsOnce'
  BY <1>t, <1>m, MoveKeepsDriven
<1>o. ASSUME NEW d, NEW C, NEW st \in {"awaiting_approval", "completed", "failed"}, Moves(r, a, d, C, st),
             drv[r][a] # "off", UNCHANGED jobs, NotToParked
      PROVE  NoOrphanRun' /\ ParkedStartsOnce'
  BY <1>t, <1>o, MoveKeepsDriven
<1>1. CASE WorkNode(r, a) \/ SkipRejected(r, a) \/ ActReturned(r, a)
  <2>1. NodeExit(r, a) /\ status[r] = "running" /\ UNCHANGED <<jobs, tick>> /\ drv[r][a] # "off"
    BY <1>t, <1>1 DEF WorkNode, SkipRejected, ActReturned, AtNode, OneDriver, Inside
  <2>2. NotToParked
    BY <2>1, ReturnNotToParked DEF NodeExit, NotToParked
  <2> QED BY <1>t, <1>m, <1>o, <2>1, <2>2, NodeExitMoves
<1>2. CASE WorkNodeThrows(r, a) \/ GateDeny(r, a) \/ ActThrows(r, a)
  <2>1. Kill(r, a) /\ status[r] = "running" /\ UNCHANGED <<jobs, tick>> /\ drv[r][a] # "off"
    BY <1>t, <1>2 DEF WorkNodeThrows, GateDeny, ActThrows, AtNode, OneDriver, Inside
  <2>2. NotToParked
    BY <2>1, ReturnNotToParked DEF Kill
  <2> QED BY <1>t, <1>o, <2>1, <2>2, KillMoves
<1>3. CASE OpenApprovalCard(r, a) \/ InterruptAgain(r, a)
  <2>1. /\ status' = [status EXCEPT ![r] = "awaiting_approval"] /\ \E D : Suspend(r, a, D)
        /\ UNCHANGED <<jobs, tick>> /\ drv[r][a] # "off"
    BY <1>t, <1>3 DEF OpenApprovalCard, InterruptAgain, AtNode, OneDriver, Inside,
       Move, MayBecome, RUN_TRANSITIONS, RunStatus
  <2>2. NotToParked
    BY <2>1, ReturnNotToParked DEF Suspend, NotToParked
  <2> QED BY <1>t, <1>o, <2>1, <2>2, SuspendMoves
<1>4. CASE LookUpBurn(r, a) \/ GatePass(r, a) \/ Act(r, a)
  <2>1. /\ status[r] = "running" /\ status' = status /\ UNCHANGED <<jobs, tick, sync>>
        /\ drv[r][a] # "off"
    BY <1>t, <1>4 DEF LookUpBurn, GatePass, Act, AtNode, OneDriver, Inside, disk
  <2>2. PICK d \in {"gate", "act", "acted"} : drv' = [drv EXCEPT ![r][a] = d]
    BY <1>4 DEF LookUpBurn, GatePass, Act
  <2>3. hand' = hand \/ \E C : hand' = [hand EXCEPT ![r][a] = C]
    BY <1>4 DEF LookUpBurn, GatePass, Act
  <2>4. \E C : Moves(r, a, d, C, "running")
    BY <1>t, <2>1, <2>2, <2>3, MovesBy
  <2> QED BY <1>m, <2>1, <2>4 DEF NotToParked
<1>5. CASE Declared(r, a)
  <2>1. /\ drv[r][a] = "declare" /\ ~Inside(r, a) /\ status' = status /\ UNCHANGED <<jobs, tick>>
    BY <1>5 DEF Declared, disk, Inside
  <2>2. CASE Return(r, a)
    <3>1. Moves(r, a, "off", {}, status[r]) /\ NotToParked
      BY <1>t, <2>1, <2>2, ReturnMoves, ReturnNotToParked
    <3> QED BY <1>t, <2>1, <3>1, MoveKeepsDriven
  <2>3. CASE ~Return(r, a)
    <3>1. UNCHANGED <<drv, sync>>
      BY <1>5, <2>3 DEF Declared
    <3> QED BY <1>t, <2>1, <3>1, StillKeeps DEF NotToParked
  <2> QED BY <2>2, <2>3
<1> QED BY <1>1, <1>2, <1>3, <1>4, <1>5 DEF Driver

LEMMA EnqueueKeepsDriven ==
  ASSUME DrivenInv, EnqueueCommit
  PROVE  NoOrphanRun' /\ ParkedStartsOnce'
<1> DEFINE new == [run |-> sync.run, action |-> sync.act, state |-> "pending"]
<1>1. UNCHANGED <<status, drv, tick>> /\ sync' = NoSync /\ NoSync.op = "none"
  BY DEF EnqueueCommit, NoSync
<1>2. NoOrphanRun'
  BY <1>1 DEF DrivenInv, NoOrphanRun, Inside
<1>3. jobs' = jobs \/ jobs' = Append(jobs, new)
  BY DEF EnqueueCommit, EnqueueRunJob
<1>4. jobs \in Seq(Job) /\ Len(jobs) \in Nat /\ DOMAIN jobs = 1 .. Len(jobs)
  BY DEF DrivenInv, IInv, TypeOK
<1>5. \A i \in DOMAIN jobs' : \/ i \in DOMAIN jobs /\ jobs'[i] = jobs[i]
                              \/ i = Len(jobs) + 1 /\ jobs' # jobs /\ jobs'[i] = new
  BY <1>3, <1>4
<1>6. \A i \in DOMAIN jobs : i # Len(jobs) + 1
  BY <1>4
<1>7. ASSUME NEW r \in ParkedRuns
      PROVE  /\ \A i \in DOMAIN jobs' : jobs'[i].run = r =>
                  jobs'[i].action = "start" /\ \A k \in DOMAIN jobs' : jobs'[k].run = r => k = i
             /\ status[r] = "none" => \A i \in DOMAIN jobs' : jobs'[i].run # r
             /\ \/ drv[r]["start"] = "off"
                \/ status[r] # "none"
                   /\ \A i \in DOMAIN jobs' : jobs'[i].run = r => jobs'[i].state # "pending"
  <2>1. CASE sync.run = r
    BY <1>5, <1>6, <2>1 DEF DrivenInv, ParkedStartsOnce, EnqueueCommit
  <2>2. CASE sync.run # r
    BY <1>5, <2>2 DEF DrivenInv, ParkedStartsOnce
  <2> QED BY <2>1, <2>2
<1>8. ParkedStartsOnce'
  BY <1>1, <1>7 DEF ParkedStartsOnce
<1> QED BY <1>2, <1>8

LEMMA CompleteKeepsDriven ==
  ASSUME DrivenInv, CompleteRunJob
  PROVE  NoOrphanRun' /\ ParkedStartsOnce'
<1>1. UNCHANGED <<status, drv, tick>> /\ sync' = NoSync /\ NoSync.op = "none" /\ DOMAIN jobs' = DOMAIN jobs
  BY DEF CompleteRunJob, NoSync, SetJobs
<1>2. \A i \in DOMAIN jobs : jobs[i] \in Job
  BY LenProperties, ElementOfSeq DEF DrivenInv, IInv, TypeOK
<1>3. \A i \in DOMAIN jobs : /\ jobs'[i].run = jobs[i].run /\ jobs'[i].action = jobs[i].action
                             /\ jobs'[i].state \in {jobs[i].state, "done"}
  BY <1>2 DEF CompleteRunJob, SetJobs, Job
<1>4. NoOrphanRun'
  BY <1>1 DEF DrivenInv, NoOrphanRun, Inside
<1>5. ParkedStartsOnce'
  BY <1>1, <1>3 DEF DrivenInv, ParkedStartsOnce
<1> QED BY <1>4, <1>5

LEMMA ClaimKeepsDriven ==
  ASSUME DrivenInv, ClaimRunJobs
  PROVE  NoOrphanRun' /\ ParkedStartsOnce'
<1>1. /\ UNCHANGED status /\ tick = "claim" /\ tick' = "batch" /\ sync' = NoSync /\ NoSync.op = "none"
      /\ DOMAIN jobs' = DOMAIN jobs
  BY DEF ClaimRunJobs, DrivenInv, IInv, RoundsAreSerial, NoSync
<1>2. \A i \in DOMAIN jobs : jobs[i] \in Job
  BY LenProperties, ElementOfSeq DEF DrivenInv, IInv, TypeOK
<1>3. \A i \in Claimable : i \in DOMAIN jobs /\ jobs[i].state = "pending"
  BY DEF Claimable
<1>4. \A i \in DOMAIN jobs :
        /\ jobs'[i].run = jobs[i].run /\ jobs'[i].action = jobs[i].action
        /\ i \notin Claimable => jobs'[i] = jobs[i]
        /\ i \in Claimable => jobs'[i].state # "pending"
  BY <1>2 DEF ClaimRunJobs, Job
<1>5. \A r \in Runs, a \in JobActions :
        \/ drv'[r][a] = drv[r][a]
        \/ drv'[r][a] = "mint" /\ \E i \in Claimable : jobs[i].run = r /\ jobs[i].action = a
  BY DEF ClaimRunJobs
<1>6. ASSUME NEW r \in Runs, NEW a \in JobActions, Inside(r, a)
      PROVE  drv'[r][a] = drv[r][a]
  <2>1. ~Awaited(r, a)
    BY <1>1, <1>6 DEF DrivenInv, IInv, RoundsAreSerial, Inside
  <2>2. r \in ParkedRuns \/ (r \in ChatRuns /\ a = "start")
    BY <2>1 DEF Awaited, Runs, JobActions
  <2>3. ~\E i \in Claimable : jobs[i].run = r /\ jobs[i].action = a
    BY <1>2, <1>3, <1>6, <2>2 DEF DrivenInv, ParkedStartsOnce, Inside, Job
  <2> QED BY <1>5, <2>3
<1>7. NoOrphanRun'
  BY <1>1, <1>6 DEF DrivenInv, NoOrphanRun, Inside
<1>8. ASSUME NEW r \in ParkedRuns
      PROVE  \/ drv'[r]["start"] = "off"
             \/ status[r] # "none" /\ \A i \in DOMAIN jobs' : jobs'[i].run = r => jobs'[i].state # "pending"
  <2>1. r \in Runs /\ "start" \in JobActions
    BY DEF Runs, JobActions
  <2>2. CASE drv'[r]["start"] = drv[r]["start"]
    BY <1>1, <1>4, <2>2 DEF DrivenInv, ParkedStartsOnce
  <2>3. CASE \E i \in Claimable : jobs[i].run = r
    <3>1. PICK i \in Claimable : jobs[i].run = r /\ i \in DOMAIN jobs
      BY <1>3, <2>3
    <3>2. status[r] # "none" /\ \A k \in DOMAIN jobs : jobs[k].run = r => k = i
      BY <3>1 DEF DrivenInv, ParkedStartsOnce
    <3> QED BY <1>1, <1>4, <3>1, <3>2
  <2> QED BY <1>5, <2>1, <2>2, <2>3
<1>9. ParkedStartsOnce'
  BY <1>1, <1>4, <1>8 DEF DrivenInv, ParkedStartsOnce
<1> QED BY <1>7, <1>9

LEMMA RestartKeepsDriven ==
  ASSUME DrivenInv, Crash \/ Recover
  PROVE  NoOrphanRun' /\ ParkedStartsOnce'
<1>1. CASE Crash
  BY <1>1 DEF Crash, disk, NoSync, DrivenInv, NoOrphanRun, ParkedStartsOnce, Runs, JobActions
<1>2. CASE Recover
  <2>1. /\ \A r \in Runs : status'[r] # "running" /\ (status'[r] = "none" <=> status[r] = "none")
        /\ drv' = drv /\ sync' = sync /\ DOMAIN jobs' = DOMAIN jobs
    BY <1>2 DEF Recover
  <2>2. sync = NoSync /\ NoSync.op = "none" /\ \A r \in Runs : drv[r]["start"] = "off"
    BY <1>2 DEF Recover, DrivenInv, IInv, DownIsQuiet, NoSync, JobActions
  <2>3. \A i \in DOMAIN jobs : jobs[i] \in Job
    BY LenProperties, ElementOfSeq DEF DrivenInv, IInv, TypeOK
  <2>4. \A i \in DOMAIN jobs : jobs'[i].run = jobs[i].run /\ jobs'[i].action = jobs[i].action
    BY <1>2, <2>3 DEF Recover, Job
  <2>5. NoOrphanRun'
    BY <2>1 DEF NoOrphanRun
  <2>6. ParkedStartsOnce'
    BY <2>1, <2>2, <2>4 DEF DrivenInv, ParkedStartsOnce, Runs
  <2> QED BY <2>5, <2>6
<1> QED BY <1>1, <1>2

LEMMA DrivenStep ==
  ASSUME DrivenInv, [Next]_vars
  PROVE  DrivenInv'
<1>1. CASE Segment
  BY <1>1, EnqueueKeepsDriven, CompleteKeepsDriven, ClaimKeepsDriven, InvStep DEF Segment, DrivenInv
<1>2. CASE Alive
  BY <1>2, HttpKeepsDriven, AnswersKeepDriven, MintedKeepsDriven, LoopKeepsDriven, DriverKeepsDriven,
     InvStep DEF Alive, DrivenInv
<1>3. CASE Environment \/ UNCHANGED vars
  <2>1. UNCHANGED <<status, jobs, drv, tick, sync>>
    BY <1>3 DEF Environment, BurnSettles, JiaotuExpires, Age, disk, process, vars
  <2> QED BY <2>1, StillKeeps, InvStep DEF DrivenInv, NotToParked
<1>4. CASE Crash \/ Recover
  BY <1>4, RestartKeepsDriven, InvStep DEF DrivenInv
<1> QED BY <1>1, <1>2, <1>3, <1>4 DEF Next

LEMMA DrivenInit == Init => NoOrphanRun /\ ParkedStartsOnce
BY DEF Init, NoOrphanRun, ParkedStartsOnce, NoSync, Runs, JobActions

-----------------------------------------------------------------------------
(* Queued runs and start jobs *)

\* a start job is its run's only one, posted with the run or with its ticket, and claimed
\* before an execution of it awaits anything
StartTells(r) ==
  LET Starts(i) == jobs[i].run = r /\ jobs[i].action = "start"
      Due       == sync.op = "enqueue" /\ sync.run = r /\ sync.act = "start"
  IN /\ \A i \in DOMAIN jobs : Starts(i) => \A k \in DOMAIN jobs : Starts(k) => k = i
     /\ Due => status[r] = "queued" /\ drv[r]["start"] = "off"
     /\ status[r] = "none" => drv[r]["start"] = "off"
     /\ drv[r]["start"] = "ticket" => status[r] = "queued"
     /\ drv[r]["start"] \in {"off", "ticket", "mint"} \/ status[r] # "queued"
     /\ \/ ~Due /\ status[r] # "none" /\ drv[r]["start"] # "ticket"
        \/ \A i \in DOMAIN jobs : ~Starts(i)
     /\ \/ drv[r]["start"] = "off"
        \/ \A i \in DOMAIN jobs : Starts(i) => jobs[i].state # "pending"

\* only a run that has had a card is resumed, and a start that is over left the queue
LateTell ==
  /\ \A i \in DOMAIN jobs : jobs[i].action = "resume" => status[jobs[i].run] \notin {"none", "queued"}
  /\ sync.op = "enqueue" /\ sync.act = "resume" => status[sync.run] \notin {"none", "queued"}
  /\ sync.op = "complete" /\ sync.act = "start" => status[sync.run] # "queued"

\* a dispatched run that is queued and has a job has one to be executed
QueuedHasJob ==
  \A r \in QueueRuns : status[r] = "queued" /\ (\E i \in DOMAIN jobs : jobs[i].run = r) =>
     \E i \in DOMAIN jobs : jobs[i].run = r /\ jobs[i].action = "start" /\ Live(jobs[i])

DownAfterCrash == tick = "down" => crashes # 0
StartsTell == \A r \in Runs \ ChatRuns : StartTells(r)

JobsBooks == StartsTell /\ LateTell /\ QueuedHasJob /\ DownAfterCrash /\ JobsMatchRuns
JobsInv == IInv /\ JobsBooks

\* between two segments: what a step of the process may do to runs, start drivers and the
\* commit it leaves
RunsGoOn ==
  \A s \in Runs :
    /\ status'[s] = "none" <=> status[s] = "none"
    /\ status'[s] = "queued" => status[s] = "queued"
    /\ status[s] = "queued" /\ status'[s] # "queued" => drv[s]["start"] # "off"
StartsGoOn ==
  \A s \in Runs :
    \/ /\ drv'[s]["start"] = drv[s]["start"]
       /\ drv[s]["start"] = "ticket" /\ status[s] = "queued" => status'[s] = "queued"
    \/ /\ drv[s]["start"] # "off" /\ drv'[s]["start"] # "ticket"
       /\ \/ status'[s] # "queued"
          \/ sync'.op = "enqueue" /\ sync'.run = s /\ sync'.act = "start"
          \/ s \in ChatRuns
CommitTells ==
  /\ sync'.op = "enqueue" /\ sync'.act = "start" =>
       /\ sync'.run \in Runs /\ drv[sync'.run]["start"] = "ticket" /\ drv'[sync'.run]["start"] = "off"
       /\ status'[sync'.run] = status[sync'.run]
  /\ sync'.op = "enqueue" /\ sync'.act = "resume" => status'[sync'.run] \notin {"none", "queued"}
  /\ sync'.op = "complete" /\ sync'.act = "start" => status'[sync'.run] # "queued"

\* steps that leave the job table alone and bring no run
LEMMA TableStays ==
  ASSUME TypeOK, TypeOK', JobsBooks, UNCHANGED <<jobs, crashes>>, tick # "down", tick' # "down", sync.op = "none",
         RunsGoOn, StartsGoOn, CommitTells
  PROVE  JobsBooks'
<1>j. \A i \in DOMAIN jobs : jobs[i] \in Job
  BY LenProperties, ElementOfSeq DEF TypeOK
<1>1. ASSUME NEW r \in Runs \ ChatRuns PROVE StartTells(r)'
  <2>1. StartTells(r)
    BY DEF JobsBooks, StartsTell
  <2>2. CASE sync'.op = "enqueue" /\ sync'.run = r /\ sync'.act = "start"
    <3>1. /\ drv[r]["start"] = "ticket" /\ drv'[r]["start"] = "off" /\ status'[r] = status[r]
      BY <2>2 DEF CommitTells
    <3>2. /\ status[r] = "queued" /\ \A i \in DOMAIN jobs : ~(jobs[i].run = r /\ jobs[i].action = "start")
      BY <2>1, <3>1 DEF StartTells
    <3> QED BY <3>1, <3>2 DEF StartTells
  <2>3. CASE ~(sync'.op = "enqueue" /\ sync'.run = r /\ sync'.act = "start")
    <3>1. /\ drv'[r]["start"] = drv[r]["start"] \/ (drv[r]["start"] # "off" /\ drv'[r]["start"] # "ticket")
          /\ status'[r] = "none" <=> status[r] = "none"
      BY DEF StartsGoOn, RunsGoOn
    <3>2. drv'[r]["start"] = "ticket" => status'[r] = "queued"
      BY <2>1 DEF StartTells, StartsGoOn
    <3>3. drv'[r]["start"] \in {"off", "ticket", "mint"} \/ status'[r] # "queued"
      BY <2>1, <2>3 DEF StartTells, StartsGoOn, RunsGoOn
    <3> QED BY <2>1, <2>3, <3>1, <3>2, <3>3 DEF StartTells
  <2> QED BY <2>2, <2>3
<1>2. StartsTell'
  BY <1>1 DEF StartsTell
<1>3. LateTell'
  <2>1. \A i \in DOMAIN jobs : jobs[i].action = "resume" => status'[jobs[i].run] \notin {"none", "queued"}
    BY <1>j DEF JobsBooks, LateTell, RunsGoOn, Job
  <2> QED BY <2>1 DEF LateTell, CommitTells
<1>4. QueuedHasJob'
  BY DEF JobsBooks, QueuedHasJob, RunsGoOn, Live, Runs
<1>5. DownAfterCrash'
  BY DEF DownAfterCrash
<1>6. ASSUME NEW r \in Runs \ ChatRuns, status'[r] = "queued"
      PROVE  \/ crashes > 0 /\ (r \in ParkedRuns \/ ~\E i \in DOMAIN jobs : jobs[i].run = r)
             \/ \E i \in DOMAIN jobs : jobs[i].run = r /\ Live(jobs[i])
             \/ sync'.op = "enqueue" /\ sync'.run = r /\ sync'.act = "start"
             \/ drv'[r]["start"] \in {"ticket", "mint"}
  <2>1. status[r] = "queued" /\ ~(sync = [op |-> "enqueue", run |-> r, act |-> "start"])
    BY <1>6 DEF RunsGoOn
  <2> QED BY <1>6, <2>1 DEF JobsBooks, JobsMatchRuns, StartsGoOn
<1>7. ASSUME crashes = 0, NEW i \in DOMAIN jobs, jobs[i].action = "start", jobs[i].state = "pending"
      PROVE  status'[jobs[i].run] = "queued"
  <2>1. jobs[i].run \in Runs \ ChatRuns /\ status[jobs[i].run] = "queued"
    BY <1>j, <1>7 DEF JobsBooks, JobsMatchRuns, Job
  <2>2. drv[jobs[i].run]["start"] = "off"
    BY <1>7, <2>1 DEF JobsBooks, StartsTell, StartTells
  <2> QED BY <2>1, <2>2 DEF RunsGoOn
<1>8. \A r : sync'.op = "enqueue" /\ sync'.run = r /\ sync'.act = "start" =>
               sync' = [op |-> "enqueue", run |-> r, act |-> "start"]
  BY DEF TypeOK, Commit
<1>9. JobsMatchRuns'
  <2> SUFFICES
        /\ \A r \in {s \in Runs \ ChatRuns : status'[s] = "queued"} :
             \/ crashes > 0 /\ (r \in ParkedRuns \/ ~\E i \in DOMAIN jobs : jobs[i].run = r)
             \/ \E i \in DOMAIN jobs : jobs[i].run = r /\ Live(jobs[i])
             \/ sync' = [op |-> "enqueue", run |-> r, act |-> "start"]
             \/ drv'[r]["start"] \in {"ticket", "mint"}
        /\ crashes = 0 =>
             \A i \in DOMAIN jobs : jobs[i].action = "start" /\ jobs[i].state = "pending" =>
               status'[jobs[i].run] = "queued"
    BY DEF JobsMatchRuns, Live
  <2> QED BY <1>6, <1>7, <1>8
<1> QED BY <1>2, <1>3, <1>4, <1>5, <1>9 DEF JobsBooks

\* steps of one driver
LEMMA MoveKeepsJobs ==
  ASSUME TypeOK, TypeOK', JobsBooks, UNCHANGED <<jobs, crashes>>, sync.op = "none", CommitTells,
         NEW r \in Runs, NEW a \in JobActions, NEW d, NEW C, NEW st, Moves(r, a, d, C, st),
         d # "ticket", st = status[r] \/ (status[r] # "none" /\ st \notin {"none", "queued"}),
         status[r] = "queued" /\ st # "queued" => a = "start",
         a = "start" => /\ drv[r][a] # "off"
                        /\ \/ st # "queued" \/ r \in ChatRuns
                           \/ sync'.op = "enqueue" /\ sync'.run = r /\ sync'.act = "start"
  PROVE  JobsBooks'
<1>1. RunsGoOn
  BY DEF RunsGoOn, Moves
<1>2. StartsGoOn
  <2>1. "start" \in JobActions
    BY DEF JobActions
  <2> QED BY <2>1 DEF StartsGoOn, Moves
<1>3. tick # "down" /\ tick' # "down"
  BY DEF Moves
<1> QED BY <1>1, <1>2, <1>3, TableStays

\* a step that posts no run and queues no start
LEMMA StillKeepsJobs ==
  ASSUME TypeOK, TypeOK', JobsBooks, UNCHANGED <<jobs, drv, crashes>>, tick # "down", tick' # "down",
         sync.op = "none", CommitTells,
         \A s \in Runs : /\ status'[s] = "none" <=> status[s] = "none"
                         /\ status'[s] = "queued" <=> status[s] = "queued"
  PROVE  JobsBooks'
<1>1. RunsGoOn /\ StartsGoOn
  BY DEF RunsGoOn, StartsGoOn
<1> QED BY <1>1, TableStays

\* a run is new: nothing of it is there yet
LEMMA PostKeepsJobs ==
  ASSUME TypeOK, TypeOK', JobsBooks, UNCHANGED <<jobs, crashes, tick>>, tick # "down", sync.op = "none",
         NEW r \in Runs, status[r] = "none", NEW d \in {"off", "ticket", "mint"},
         \A s \in Runs : status'[s] = IF s = r THEN "queued" ELSE status[s],
         \A s \in Runs : drv'[s]["start"] = IF s = r THEN d ELSE drv[s]["start"],
         d = "off" => sync' = [op |-> "enqueue", run |-> r, act |-> "start"],
         d # "off" => sync' = sync, d = "mint" => r \in ChatRuns
  PROVE  JobsBooks'
<1>j. \A i \in DOMAIN jobs : jobs[i] \in Job
  BY LenProperties, ElementOfSeq DEF TypeOK
<1>0. \A i \in DOMAIN jobs : jobs[i].run # r
  BY <1>j DEF JobsBooks, StartsTell, StartTells, LateTell, Job, JobActions
<1>1. ASSUME NEW s \in Runs \ ChatRuns PROVE StartTells(s)'
  <2>1. StartTells(s)
    BY DEF JobsBooks, StartsTell
  <2>2. CASE s = r
    BY <1>0, <2>2 DEF StartTells
  <2>3. CASE s # r
    BY <2>1, <2>3 DEF StartTells
  <2> QED BY <2>2, <2>3
<1>2. StartsTell'
  BY <1>1 DEF StartsTell
<1>3. LateTell'
  BY <1>j, <1>0 DEF JobsBooks, LateTell, Job
<1>4. QueuedHasJob'
  BY <1>0 DEF JobsBooks, QueuedHasJob, Live, Runs
<1>5. DownAfterCrash'
  BY DEF DownAfterCrash
<1>6. JobsMatchRuns'
  BY <1>j, <1>0 DEF JobsBooks, JobsMatchRuns, Live, Job
<1> QED BY <1>2, <1>3, <1>4, <1>5, <1>6 DEF JobsBooks

LEMMA HttpKeepsJobs ==
  ASSUME JobsInv, TypeOK', sync.op = "none", tick # "down", Http, UNCHANGED crashes
  PROVE  JobsBooks'
<1>t. TypeOK /\ JobsBooks
  BY DEF JobsInv, IInv
<1>1. ASSUME NEW r \in Runs, PostRun(r) PROVE JobsBooks'
  <2>1. status[r] = "none" /\ \A s \in Runs : status'[s] = IF s = r THEN "queued" ELSE status[s]
    BY <1>t, <1>1 DEF PostRun, TypeOK
  <2>2. drv[r]["start"] = "off"
    BY <1>1, <1>t, <2>1, RunsAssumption DEF PostRun, JobsBooks, StartsTell, StartTells
  <2> QED BY <1>t, <1>1, <2>1, <2>2, PostKeepsJobs DEF PostRun, Commits
<1>2. ASSUME NEW r \in Runs, NEW d \in {"ticket", "mint"}, d = "mint" => r \in ChatRuns,
             status[r] = "none", status' = [status EXCEPT ![r] = "queued"],
             drv' = [drv EXCEPT ![r]["start"] = d], UNCHANGED <<jobs, tick, sync>>
      PROVE  JobsBooks'
  <2>1. /\ \A s \in Runs : status'[s] = IF s = r THEN "queued" ELSE status[s]
        /\ \A s \in Runs : drv'[s]["start"] = IF s = r THEN d ELSE drv[s]["start"]
    BY <1>t, <1>2 DEF TypeOK, JobActions
  <2> QED BY <1>t, <1>2, <2>1, PostKeepsJobs
<1>3. ASSUME NEW r \in Runs, PostTicketedRun(r) \/ PostChat(r) PROVE JobsBooks'
  BY <1>2, <1>3 DEF PostTicketedRun, PostChat
<1>4. ASSUME NEW c \in Cards, RejectNow(c) PROVE JobsBooks'
  <2>1. status[card[c].run] \notin {"none", "queued"}
    BY <1>4 DEF RejectNow, JobsInv, IInv, CardsAreOwned, RunStatus
  <2> QED BY <1>t, <1>4, <2>1, StillKeepsJobs DEF RejectNow, Decide, Commits, CommitTells
<1>5. ASSUME NEW q \in Requests, NEW c \in Cards, NEW approve \in BOOLEAN, CallDecide(q, c, approve)
      PROVE  JobsBooks'
  BY <1>t, <1>5, StillKeepsJobs DEF CallDecide, disk, CommitTells
<1> QED BY <1>1, <1>3, <1>4, <1>5 DEF Http

LEMMA AnswersKeepJobs ==
  ASSUME JobsInv, TypeOK', sync.op = "none", tick # "down", Answers, UNCHANGED crashes
  PROVE  JobsBooks'
<1>t. TypeOK /\ JobsBooks
  BY DEF JobsInv, IInv
<1> PICK q \in Requests : JiaotuDecides(q) \/ DecisionLands(q) \/ DecisionFails(q)
  BY DEF Answers
<1>1. CASE JiaotuDecides(q) \/ DecisionFails(q)
  BY <1>t, <1>1, StillKeepsJobs DEF JiaotuDecides, DecisionFails, disk, CommitTells
<1>2. CASE DecisionLands(q)
  <2>1. req[q].card \in Cards
    BY <1>t, <1>2 DEF DecisionLands, TypeOK, Call
  <2>2. card[req[q].card].status = "pending" => status[card[req[q].card].run] \notin {"none", "queued"}
    BY <2>1 DEF JobsInv, IInv, CardsAreOwned, RunStatus
  <2> QED BY <1>t, <1>2, <2>2, StillKeepsJobs DEF DecisionLands, Decide, Commits, CommitTells
<1> QED BY <1>1, <1>2

LEMMA MintedKeepsJobs ==
  ASSUME JobsInv, TypeOK', sync.op = "none", tick # "down", Minted, UNCHANGED crashes
  PROVE  JobsBooks'
<1> USE DEF JobActions
<1> PICK r \in Runs : \/ TicketMinted(r) \/ TicketMintFailed(r)
                      \/ StartMinted(r) \/ StartMintFailed(r)
                      \/ ResumeMinted(r) \/ ResumeMintFailed(r)
  BY DEF Minted
<1>t. TypeOK /\ JobsBooks
  BY DEF JobsInv, IInv
<1>1. CASE TicketMinted(r)
  <2>1. /\ drv[r]["start"] = "ticket" /\ r \notin ChatRuns /\ UNCHANGED jobs
        /\ sync' = [op |-> "enqueue", run |-> r, act |-> "start"]
    BY <1>1, RunsAssumption DEF TicketMinted, disk, Commits
  <2>2. status[r] = "queued"
    BY <1>t, <2>1 DEF JobsBooks, StartsTell, StartTells
  <2>3. Moves(r, "start", "off", hand[r]["start"], status[r])
    BY <1>t, <1>1, <2>1, MovesBy DEF TicketMinted, disk
  <2>4. CommitTells
    BY <2>1, <2>2, <2>3 DEF CommitTells, Moves
  <2> QED BY <1>t, <2>1, <2>2, <2>3, <2>4, MoveKeepsJobs
<1>2. CASE TicketMintFailed(r)
  <2>1. /\ drv[r]["start"] = "ticket" /\ r \notin ChatRuns /\ UNCHANGED jobs /\ sync' = sync
    BY <1>2, RunsAssumption DEF TicketMintFailed
  <2>2. status[r] = "queued"
    BY <1>t, <2>1 DEF JobsBooks, StartsTell, StartTells
  <2>3. Moves(r, "start", "off", hand[r]["start"], "failed")
    BY <1>t, <1>2, <2>1, <2>2, MovesBy DEF TicketMintFailed, FailUnTicketedRun, MayBecome, RUN_TRANSITIONS, RunStatus
  <2>4. CommitTells
    BY <2>1 DEF CommitTells
  <2> QED BY <1>t, <2>1, <2>2, <2>3, <2>4, MoveKeepsJobs
<1>3. ASSUME NEW a \in JobActions, drv[r][a] = "mint", Return(r, a), UNCHANGED <<jobs, tick>>,
             NEW st, (status' = status /\ st = status[r]) \/ status' = [status EXCEPT ![r] = st],
             st = status[r] \/ (st \notin {"none", "queued"} /\ status[r] # "none"),
             status[r] = "queued" /\ st # "queued" => a = "start",
             a = "start" => st # "queued" \/ r \in ChatRuns
      PROVE  JobsBooks'
  <2>1. Moves(r, a, "off", {}, st)
    BY <1>t, <1>3, ReturnMoves
  <2>2. CommitTells
    BY <1>3, <2>1, RunsAssumption DEF Return, Awaited, Commits, CommitTells, Moves
  <2> QED BY <1>t, <1>3, <2>1, <2>2, MoveKeepsJobs
<1>4. ASSUME NEW a \in JobActions, drv[r][a] = "mint", UNCHANGED <<jobs, tick, hand, sync>>,
             status[r] # "none", status[r] = "queued" => a = "start",
             drv' = [drv EXCEPT ![r][a] = "node"], status' = [status EXCEPT ![r] = "running"]
      PROVE  JobsBooks'
  <2>1. Moves(r, a, "node", hand[r][a], "running")
    BY <1>t, <1>4, MovesBy
  <2>2. CommitTells
    BY <1>4 DEF CommitTells
  <2> QED BY <1>t, <1>4, <2>1, <2>2, MoveKeepsJobs
<1>5. drv[r]["start"] = "mint" => status[r] # "none"
  <2>1. r \in ChatRuns /\ drv[r]["start"] = "mint" => status[r] # "none"
    BY DEF JobsInv, IInv, ChatStartsBare
  <2>2. r \notin ChatRuns /\ drv[r]["start"] = "mint" => status[r] # "none"
    BY <1>t DEF JobsBooks, StartsTell, StartTells
  <2> QED BY <2>1, <2>2
<1>6. CASE StartMinted(r)
  <2>1. drv[r]["start"] = "mint" /\ UNCHANGED <<jobs, tick>>
    BY <1>6 DEF StartMinted
  <2>2. CASE MayBecome(status[r], "running")
    <3>1. drv' = [drv EXCEPT ![r]["start"] = "node"] /\ status' = [status EXCEPT ![r] = "running"] /\ UNCHANGED <<hand, sync>>
      BY <1>6, <2>2 DEF StartMinted
    <3> QED BY <1>4, <1>5, <2>1, <3>1
  <2>3. CASE ~MayBecome(status[r], "running")
    <3>1. Return(r, "start") /\ status' = status /\ status[r] # "queued"
      BY <1>6, <2>3 DEF StartMinted, MayBecome, RUN_TRANSITIONS, RunStatus
    <3> QED BY <1>3, <1>5, <2>1, <3>1
  <2> QED BY <2>2, <2>3
<1>7. CASE StartMintFailed(r)
  <2>1. drv[r]["start"] = "mint" /\ UNCHANGED <<jobs, tick>> /\ Return(r, "start")
    BY <1>7 DEF StartMintFailed
  <2>2. CASE r \in ChatRuns
    <3>1. status' = status
      BY <1>7, <2>2 DEF StartMintFailed
    <3> QED BY <1>3, <1>5, <2>1, <2>2, <3>1
  <2>3. CASE r \notin ChatRuns /\ MayBecome(status[r], "running")
    <3>1. status' = [status EXCEPT ![r] = "failed"]
      BY <1>7, <2>3 DEF StartMintFailed, FailUnTicketedRun
    <3>2. "failed" \notin {"none", "queued"} /\ status[r] # "none"
      BY <1>5, <2>1
    <3> QED BY <1>3, <2>1, <3>1, <3>2
  <2>4. CASE r \notin ChatRuns /\ ~MayBecome(status[r], "running")
    <3>1. status' = status /\ status[r] # "queued"
      BY <1>7, <2>4 DEF StartMintFailed, FailUnTicketedRun, MayBecome, RUN_TRANSITIONS, RunStatus
    <3> QED BY <1>3, <1>5, <2>1, <3>1
  <2> QED BY <2>2, <2>3, <2>4
<1>8. CASE ResumeMinted(r)
  BY <1>3, <1>4, <1>8 DEF ResumeMinted
<1>9. CASE ResumeMintFailed(r)
  BY <1>3, <1>9 DEF ResumeMintFailed, disk
<1> QED BY <1>1, <1>2, <1>6, <1>7, <1>8, <1>9

LEMMA LoopKeepsJobs ==
  ASSUME JobsInv, TypeOK', sync.op = "none", tick # "down", Loop, UNCHANGED crashes
  PROVE  JobsBooks'
<1>t. TypeOK /\ JobsBooks
  BY DEF JobsInv, IInv
<1>1. ASSUME NEW S, ExpireApprovalCards(S), UNCHANGED <<jobs, drv>>, CommitTells, tick' # "down"
      PROVE  JobsBooks'
  <2>1. \A s \in Runs : /\ status'[s] = "none" <=> status[s] = "none"
                        /\ status'[s] = "queued" <=> status[s] = "queued"
    BY <1>1 DEF ExpireApprovalCards
  <2> QED BY <1>t, <1>1, <2>1, StillKeepsJobs
<1>2. CASE SweepExpired
  BY <1>1, <1>2 DEF SweepExpired, Commits, CommitTells
<1>3. ASSUME NEW x \in recon, ReconcileExpired(x) PROVE JobsBooks'
  BY <1>1, <1>3 DEF ReconcileExpired, ReconcileNext, Commits, CommitTells
<1>4. ASSUME BatchSettled \/ \E x \in recon : ReconcileSkip(x)
      PROVE  JobsBooks'
  BY <1>t, <1>4, StillKeepsJobs DEF BatchSettled, ReconcileSkip, ReconcileNext, Commits, disk, CommitTells
<1> QED BY <1>2, <1>3, <1>4 DEF Loop

LEMMA DriverKeepsJobs ==
  ASSUME JobsInv, TypeOK', sync.op = "none", tick # "down", UNCHANGED crashes,
         NEW r \in Runs, NEW a \in JobActions, Driver(r, a)
  PROVE  JobsBooks'
<1>t. TypeOK /\ JobsBooks /\ OneDriver
  BY DEF JobsInv, IInv
<1>m. ASSUME NEW d, NEW C, NEW st, Moves(r, a, d, C, st), d # "ticket",
             status[r] = "running", st \notin {"none", "queued"}, drv[r][a] # "off",
             UNCHANGED jobs, CommitTells
      PROVE  JobsBooks'
  BY <1>t, <1>m, MoveKeepsJobs
<1>c. ASSUME Return(r, a), status'[r] # "queued" PROVE CommitTells
  BY <1>c DEF Return, Commits, CommitTells
<1>1. CASE WorkNode(r, a) \/ SkipRejected(r, a) \/ ActReturned(r, a)
  <2>1. NodeExit(r, a) /\ status[r] = "running" /\ UNCHANGED <<jobs, tick>> /\ drv[r][a] # "off"
    BY <1>t, <1>1 DEF WorkNode, SkipRejected, ActReturned, AtNode, OneDriver, Inside
  <2>2. Moves(r, a, "off", {}, "completed") \/ Moves(r, a, "node", {}, "running")
    BY <1>t, <2>1, NodeExitMoves
  <2>3. status'[r] # "queued"
    BY <2>2 DEF Moves
  <2>4. CommitTells
    BY <1>c, <2>1, <2>3 DEF NodeExit, CommitTells
  <2> QED BY <1>m, <2>1, <2>2, <2>4
<1>2. CASE WorkNodeThrows(r, a) \/ GateDeny(r, a) \/ ActThrows(r, a)
  <2>1. Kill(r, a) /\ status[r] = "running" /\ UNCHANGED <<jobs, tick>> /\ drv[r][a] # "off"
    BY <1>t, <1>2 DEF WorkNodeThrows, GateDeny, ActThrows, AtNode, OneDriver, Inside
  <2>2. Moves(r, a, "off", {}, "failed")
    BY <1>t, <2>1, KillMoves
  <2>3. CommitTells
    BY <1>c, <2>1, <2>2 DEF Kill, Moves
  <2> QED BY <1>m, <2>1, <2>2, <2>3
<1>3. CASE OpenApprovalCard(r, a) \/ InterruptAgain(r, a)
  <2>1. /\ status' = [status EXCEPT ![r] = "awaiting_approval"] /\ \E D : Suspend(r, a, D)
        /\ status[r] = "running" /\ UNCHANGED <<jobs, tick>> /\ drv[r][a] # "off"
    BY <1>t, <1>3 DEF OpenApprovalCard, InterruptAgain, AtNode, OneDriver, Inside,
       Move, MayBecome, RUN_TRANSITIONS, RunStatus
  <2>2. PICK d \in {"off", "declare"}, C \in SUBSET Cards : Moves(r, a, d, C, "awaiting_approval")
    BY <1>t, <2>1, SuspendMoves
  <2>3. CommitTells
    BY <1>c, <2>1, <2>2 DEF Suspend, Moves, CommitTells
  <2> QED BY <1>m, <2>1, <2>2, <2>3
<1>4. CASE LookUpBurn(r, a) \/ GatePass(r, a) \/ Act(r, a)
  <2>1. /\ status[r] = "running" /\ status' = status /\ UNCHANGED <<jobs, tick, sync>>
        /\ drv[r][a] # "off"
    BY <1>t, <1>4 DEF LookUpBurn, GatePass, Act, AtNode, OneDriver, Inside, disk
  <2>2. PICK d \in {"gate", "act", "acted"} : drv' = [drv EXCEPT ![r][a] = d]
    BY <1>4 DEF LookUpBurn, GatePass, Act
  <2>3. hand' = hand \/ \E C : hand' = [hand EXCEPT ![r][a] = C]
    BY <1>4 DEF LookUpBurn, GatePass, Act
  <2>4. \E C : Moves(r, a, d, C, "running")
    BY <1>t, <2>1, <2>2, <2>3, MovesBy
  <2> QED BY <1>m, <2>1, <2>4 DEF CommitTells
<1>5. CASE Declared(r, a)
  <2>1. /\ drv[r][a] = "declare" /\ status' = status /\ UNCHANGED <<jobs, tick>>
    BY <1>5 DEF Declared, disk
  <2>2. CASE Return(r, a)
    <3>1. Moves(r, a, "off", {}, status[r])
      BY <1>t, <2>1, <2>2, ReturnMoves
    <3>2. a = "start" => status[r] # "queued" \/ r \in ChatRuns
      BY <1>t, <2>1 DEF JobsBooks, StartsTell, StartTells
    <3>3. CommitTells
      BY <2>1, <2>2, <3>2, RunsAssumption DEF Awaited, Return, Commits, CommitTells
    <3> QED BY <1>t, <2>1, <3>1, <3>2, <3>3, MoveKeepsJobs
  <2>3. CASE ~Return(r, a)
    <3>1. UNCHANGED <<drv, sync>>
      BY <1>5, <2>3 DEF Declared
    <3> QED BY <1>t, <2>1, <3>1, StillKeepsJobs DEF CommitTells
  <2> QED BY <2>2, <2>3
<1> QED BY <1>1, <1>2, <1>3, <1>4, <1>5 DEF Driver

LEMMA EnqueueKeepsJobs ==
  ASSUME JobsInv, EnqueueCommit
  PROVE  JobsBooks'
<1> DEFINE new == [run |-> sync.run, action |-> sync.act, state |-> "pending"]
<1>1. UNCHANGED <<status, drv, tick, crashes>> /\ sync' = NoSync /\ NoSync.op = "none"
  BY DEF EnqueueCommit, NoSync
<1>2. (jobs' = jobs /\ sync.act = "resume" /\ \E i \in DOMAIN jobs : jobs[i].run = sync.run) \/ jobs' = Append(jobs, new)
  BY DEF EnqueueCommit, EnqueueRunJob
<1>3. jobs \in Seq(Job) /\ Len(jobs) \in Nat /\ DOMAIN jobs = 1 .. Len(jobs) /\ sync \in Commit
  BY DEF JobsInv, IInv, TypeOK
<1>4. \A i \in DOMAIN jobs' : \/ i \in DOMAIN jobs /\ jobs'[i] = jobs[i]
                              \/ i = Len(jobs) + 1 /\ jobs'[i] = new
  BY <1>2, <1>3
<1>5. \A i \in DOMAIN jobs : i \in DOMAIN jobs' /\ jobs'[i] = jobs[i] /\ i # Len(jobs) + 1
  BY <1>2, <1>3
<1>6. sync.act = "start" => Len(jobs) + 1 \in DOMAIN jobs' /\ jobs'[Len(jobs) + 1] = new
  BY <1>2, <1>3
<1>7. sync.op = "enqueue" /\ sync.run \in Runs /\ sync.act \in JobActions /\ (sync.act = "start" => sync.run \notin ChatRuns)
  BY <1>3, RunsAssumption DEF EnqueueCommit, Commit
<1>8. new.run = sync.run /\ new.action = sync.act /\ new.state = "pending"
  OBVIOUS
<1> HIDE DEF new
<1>9. StartsTell /\ LateTell /\ QueuedHasJob /\ DownAfterCrash /\ JobsMatchRuns
  BY DEF JobsInv, JobsBooks
<1>10. ASSUME NEW r \in Runs \ ChatRuns PROVE StartTells(r)'
  <2>1. StartTells(r)
    BY <1>9 DEF StartsTell
  <2>2. CASE sync.run = r /\ sync.act = "start"
    <3>1. \A i \in DOMAIN jobs' : jobs'[i].run = r /\ jobs'[i].action = "start" => i = Len(jobs) + 1
      BY <1>4, <1>7, <2>1, <2>2 DEF StartTells
    <3>2. status[r] = "queued" /\ drv[r]["start"] = "off"
      BY <1>7, <2>1, <2>2 DEF StartTells
    <3> QED BY <1>1, <3>1, <3>2 DEF StartTells
  <2>3. CASE ~(sync.run = r /\ sync.act = "start")
    <3>1. \A i \in DOMAIN jobs' : jobs'[i].run = r /\ jobs'[i].action = "start" => i \in DOMAIN jobs /\ jobs'[i] = jobs[i]
      BY <1>4, <1>8, <2>3
    <3> QED BY <1>1, <1>7, <2>1, <2>3, <3>1 DEF StartTells
  <2> QED BY <2>2, <2>3
<1>11. StartsTell'
  BY <1>10 DEF StartsTell
<1>12. LateTell'
  BY <1>1, <1>4, <1>7, <1>8, <1>9 DEF LateTell
<1>13. ASSUME NEW r \in QueueRuns, status[r] = "queued", NEW i \in DOMAIN jobs', jobs'[i].run = r
       PROVE  \E k \in DOMAIN jobs' : jobs'[k].run = r /\ jobs'[k].action = "start" /\ jobs'[k].state # "done"
  <2>1. CASE \E k \in DOMAIN jobs : jobs[k].run = r
    <3>1. PICK k \in DOMAIN jobs : jobs[k].run = r /\ jobs[k].action = "start" /\ jobs[k].state # "done"
      BY <1>9, <1>13, <2>1 DEF QueuedHasJob, Live
    <3> QED BY <1>5, <3>1
  <2>2. CASE ~\E k \in DOMAIN jobs : jobs[k].run = r
    <3>1. jobs'[i] = new /\ sync.run = r
      BY <1>4, <1>8, <1>13, <2>2
    <3>2. sync.act = "start"
      BY <1>7, <1>9, <1>13, <3>1 DEF LateTell, JobActions
    <3> QED BY <1>8, <1>13, <3>1, <3>2
  <2> QED BY <2>1, <2>2
<1>14. QueuedHasJob'
  BY <1>1, <1>13 DEF QueuedHasJob, Live
<1>15. DownAfterCrash'
  BY <1>1, <1>9 DEF DownAfterCrash
<1>16. ASSUME NEW r \in Runs \ ChatRuns, status[r] = "queued", tick # "down"
       PROVE  \/ crashes > 0 /\ (r \in ParkedRuns \/ ~\E i \in DOMAIN jobs' : jobs'[i].run = r)
              \/ \E i \in DOMAIN jobs' : jobs'[i].run = r /\ jobs'[i].state # "done"
              \/ drv[r]["start"] \in {"ticket", "mint"}
  <2>1. CASE sync.run = r
    <3>1. sync.act = "start"
      BY <1>7, <1>9, <1>16, <2>1 DEF LateTell, JobActions
    <3> QED BY <1>6, <1>8, <2>1, <3>1
  <2>2. CASE sync.run # r
    <3>1. \/ crashes > 0 /\ (r \in ParkedRuns \/ ~\E i \in DOMAIN jobs : jobs[i].run = r)
          \/ \E i \in DOMAIN jobs : jobs[i].run = r /\ jobs[i].state # "done"
          \/ drv[r]["start"] \in {"ticket", "mint"}
      BY <1>9, <1>16, <2>2 DEF JobsMatchRuns, Live
    <3> QED BY <1>4, <1>5, <1>8, <2>2, <3>1
  <2> QED BY <2>1, <2>2
<1>17. ASSUME tick # "down", crashes = 0, NEW i \in DOMAIN jobs', jobs'[i].action = "start", jobs'[i].state = "pending"
       PROVE  status[jobs'[i].run] = "queued"
  <2>1. CASE i \in DOMAIN jobs /\ jobs'[i] = jobs[i]
    BY <1>9, <1>17, <2>1 DEF JobsMatchRuns
  <2>2. CASE jobs'[i] = new
    BY <1>7, <1>8, <1>9, <1>17, <2>2 DEF StartsTell, StartTells
  <2> QED BY <1>4, <2>1, <2>2
<1>18. JobsMatchRuns'
  BY <1>1, <1>16, <1>17 DEF JobsMatchRuns, Live
<1> QED BY <1>11, <1>12, <1>14, <1>15, <1>18 DEF JobsBooks

\* steps that only change states of jobs, none back to pending
LEMMA JobsGoOn ==
  ASSUME JobsBooks, DOMAIN jobs' = DOMAIN jobs, \A i \in DOMAIN jobs : jobs[i] \in Job, UNCHANGED <<status, crashes>>,
         tick # "down", tick' # "down", sync' = NoSync, sync.op # "enqueue",
         \A i \in DOMAIN jobs : /\ jobs'[i].run = jobs[i].run /\ jobs'[i].action = jobs[i].action
                                /\ jobs'[i].state = "pending" => jobs[i].state = "pending",
         \A r \in Runs \ ChatRuns :
            \/ drv'[r]["start"] = drv[r]["start"]
            \/ /\ drv'[r]["start"] = "mint"
               /\ \E i \in DOMAIN jobs : jobs[i].run = r /\ jobs[i].action = "start" /\ jobs'[i].state # "pending",
         \A i \in DOMAIN jobs :
            /\ jobs[i].action = "start" /\ jobs[i].state # "done" /\ jobs'[i].state = "done"
            /\ status[jobs[i].run] = "queued"
            => drv'[jobs[i].run]["start"] = "mint" /\ jobs[i].run \notin QueueRuns
  PROVE  JobsBooks'
<1>0. StartsTell /\ LateTell /\ QueuedHasJob /\ DownAfterCrash /\ JobsMatchRuns /\ NoSync.op = "none"
  BY DEF JobsBooks, NoSync
<1>1. ASSUME NEW r \in Runs \ ChatRuns PROVE StartTells(r)'
  <2>1. StartTells(r)
    BY <1>0 DEF StartsTell
  <2>2. CASE drv'[r]["start"] = drv[r]["start"]
    BY <1>0, <2>1, <2>2 DEF StartTells
  <2>3. CASE drv'[r]["start"] # drv[r]["start"]
    <3>1. PICK i \in DOMAIN jobs : jobs[i].run = r /\ jobs[i].action = "start" /\ jobs'[i].state # "pending"
      BY <2>3
    <3>2. status[r] # "none" /\ drv'[r]["start"] = "mint"
      BY <2>1, <2>3, <3>1 DEF StartTells
    <3> QED BY <1>0, <2>1, <3>1, <3>2 DEF StartTells
  <2> QED BY <2>2, <2>3
<1>2. StartsTell'
  BY <1>1 DEF StartsTell
<1>3. LateTell'
  BY <1>0 DEF LateTell
<1>4. QueuedHasJob'
  BY <1>0 DEF QueuedHasJob, Live
<1>5. DownAfterCrash'
  BY DEF DownAfterCrash
<1>6. ASSUME NEW r \in Runs \ ChatRuns, status[r] = "queued"
      PROVE  \/ crashes > 0 /\ (r \in ParkedRuns \/ ~\E i \in DOMAIN jobs' : jobs'[i].run = r)
             \/ \E i \in DOMAIN jobs' : jobs'[i].run = r /\ jobs'[i].state # "done"
             \/ drv'[r]["start"] \in {"ticket", "mint"}
  <2>1. \/ crashes > 0 /\ (r \in ParkedRuns \/ ~\E i \in DOMAIN jobs : jobs[i].run = r)
        \/ \E i \in DOMAIN jobs : jobs[i].run = r /\ jobs[i].state # "done"
        \/ drv[r]["start"] \in {"ticket", "mint"}
    BY <1>0, <1>6 DEF JobsMatchRuns, Live
  <2>2. ASSUME NEW i \in DOMAIN jobs, jobs[i].run = r, jobs[i].state # "done", jobs'[i].state = "done"
        PROVE  drv'[r]["start"] = "mint"
    BY <1>0, <1>6, <2>2 DEF LateTell, Job, JobActions
  <2> QED BY <2>1, <2>2
<1>7. JobsMatchRuns'
  BY <1>0, <1>6 DEF JobsMatchRuns, Live
<1> QED BY <1>2, <1>3, <1>4, <1>5, <1>7 DEF JobsBooks

LEMMA CompleteKeepsJobs ==
  ASSUME JobsInv, CompleteRunJob
  PROVE  JobsBooks'
<1>1. \A i \in DOMAIN jobs : jobs[i] \in Job
  BY LenProperties, ElementOfSeq DEF JobsInv, IInv, TypeOK
<1>2. /\ UNCHANGED <<status, drv, tick, crashes>> /\ sync.op = "complete" /\ sync' = NoSync /\ DOMAIN jobs' = DOMAIN jobs
      /\ tick # "down" /\ JobsBooks
  BY DEF CompleteRunJob, SetJobs, JobsInv, IInv, DownIsQuiet, NoSync
<1>3. \A i \in DOMAIN jobs :
        /\ jobs'[i].run = jobs[i].run /\ jobs'[i].action = jobs[i].action
        /\ \/ jobs'[i].state = jobs[i].state
           \/ jobs'[i].state = "done" /\ jobs[i].run = sync.run /\ jobs[i].action = sync.act
  BY <1>1 DEF CompleteRunJob, SetJobs, Job
<1>4. sync.act = "start" => status[sync.run] # "queued"
  BY <1>2 DEF JobsBooks, LateTell
<1> QED BY <1>1, <1>2, <1>3, <1>4, JobsGoOn

LEMMA ClaimKeepsJobs ==
  ASSUME JobsInv, ClaimRunJobs
  PROVE  JobsBooks'
<1>1. /\ UNCHANGED <<status, crashes>> /\ tick = "claim" /\ tick' = "batch" /\ sync.op = "claim" /\ sync' = NoSync
      /\ DOMAIN jobs' = DOMAIN jobs /\ JobsBooks
  BY DEF ClaimRunJobs, JobsInv, IInv, RoundsAreSerial
<1>2. \A i \in DOMAIN jobs : jobs[i] \in Job
  BY LenProperties, ElementOfSeq DEF JobsInv, IInv, TypeOK
<1>3. \A i \in Claimable : i \in DOMAIN jobs /\ jobs[i].state = "pending"
  BY DEF Claimable
<1>4. \A i \in DOMAIN jobs :
        /\ jobs'[i].run = jobs[i].run /\ jobs'[i].action = jobs[i].action
        /\ i \notin Claimable => jobs'[i] = jobs[i]
        /\ i \in Claimable => jobs'[i].state # "pending"
  BY <1>2 DEF ClaimRunJobs, Job
<1>5. \A r \in Runs :
        \/ drv'[r]["start"] = drv[r]["start"]
        \/ drv'[r]["start"] = "mint" /\ \E i \in Claimable : jobs[i].run = r /\ jobs[i].action = "start"
  BY DEF ClaimRunJobs, JobActions
<1>6. ASSUME NEW i \in Claimable, jobs[i].action = "start"
      PROVE  /\ drv'[jobs[i].run]["start"] = "mint"
             /\ jobs[i].run \in QueueRuns => jobs'[i].state = "claimed"
  <2>1. jobs[i].run \in Runs /\ i \in DOMAIN jobs
    BY <1>2, <1>3 DEF Job
  <2>2. drv'[jobs[i].run]["start"] = "mint"
    BY <1>6, <2>1 DEF ClaimRunJobs, JobActions
  <2>3. jobs[i].run \in QueueRuns => jobs'[i].state = "claimed"
    BY <1>2, <1>6, <2>1 DEF ClaimRunJobs, Awaited, Job
  <2> QED BY <2>2, <2>3
<1>7. ASSUME NEW i \in DOMAIN jobs, jobs[i].action = "start", jobs[i].state # "done", jobs'[i].state = "done"
      PROVE  drv'[jobs[i].run]["start"] = "mint" /\ jobs[i].run \notin QueueRuns
  BY <1>4, <1>6, <1>7
<1>8. \A r \in Runs :
        \/ drv'[r]["start"] = drv[r]["start"]
        \/ /\ drv'[r]["start"] = "mint"
           /\ \E i \in DOMAIN jobs : jobs[i].run = r /\ jobs[i].action = "start" /\ jobs'[i].state # "pending"
  BY <1>3, <1>4, <1>5
<1>9. \A i \in DOMAIN jobs : /\ jobs'[i].run = jobs[i].run /\ jobs'[i].action = jobs[i].action
                             /\ jobs'[i].state = "pending" => jobs[i].state = "pending"
  BY <1>4
<1>10. tick # "down" /\ tick' # "down" /\ sync.op # "enqueue"
  BY <1>1
<1> QED BY <1>1, <1>2, <1>7, <1>8, <1>9, <1>10, JobsGoOn

LEMMA RestartKeepsJobs ==
  ASSUME JobsInv, Crash \/ Recover
  PROVE  JobsBooks'
<1>0. StartsTell /\ LateTell /\ QueuedHasJob /\ DownAfterCrash /\ NoSync.op = "none"
  BY DEF JobsInv, JobsBooks, NoSync
<1>1. CASE Crash
  <2>1. UNCHANGED <<status, jobs>> /\ sync'.op = "none" /\ tick' = "down" /\ \A r \in Runs : drv'[r]["start"] = "off"
    BY <1>0, <1>1 DEF Crash, disk, JobActions
  <2>2. StartsTell'
    BY <1>0, <2>1 DEF StartsTell, StartTells
  <2>3. LateTell' /\ QueuedHasJob' /\ JobsMatchRuns'
    BY <1>0, <2>1 DEF LateTell, QueuedHasJob, JobsMatchRuns, Live
  <2>4. DownAfterCrash'
    BY <1>1 DEF Crash, DownAfterCrash, JobsInv, IInv, TypeOK
  <2> QED BY <2>2, <2>3, <2>4 DEF JobsBooks
<1>2. CASE Recover
  <2>1. \A i \in DOMAIN jobs : jobs[i] \in Job
    BY LenProperties, ElementOfSeq DEF JobsInv, IInv, TypeOK
  <2>2. /\ sync'.op = "none" /\ tick' # "down" /\ crashes' = crashes /\ crashes # 0 /\ crashes \in Nat
        /\ DOMAIN jobs' = DOMAIN jobs
        /\ \A r \in Runs : drv'[r]["start"] = "off" /\ status'[r] = IF status[r] = "running" THEN "failed" ELSE status[r]
    BY <1>0, <1>2 DEF Recover, JobsInv, IInv, DownIsQuiet, DownAfterCrash, TypeOK, JobActions, NoSync
  <2>3. \A i \in DOMAIN jobs :
          /\ jobs'[i].run = jobs[i].run /\ jobs'[i].action = jobs[i].action
          /\ jobs'[i].state = "done" => jobs[i].state = "done" \/ status[jobs[i].run] = "running"
    BY <1>2, <2>1 DEF Recover, Job
  <2>4. StartsTell'
    BY <1>0, <2>2, <2>3 DEF StartsTell, StartTells
  <2>5. LateTell'
    BY <1>0, <2>1, <2>2, <2>3 DEF LateTell, Job
  <2>6. QueuedHasJob'
    BY <1>0, <2>2, <2>3 DEF QueuedHasJob, Live, Runs
  <2>7. DownAfterCrash'
    BY <2>2 DEF DownAfterCrash
  <2>8. ASSUME NEW r \in Runs \ ChatRuns, status'[r] = "queued", r \notin ParkedRuns
        PROVE  \/ ~\E i \in DOMAIN jobs' : jobs'[i].run = r
               \/ \E i \in DOMAIN jobs' : jobs'[i].run = r /\ Live(jobs'[i])
    BY <2>6, <2>8 DEF QueuedHasJob, Live, Runs
  <2>9. JobsMatchRuns'
    <3>1. crashes' > 0 /\ crashes' # 0
      BY <2>2
    <3> QED BY <2>8, <3>1 DEF JobsMatchRuns, Live
  <2> QED BY <2>4, <2>5, <2>6, <2>7, <2>9 DEF JobsBooks
<1> QED BY <1>1, <1>2

LEMMA JobsStep ==
  ASSUME JobsInv, [Next]_vars
  PROVE  JobsInv'
<1>0. TypeOK' /\ IInv'
  BY TypeStep, InvStep DEF JobsInv, IInv
<1>1. CASE Segment
  BY <1>0, <1>1, EnqueueKeepsJobs, CompleteKeepsJobs, ClaimKeepsJobs DEF Segment, JobsInv
<1>2. CASE Alive
  <2>1. (Http \/ Answers \/ Minted) => UNCHANGED crashes
    BY DEF Http, Answers, Minted, PostRun, PostTicketedRun, PostChat, RejectNow, CallDecide, JiaotuDecides,
       DecisionLands, DecisionFails, TicketMinted, TicketMintFailed, StartMinted, StartMintFailed,
       ResumeMinted, ResumeMintFailed
  <2>2. Loop => UNCHANGED crashes
    BY DEF Loop, SweepExpired, BatchSettled, ReconcileExpired, ReconcileSkip
  <2>3. ASSUME NEW r \in Runs, NEW a \in JobActions, Driver(r, a) PROVE UNCHANGED crashes
    BY <2>3 DEF Driver, WorkNode, WorkNodeThrows, OpenApprovalCard, InterruptAgain, SkipRejected, LookUpBurn,
       GatePass, GateDeny, Act, ActThrows, ActReturned, Declared
  <2> QED BY <1>0, <1>2, <2>1, <2>2, <2>3, HttpKeepsJobs, AnswersKeepJobs, MintedKeepsJobs, LoopKeepsJobs, DriverKeepsJobs
          DEF Alive, JobsInv
<1>3. CASE Environment \/ UNCHANGED vars
  <2>1. UNCHANGED <<status, jobs, drv, tick, sync, crashes>>
    BY <1>3 DEF Environment, BurnSettles, JiaotuExpires, Age, disk, process, vars
  <2>2. JobsBooks'
    <3>1. StartsTell'
      BY <2>1 DEF JobsInv, JobsBooks, StartsTell, StartTells
    <3>2. LateTell' /\ QueuedHasJob' /\ DownAfterCrash' /\ JobsMatchRuns'
      BY <2>1 DEF JobsInv, JobsBooks, LateTell, QueuedHasJob, DownAfterCrash, JobsMatchRuns, Live
    <3> QED BY <3>1, <3>2 DEF JobsBooks
  <2> QED BY <1>0, <2>2 DEF JobsInv
<1>4. CASE Crash \/ Recover
  BY <1>0, <1>4, RestartKeepsJobs DEF JobsInv
<1> QED BY <1>1, <1>2, <1>3, <1>4 DEF Next

LEMMA JobsInit == Init => JobsBooks
BY DEF Init, JobsBooks, StartsTell, StartTells, LateTell, QueuedHasJob, DownAfterCrash, JobsMatchRuns, NoSync, Runs, JobActions

-----------------------------------------------------------------------------
(* The theorems *)

\* The inductive invariant holds in every reachable state.
THEOREM InvHolds == Spec => []IInv
<1>1. IInv /\ [Next]_vars => IInv'
  BY InvStep
<1> QED BY InvInit, <1>1, PTL DEF Spec

\* However many start and resume jobs a restart puts back, and however the mints
\* they await overlap, a run has one driver at a time.
THEOREM OneDriverHolds == Spec => []OneDriver
<1>1. IInv => OneDriver
  BY DEF IInv
<1> QED BY InvHolds, <1>1, PTL

\* No card's action takes effect twice.
THEOREM EffectOnceHolds == Spec => []EffectOnce
<1>1. IInv => EffectOnce
  <2> SUFFICES ASSUME IInv, NEW c \in Cards PROVE effects[c] <= 1
    BY DEF EffectOnce
  <2>1. effects[c] \in Nat /\ (effects[c] # 0 => effects[c] = 1)
    BY DEF IInv, TypeOK, EffectIsAccounted
  <2> QED BY <2>1
<1> QED BY InvHolds, <1>1, PTL

\* No action takes effect on a card that is not approved, then or later.
THEOREM EffectDecidedHolds == Spec => []EffectDecided
<1>1. IInv => EffectDecided
  <2> SUFFICES ASSUME IInv, NEW c \in Cards, effects[c] > 0 PROVE card[c].status = "approved"
    BY DEF EffectDecided
  <2>1. effects[c] # 0
    BY DEF IInv, TypeOK
  <2> QED BY <2>1 DEF IInv, EffectIsAccounted
<1> QED BY InvHolds, <1>1, PTL

\* The run of an expired card is over and stays over.
THEOREM ExpiryEndsRunHolds == Spec => []ExpiryEndsRun
<1>1. IInv => ExpiryEndsRun
  BY DEF IInv
<1> QED BY InvHolds, <1>1, PTL

\* The dispatcher keeps the promise of ApprovalOnce: its initial state and each of its
\* steps, or none, seen through the cards, their effects and the runs that are over.
THEOREM PromiseHolds == Spec => ImplementsApprovalOnce
<1>1. IInv /\ [Next]_vars => [Once!Next]_(Once!ovars)
  BY StepPromised
<1> QED BY InitPromised, InvHolds, <1>1, PTL DEF Spec, ImplementsApprovalOnce, Once!Spec

\* No card is approved or rejected here that was not at the external gateway, whatever
\* answers are lost and whoever expires it first.
THEOREM MirrorFollowsHolds == Spec => []MirrorFollowsJiaotu
<1>1. MirrorInv /\ [Next]_vars => MirrorInv'
  <2>1. CASE External
    BY <2>1, MirrorStep, TypeStep DEF MirrorInv
  <2>2. CASE ~External
    BY <2>2, TypeStep DEF MirrorInv, CallsKnowJiaotu, MirrorFollowsJiaotu
  <2> QED BY <2>1, <2>2
<1>2. Init => MirrorInv
  BY TypeInit, MirrorInit DEF MirrorInv
<1>3. MirrorInv => MirrorFollowsJiaotu
  BY DEF MirrorInv
<1> QED BY <1>1, <1>2, <1>3, PTL DEF Spec

\* While the process lives no run is running without a driver, however often it was
\* restarted and whichever jobs were replayed.
THEOREM NoOrphanRunHolds == Spec => []NoOrphanRun
<1>1. DrivenInv /\ [Next]_vars => DrivenInv'
  BY DrivenStep
<1>2. Init => DrivenInv
  BY InvInit, DrivenInit DEF DrivenInv
<1>3. DrivenInv => NoOrphanRun
  BY DEF DrivenInv
<1> QED BY <1>1, <1>2, <1>3, PTL DEF Spec

\* The runs that are queued and the start jobs still to be executed belong to each other,
\* in every reachable state, for any kinds of runs, batch size and number of crashes.
THEOREM JobsMatchRunsHolds == Spec => []JobsMatchRuns
<1>1. JobsInv /\ [Next]_vars => JobsInv'
  BY JobsStep
<1>2. Init => JobsInv
  BY InvInit, JobsInit DEF JobsInv
<1>3. JobsInv => JobsMatchRuns
  BY DEF JobsInv, JobsBooks
<1> QED BY <1>1, <1>2, <1>3, PTL DEF Spec

=============================================================================
