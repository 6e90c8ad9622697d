---------------------------- MODULE RunDispatcher ----------------------------
(***************************************************************************)
(* The run dispatcher of the agent service (run-dispatcher.ts), with the   *)
(* drivers it starts (graph.ts, app.ts), the approval cards they open      *)
(* (approvals.ts) and the HTTP calls that decide them (app.ts).            *)
(*                                                                         *)
(* The service is one JavaScript thread over one SQLite file.  An action   *)
(* is what the thread does between two awaits, except where one such       *)
(* segment commits more than once: then `sync' holds the commit still to   *)
(* be made, nothing else of the service can run before it, and a crash     *)
(* can fall in between.                                                    *)
(*                                                                         *)
(* A driver is one execution of a run: executeStartJob, executeResumeJob   *)
(* or the synchronous launchChatRun.  A run has at most one of each kind,  *)
(* so drivers are indexed by run and kind.                                 *)
(***************************************************************************)
EXTENDS Naturals, Sequences, FiniteSets, RunStates

CONSTANTS
  QueueRuns,     \* runs of the kinds that POST /internal/runs queues
  ParkedRuns,    \* runs of a kind whose registry entry says parksOnEvents
  TicketedRuns,  \* queued runs whose ticket the POST mints itself (hunt_task)
  Children,      \* the ticketed runs a parked run posts and waits for
  ChatRuns,      \* chat_flow runs: executed inside the request, never queued
  Flow,          \* each run's nodes in order, "work" or "l2" (executeApproved)
  FreshParams,   \* runs whose L2 parameters are made anew by every start
  Cards,         \* ids that openApprovalCard may draw
  Requests,      \* approve and reject calls that can be in flight at once
  RUN_DISPATCH,  \* jobs claimed per round
  External,      \* approvals are decided at the external gateway (JiaoTu g4)
  MintFails,     \* the ticket gateway may refuse to mint
  MaxCrashes,    \* bound on process crashes
  NoRun, NoCard

Runs == QueueRuns \cup ParkedRuns \cup ChatRuns
JobActions == {"start", "resume"}

ASSUME RunsAssumption ==
  /\ QueueRuns \cap ParkedRuns = {}
  /\ QueueRuns \cap ChatRuns = {}
  /\ ParkedRuns \cap ChatRuns = {}
  /\ NoRun \notin Runs /\ NoCard \notin Cards
  /\ FreshParams \subseteq Runs
  /\ TicketedRuns \subseteq QueueRuns
  /\ Children \in [ParkedRuns -> SUBSET TicketedRuns]
ASSUME FlowAssumption ==
  /\ Flow \in [Runs -> Seq({"work", "l2"})]
  /\ \A r \in Runs : Len(Flow[r]) > 0
  \* no node of a parked kind (hunt_flow) calls executeApproved
  /\ \A r \in ParkedRuns : \A i \in 1 .. Len(Flow[r]) : Flow[r][i] = "work"
ASSUME BoundsAssumption ==
  /\ RUN_DISPATCH \in Nat \ {0}
  /\ External \in BOOLEAN /\ MintFails \in BOOLEAN
  /\ MaxCrashes \in Nat

VARIABLES
  (* SQLite: survives a crash *)
  status,   \* runs.status, "none" before the row exists
  pos,      \* nodes of the run's flow whose checkpoint is sealed
  gen,      \* how often the flow was started from its first node
  jobs,     \* run_jobs, in id order
  card,     \* approvals
  (* the process: lost in a crash *)
  drv,      \* where each driver is
  hand,     \* the cards a driver has in hand
  tick,     \* what the dispatcher loop is doing
  recon,    \* requests the current round has yet to reconcile
  req,      \* approve and reject calls in flight
  sync,     \* the commit the running segment has yet to make
  (* other services *)
  burning,  \* burn calls in flight
  used,     \* tokens burnt at the case backend (used_tokens)
  jiaotu,   \* each card's requests at the external gateway, the last of which
            \* approvals.external_approval_id names
  effects,  \* how often a card's action took effect
  (* time and faults *)
  aged,     \* cards older than the approval TTL
  crashes

disk    == <<status, pos, gen, jobs, card>>
process == <<drv, hand, tick, recon, req, sync>>
remote  == <<burning, used, jiaotu, effects>>
vars    == <<status, pos, gen, jobs, card, drv, hand, tick, recon, req, sync,
             burning, used, jiaotu, effects, aged, crashes>>

Job == {j \in [run : Runs, action : JobActions, state : {"pending", "claimed", "done"}] :
          j.action = "start" => j.run \notin ChatRuns}
Card == {k \in [run : Runs \cup {NoRun}, gen : Nat,
                status : ApprovalStatus \cup {"none"}, executed : BOOLEAN] :
           k.status = "none" <=> k.run = NoRun}
\* ticket: the POST awaits the ticket the start job will carry; mint: the
\* execution awaits its own; node: in a node; gate: awaiting the burn
\* lookup; act: the action is under way; acted: it took effect and the answer
\* is due; declare: awaiting the external gateway's receipt of a card
DriverState == {"off", "ticket", "mint", "node", "gate", "act", "acted", "declare"}
Call == {q \in [pc : {"idle", "sent", "answered"}, card : Cards \cup {NoCard},
               ext : Nat, approve : BOOLEAN] : q.pc # "idle" => q.card \in Cards}
Commit == {s \in [op : {"none", "enqueue", "complete", "claim"},
                  run : Runs \cup {NoRun}, act : JobActions] :
             /\ s.op \in {"enqueue", "complete"} <=> s.run # NoRun
             /\ s.op = "enqueue" /\ s.act = "start" => s.run \notin ChatRuns}

NoCall == [pc |-> "idle", card |-> NoCard, ext |-> 0, approve |-> TRUE]
NoSync == [op |-> "none", run |-> NoRun, act |-> "start"]
Commits(what, r, a) == sync' = [op |-> what, run |-> r, act |-> a]

Init ==
  /\ status = [r \in Runs |-> "none"]
  /\ pos = [r \in Runs |-> 0]
  /\ gen = [r \in Runs |-> 0]
  /\ jobs = <<>>
  /\ card = [c \in Cards |-> [run |-> NoRun, gen |-> 0, status |-> "none", executed |-> FALSE]]
  /\ drv = [r \in Runs |-> [a \in JobActions |-> "off"]]
  /\ hand = [r \in Runs |-> [a \in JobActions |-> {}]]
  /\ tick = "idle"
  /\ recon = {}
  /\ req = [q \in Requests |-> NoCall]
  /\ sync = NoSync
  /\ burning = {} /\ used = {}
  /\ jiaotu = [c \in Cards |-> <<>>]
  /\ effects = [c \in Cards |-> 0]
  /\ aged = {}
  /\ crashes = 0

-----------------------------------------------------------------------------
(* The job table *)

Live(j) == j.state # "done"

\* a fault: a resume job that is done is reused too
EnqueueResumeOnce(r, a) ==
  IF a = "resume" /\ \E i \in DOMAIN jobs : jobs[i].run = r /\ jobs[i].action = a
  THEN jobs
  ELSE Append(jobs, [run |-> r, action |-> a, state |-> "pending"])

\* start is never deduplicated, resume reuses the run's unfinished resume job
EnqueueRunJob(r, a) ==
  IF a = "resume" /\ \E i \in DOMAIN jobs : jobs[i].run = r /\ jobs[i].action = a /\ Live(jobs[i])
  THEN jobs
  ELSE Append(jobs, [run |-> r, action |-> a, state |-> "pending"])

\* the oldest pending jobs, at most RUN_DISPATCH of them
Claimable ==
  {i \in DOMAIN jobs :
     /\ jobs[i].state = "pending"
     /\ Cardinality({k \in DOMAIN jobs : k < i /\ jobs[k].state = "pending"}) < RUN_DISPATCH}

SetJobs(S, st) == [i \in DOMAIN jobs |-> IF i \in S THEN [jobs[i] EXCEPT !.state = st] ELSE jobs[i]]

\* a fault: a round waits for parked drivers too
AwaitedAll(r, a) == r \in QueueRuns \cup ParkedRuns \/ a = "resume"

\* dispatchOnce awaits this driver; a parked one is let go, a chat request is
\* not the dispatcher's at all
Awaited(r, a) == r \in QueueRuns \/ (r \in ChatRuns /\ a = "resume")

EnqueueCommit ==
  /\ sync.op = "enqueue"
  /\ jobs' = EnqueueRunJob(sync.run, sync.act)
  /\ sync' = NoSync
  /\ UNCHANGED <<status, pos, gen, card, drv, hand, tick, recon, req, remote, aged, crashes>>

CompleteRunJob ==
  /\ sync.op = "complete"
  /\ jobs' = SetJobs({i \in DOMAIN jobs : /\ jobs[i].run = sync.run
                                          /\ jobs[i].action = sync.act
                                          /\ jobs[i].state = "claimed"}, "done")
  /\ sync' = NoSync
  /\ UNCHANGED <<status, pos, gen, card, drv, hand, tick, recon, req, remote, aged, crashes>>

-----------------------------------------------------------------------------
(* Starting runs *)

\* POST /internal/runs: the row, then (a second commit) its start job
PostRun(r) ==
  /\ r \in (QueueRuns \cup ParkedRuns) \ TicketedRuns
  /\ status[r] = "none"
  /\ status' = [status EXCEPT ![r] = "queued"]
  /\ Commits("enqueue", r, "start")
  /\ UNCHANGED <<pos, gen, jobs, card, drv, hand, tick, recon, req, remote, aged, crashes>>

\* a fault: the job is queued before the ticket is there
PostTicketedRunQueuedFirst(r) ==
  /\ r \in TicketedRuns
  /\ status[r] = "none"
  /\ status' = [status EXCEPT ![r] = "queued"]
  /\ drv' = [drv EXCEPT ![r]["start"] = "ticket"]
  /\ Commits("enqueue", r, "start")
  /\ UNCHANGED <<pos, gen, jobs, card, hand, tick, recon, req, remote, aged, crashes>>

\* the same for a hunt_task: the row, and the mint it awaits
PostTicketedRun(r) ==
  /\ r \in TicketedRuns
  /\ status[r] = "none"
  /\ status' = [status EXCEPT ![r] = "queued"]
  /\ drv' = [drv EXCEPT ![r]["start"] = "ticket"]
  /\ UNCHANGED <<pos, gen, jobs, card, hand, tick, recon, req, sync, remote, aged, crashes>>

TicketMinted(r) ==
  /\ r \in TicketedRuns
  /\ drv[r]["start"] = "ticket"
  /\ drv' = [drv EXCEPT ![r]["start"] = "off"]
  /\ Commits("enqueue", r, "start")
  /\ UNCHANGED <<disk, hand, tick, recon, req, remote, aged, crashes>>

\* a fault: the run is left as it is
FailUnTicketedRunForgotten(r) == UNCHANGED status

\* a run that cannot have its ticket is walked through running to failed
FailUnTicketedRun(r) ==
  status' = IF MayBecome(status[r], "running")
            THEN [status EXCEPT ![r] = "failed"] ELSE status

\* 502, and no job is queued
TicketMintFailed(r) ==
  /\ MintFails
  /\ r \in TicketedRuns
  /\ drv[r]["start"] = "ticket"
  /\ drv' = [drv EXCEPT ![r]["start"] = "off"]
  /\ FailUnTicketedRun(r)
  /\ UNCHANGED <<pos, gen, jobs, card, hand, tick, recon, req, sync, remote, aged, crashes>>

\* POST /api/v1/chat: the row, and launchChatRun up to the mint it awaits
PostChat(r) ==
  /\ r \in ChatRuns
  /\ status[r] = "none"
  /\ status' = [status EXCEPT ![r] = "queued"]
  /\ drv' = [drv EXCEPT ![r]["start"] = "mint"]
  /\ UNCHANGED <<pos, gen, jobs, card, hand, tick, recon, req, sync, remote, aged, crashes>>

-----------------------------------------------------------------------------
(* Drivers *)

\* the execution is over: if dispatchOnce awaits it, its finally block completes
\* the job in a commit of its own
Return(r, a) ==
  /\ drv' = [drv EXCEPT ![r][a] = "off"]
  /\ hand' = [hand EXCEPT ![r][a] = {}]
  /\ IF Awaited(r, a) THEN Commits("complete", r, a) ELSE UNCHANGED sync

\* transitionRun throws on a pair the table lacks and leaves the row alone
Move(r, to) ==
  status' = IF MayBecome(status[r], to) THEN [status EXCEPT ![r] = to] ELSE status

\* executeStartJob, launchChatRun: with the ticket in hand the run enters its
\* flow at the first node; a run that may not go to running throws out of it
StartMinted(r) ==
  /\ drv[r]["start"] = "mint"
  /\ IF MayBecome(status[r], "running")
     THEN /\ status' = [status EXCEPT ![r] = "running"]
          /\ pos' = [pos EXCEPT ![r] = 0]
          /\ gen' = [gen EXCEPT ![r] = @ + 1]
          /\ drv' = [drv EXCEPT ![r]["start"] = "node"]
          /\ UNCHANGED <<hand, sync>>
     ELSE /\ Return(r, "start")
          /\ UNCHANGED <<status, pos, gen>>
  /\ UNCHANGED <<jobs, card, tick, recon, req, remote, aged, crashes>>

\* no ticket: a queued kind is failed, a chat request answers 502 and leaves its
\* run row as it is
StartMintFailed(r) ==
  /\ MintFails /\ r \notin TicketedRuns
  /\ drv[r]["start"] = "mint"
  /\ IF r \in ChatRuns THEN UNCHANGED status ELSE FailUnTicketedRun(r)
  /\ Return(r, "start")
  /\ UNCHANGED <<pos, gen, jobs, card, tick, recon, req, remote, aged, crashes>>

\* executeResumeJob: resumeRun asks for awaiting_approval and goes on at the
\* last sealed checkpoint
ResumeMinted(r) ==
  /\ drv[r]["resume"] = "mint"
  /\ IF status[r] = "awaiting_approval"
     THEN /\ status' = [status EXCEPT ![r] = "running"]
          /\ drv' = [drv EXCEPT ![r]["resume"] = "node"]
          /\ UNCHANGED <<hand, sync>>
     ELSE Return(r, "resume") /\ UNCHANGED status
  /\ UNCHANGED <<pos, gen, jobs, card, tick, recon, req, remote, aged, crashes>>

\* no ticket for the resume: the error reaches the loop's log, the run stays
ResumeMintFailed(r) ==
  /\ MintFails
  /\ drv[r]["resume"] = "mint"
  /\ Return(r, "resume")
  /\ UNCHANGED <<disk, tick, recon, req, remote, aged, crashes>>

AtNode(r, a, kind) ==
  drv[r][a] = "node" /\ pos[r] < Len(Flow[r]) /\ Flow[r][pos[r] + 1] = kind

\* a node returned: its checkpoint is sealed; after the last one the run is
\* completed
NodeExit(r, a) ==
  /\ pos' = [pos EXCEPT ![r] = @ + 1]
  /\ IF pos[r] + 1 = Len(Flow[r])
     THEN Move(r, "completed") /\ Return(r, a)
     ELSE /\ drv' = [drv EXCEPT ![r][a] = "node"]
          /\ hand' = [hand EXCEPT ![r][a] = {}]
          /\ UNCHANGED <<status, sync>>

\* runFlow's kill: a node threw, or the budget was exhausted
Kill(r, a) == Move(r, "failed") /\ Return(r, a)

\* makeChildWaiter has no time limit: a node that has posted children ends after them
ChildrenEnded(r) ==
  r \in ParkedRuns => \A k \in Children[r] : status[k] = "none" \/ IsTerminalRun(status[k])

WorkNode(r, a) ==
  /\ AtNode(r, a, "work") /\ ChildrenEnded(r)
  /\ NodeExit(r, a)
  /\ UNCHANGED <<gen, jobs, card, tick, recon, req, remote, aged, crashes>>

WorkNodeThrows(r, a) ==
  /\ AtNode(r, a, "work")
  /\ Kill(r, a)
  /\ UNCHANGED <<pos, gen, jobs, card, tick, recon, req, remote, aged, crashes>>

-----------------------------------------------------------------------------
(* The L2 node: executeApproved over the run's card *)

\* findDecidableCard: the run's unexecuted card for this tool and parameters
Decidable(r) ==
  {c \in Cards : /\ card[c].run = r
                 /\ ~card[c].executed
                 /\ r \in FreshParams => card[c].gen = gen[r]}

\* listPendingApprovalsByRun, over the cards C
Undeclared(r, C) ==
  {c \in Cards : C[c].run = r /\ C[c].status = "pending" /\ jiaotu[c] = <<>>}

\* interrupted with the cards C: with an external gateway the run's undeclared
\* pending cards are declared before the driver returns
Suspend(r, a, C) ==
  IF External /\ Undeclared(r, C) # {}
  THEN /\ drv' = [drv EXCEPT ![r][a] = "declare"]
       /\ hand' = [hand EXCEPT ![r][a] = Undeclared(r, C)]
       /\ UNCHANGED sync
  ELSE Return(r, a)

\* no card yet: openApprovalCard, one transaction, and the interrupt
OpenApprovalCard(r, a) ==
  /\ AtNode(r, a, "l2")
  /\ Decidable(r) = {}
  /\ MayBecome(status[r], "awaiting_approval")
  /\ \E c \in Cards :
       /\ card[c].status = "none"
       /\ card' = [card EXCEPT ![c] = [run |-> r, gen |-> gen[r],
                                       status |-> "pending", executed |-> FALSE]]
  /\ status' = [status EXCEPT ![r] = "awaiting_approval"]
  /\ Suspend(r, a, card')
  /\ UNCHANGED <<pos, gen, jobs, tick, recon, req, remote, aged, crashes>>

\* undecided, or expired: interrupted again on the same card
InterruptAgain(r, a) ==
  /\ AtNode(r, a, "l2")
  /\ \E c \in Decidable(r) : card[c].status \in {"pending", "expired"}
  /\ Move(r, "awaiting_approval")
  /\ Suspend(r, a, card)
  /\ UNCHANGED <<pos, gen, jobs, card, tick, recon, req, remote, aged, crashes>>

\* rejected: the action is skipped and the node goes on
SkipRejected(r, a) ==
  /\ AtNode(r, a, "l2")
  /\ \E c \in Decidable(r) : card[c].status = "rejected"
  /\ NodeExit(r, a)
  /\ UNCHANGED <<gen, jobs, card, tick, recon, req, remote, aged, crashes>>

\* approved: the burn registry is asked before the gate
LookUpBurn(r, a) ==
  /\ AtNode(r, a, "l2")
  /\ \E c \in Decidable(r) :
       card[c].status = "approved" /\ hand' = [hand EXCEPT ![r][a] = {c}]
  /\ drv' = [drv EXCEPT ![r][a] = "gate"]
  /\ UNCHANGED <<disk, tick, recon, req, sync, remote, aged, crashes>>

\* verifyTicket lets an unburnt token through
GatePass(r, a) ==
  /\ drv[r][a] = "gate"
  /\ hand[r][a] \cap used = {}
  /\ drv' = [drv EXCEPT ![r][a] = "act"]
  /\ UNCHANGED <<disk, hand, tick, recon, req, sync, remote, aged, crashes>>

\* burnt, past its 300 seconds, or the registry did not answer
GateDeny(r, a) ==
  /\ drv[r][a] = "gate"
  /\ Kill(r, a)
  /\ UNCHANGED <<pos, gen, jobs, card, tick, recon, req, remote, aged, crashes>>

\* the action takes effect at the other service
Act(r, a) ==
  /\ drv[r][a] = "act"
  /\ effects' = [c \in Cards |-> IF c \in hand[r][a] THEN effects[c] + 1 ELSE effects[c]]
  /\ drv' = [drv EXCEPT ![r][a] = "acted"]
  /\ UNCHANGED <<disk, hand, tick, recon, req, sync, burning, used, jiaotu, aged, crashes>>

\* the action threw, before or after it took effect
ActThrows(r, a) ==
  /\ drv[r][a] \in {"act", "acted"}
  /\ Kill(r, a)
  /\ UNCHANGED <<pos, gen, jobs, card, tick, recon, req, remote, aged, crashes>>

\* its answer arrived: the burn is posted and not awaited, the card is marked
\* executed, the node ends
ActReturned(r, a) ==
  /\ drv[r][a] = "acted"
  /\ burning' = burning \cup hand[r][a]
  /\ card' = [c \in Cards |-> IF c \in hand[r][a] THEN [card[c] EXCEPT !.executed = TRUE] ELSE card[c]]
  /\ NodeExit(r, a)
  /\ UNCHANGED <<gen, jobs, tick, recon, req, used, jiaotu, effects, aged, crashes>>

\* one receipt of declare: external_approval_id names the new request, whatever
\* it named before; or its failure, which leaves the card as it was.  After the
\* last one the driver returns
Declared(r, a) ==
  /\ drv[r][a] = "declare"
  /\ \E c \in hand[r][a] :
       /\ \/ jiaotu' = [jiaotu EXCEPT ![c] = Append(@, "pending")]
          \/ UNCHANGED jiaotu
       /\ IF hand[r][a] = {c}
          THEN Return(r, a)
          ELSE hand' = [hand EXCEPT ![r][a] = @ \ {c}] /\ UNCHANGED <<drv, sync>>
  /\ UNCHANGED <<disk, tick, recon, req, burning, used, effects, aged, crashes>>

\* the case backend answers the burn call, or never got it
BurnSettles(c) ==
  /\ c \in burning
  /\ burning' = burning \ {c}
  /\ used' \in {used, used \cup {c}}
  /\ UNCHANGED <<disk, process, jiaotu, effects, aged, crashes>>

Driver(r, a) ==
  \/ WorkNode(r, a) \/ WorkNodeThrows(r, a)
  \/ OpenApprovalCard(r, a) \/ InterruptAgain(r, a) \/ SkipRejected(r, a)
  \/ LookUpBurn(r, a) \/ GatePass(r, a) \/ GateDeny(r, a)
  \/ Act(r, a) \/ ActThrows(r, a) \/ ActReturned(r, a)
  \/ Declared(r, a)

-----------------------------------------------------------------------------
(* Approvers *)

\* a fault: the decision queues no resume
DecideWithoutJob(c, to) ==
  /\ card' = [card EXCEPT ![c].status = to]
  /\ UNCHANGED sync

\* decideApproval on a card that may still be decided, then (a second commit)
\* decideAndResume's resume job
Decide(c, to) ==
  /\ card' = [card EXCEPT ![c].status = to]
  /\ Commits("enqueue", card[c].run, "resume")

Decision(approve) == IF approve THEN "approved" ELSE "rejected"

\* POST .../approve and, with an external gateway, .../reject, up to the mint
\* or the relay they await.  Only approve looks at the local status first.
CallDecide(q, c, approve) ==
  /\ req[q].pc = "idle"
  /\ card[c].status # "none"
  /\ approve => card[c].status = "pending"
  /\ External => jiaotu[c] # <<>>
  /\ External \/ approve
  /\ req' = [req EXCEPT ![q] = [pc |-> "sent", card |-> c,
                                ext |-> Len(jiaotu[c]), approve |-> approve]]
  /\ UNCHANGED <<disk, drv, hand, tick, recon, sync, remote, aged, crashes>>

\* POST .../reject without an external gateway awaits nothing
RejectNow(c) ==
  /\ ~External
  /\ card[c].status = "pending"
  /\ Decide(c, "rejected")
  /\ UNCHANGED <<status, pos, gen, jobs, drv, hand, tick, recon, req, remote, aged, crashes>>

\* the external gateway arbitrates: only a request pending there is decided
JiaotuDecides(q) ==
  /\ External
  /\ req[q].pc = "sent"
  /\ jiaotu[req[q].card][req[q].ext] = "pending"
  /\ jiaotu' = [jiaotu EXCEPT ![req[q].card][req[q].ext] = Decision(req[q].approve)]
  /\ req' = [req EXCEPT ![q].pc = "answered"]
  /\ UNCHANGED <<disk, drv, hand, tick, recon, sync, burning, used, effects, aged, crashes>>

\* a fault: no arbitration, the later decision overwrites the earlier one
DecisionLandsUnchecked(q) ==
  /\ req[q].pc = (IF External THEN "answered" ELSE "sent")
  /\ Decide(req[q].card, Decision(req[q].approve))
  /\ req' = [req EXCEPT ![q] = NoCall]
  /\ UNCHANGED <<status, pos, gen, jobs, drv, hand, tick, recon, remote, aged, crashes>>

\* a fault: decided here without waiting for the external gateway
DecisionLandsUnrelayed(q) ==
  /\ req[q].pc = "sent"
  /\ card[req[q].card].status = "pending"
  /\ Decide(req[q].card, Decision(req[q].approve))
  /\ req' = [req EXCEPT ![q] = NoCall]
  /\ UNCHANGED <<status, pos, gen, jobs, drv, hand, tick, recon, remote, aged, crashes>>

\* the token is minted, or the relay answered 200: the local card is decided,
\* or the second comer gets 409
DecisionLands(q) ==
  /\ req[q].pc = (IF External THEN "answered" ELSE "sent")
  /\ LET c == req[q].card IN
       IF card[c].status = "pending"
       THEN Decide(c, Decision(req[q].approve))
       ELSE UNCHANGED <<card, sync>>
  /\ req' = [req EXCEPT ![q] = NoCall]
  /\ UNCHANGED <<status, pos, gen, jobs, drv, hand, tick, recon, remote, aged, crashes>>

\* 502: the mint or the relay failed, 401/409 from the relay, or its answer was
\* lost; the local card is untouched
DecisionFails(q) ==
  /\ External \/ MintFails
  /\ req[q].pc # "idle"
  /\ req' = [req EXCEPT ![q] = NoCall]
  /\ UNCHANGED <<disk, drv, hand, tick, recon, sync, remote, aged, crashes>>

\* the external gateway's own 900 seconds
JiaotuExpires(c) ==
  /\ \E i \in DOMAIN jiaotu[c] :
       jiaotu[c][i] = "pending" /\ jiaotu' = [jiaotu EXCEPT ![c][i] = "expired"]
  /\ UNCHANGED <<disk, process, burning, used, effects, aged, crashes>>

\* APPROVAL_TTL_SECONDS pass over a pending card
Age(c) ==
  /\ card[c].status = "pending" /\ c \notin aged
  /\ aged' = aged \cup {c}
  /\ UNCHANGED <<disk, process, remote, crashes>>

-----------------------------------------------------------------------------
(* The dispatcher loop *)

\* a fault: the run of an expired card is forgotten
ExpireCardsOnly(S) ==
  /\ card' = [c \in Cards |-> IF c \in S THEN [card[c] EXCEPT !.status = "expired"] ELSE card[c]]
  /\ UNCHANGED status

\* expireApprovalCard for each of S: the card, and its run unless it has ended
ExpireApprovalCards(S) ==
  /\ card' = [c \in Cards |-> IF c \in S THEN [card[c] EXCEPT !.status = "expired"] ELSE card[c]]
  /\ status' = [r \in Runs |->
                  IF /\ \E c \in S : card[c].run = r
                     /\ status[r] \in {"awaiting_approval", "running"}
                  THEN "failed" ELSE status[r]]

\* listExpiredPendingApprovals
Overdue == {c \in aged : card[c].status = "pending"}

\* a fault: declared cards are never asked for
NothingToReconcile(C) == {}

\* listDeclaredPendingApprovals, over the cards C
ToReconcile(C) ==
  {[card |-> c, ext |-> Len(jiaotu[c])] :
     c \in {d \in Cards : C[d].status = "pending" /\ jiaotu[d] # <<>>}}

\* a round begins with the cards past their TTL; with an external gateway it
\* then asks for every declared card still pending
SweepExpired ==
  /\ tick = "idle"
  /\ ExpireApprovalCards(Overdue)
  /\ LET declared == ToReconcile(card') IN
       IF External /\ declared # {}
       THEN tick' = "reconcile" /\ recon' = declared /\ UNCHANGED sync
       ELSE tick' = "claim" /\ recon' = {} /\ Commits("claim", NoRun, "start")
  /\ UNCHANGED <<pos, gen, jobs, drv, hand, req, remote, aged, crashes>>

\* the round moves past x, to the claim after the last request
ReconcileNext(x) ==
  /\ recon' = recon \ {x}
  /\ IF recon = {x}
     THEN tick' = "claim" /\ Commits("claim", NoRun, "start")
     ELSE UNCHANGED <<tick, sync>>

\* fetchStatus said expired: mirrored, unless the card was decided meanwhile
ReconcileExpired(x) ==
  /\ tick = "reconcile"
  /\ jiaotu[x.card][x.ext] = "expired" /\ card[x.card].status = "pending"
  /\ ExpireApprovalCards({x.card})
  /\ ReconcileNext(x)
  /\ UNCHANGED <<pos, gen, jobs, drv, hand, req, remote, aged, crashes>>

\* it said anything else, or failed, or came too late: the card stays
ReconcileSkip(x) ==
  /\ tick = "reconcile"
  /\ ReconcileNext(x)
  /\ UNCHANGED <<disk, drv, hand, req, remote, aged, crashes>>

\* claimRunJobs, and each claimed job's execute up to its first await.  A
\* resume of a run that does not await approval returns at once, a parked
\* kind is let go at once; both jobs are then done.
ClaimRunJobs ==
  /\ sync.op = "claim"
  /\ LET Claimed(r, a) == \E i \in Claimable : jobs[i].run = r /\ jobs[i].action = a
         Enters(r, a)  == Claimed(r, a) /\ (a = "resume" => status[r] = "awaiting_approval")
     IN /\ drv' = [r \in Runs |-> [a \in JobActions |->
                     IF Enters(r, a) THEN "mint" ELSE drv[r][a]]]
        /\ jobs' = [i \in DOMAIN jobs |->
                      IF i \notin Claimable THEN jobs[i]
                      ELSE [jobs[i] EXCEPT !.state =
                              IF /\ Enters(jobs[i].run, jobs[i].action)
                                 /\ Awaited(jobs[i].run, jobs[i].action)
                              THEN "claimed" ELSE "done"]]
  /\ tick' = "batch"
  /\ sync' = NoSync
  /\ UNCHANGED <<status, pos, gen, card, hand, recon, req, remote, aged, crashes>>

\* Promise.all over the claimed jobs settled: the next round may begin
BatchSettled ==
  /\ tick = "batch"
  /\ \A r \in Runs, a \in JobActions : Awaited(r, a) => drv[r][a] \in {"off", "ticket"}
  /\ tick' = "idle"
  /\ UNCHANGED <<disk, drv, hand, recon, req, sync, remote, aged, crashes>>

-----------------------------------------------------------------------------
(* Crash and restart *)

Crash ==
  /\ tick # "down" /\ crashes < MaxCrashes
  /\ crashes' = crashes + 1
  /\ tick' = "down"
  /\ recon' = {}
  /\ drv' = [r \in Runs |-> [a \in JobActions |-> "off"]]
  /\ hand' = [r \in Runs |-> [a \in JobActions |-> {}]]
  /\ req' = [q \in Requests |-> NoCall]
  /\ sync' = NoSync
  /\ \E landed \in SUBSET burning : used' = used \cup landed
  /\ burning' = {}
  /\ UNCHANGED <<disk, jiaotu, effects, aged>>

\* a fault: running runs are put back to awaiting approval and resumed
RecoverSuspendsRuns ==
  /\ tick = "down"
  /\ tick' = "idle"
  /\ status' = [r \in Runs |-> IF status[r] = "running" THEN "awaiting_approval" ELSE status[r]]
  /\ jobs' = [i \in DOMAIN jobs |-> [jobs[i] EXCEPT !.state = IF @ = "claimed" THEN "pending" ELSE @]]
  /\ UNCHANGED <<pos, gen, card, drv, hand, recon, req, sync, remote, aged, crashes>>

\* a fault: running runs are left as they are
RecoverJobsOnly ==
  /\ tick = "down"
  /\ tick' = "idle"
  /\ jobs' = [i \in DOMAIN jobs |-> [jobs[i] EXCEPT !.state = IF @ = "claimed" THEN "pending" ELSE @]]
  /\ UNCHANGED <<status, pos, gen, card, drv, hand, recon, req, sync, remote, aged, crashes>>

\* recoverDispatcherState, one transaction before the first round: running runs
\* fail as orphans and their start jobs are done, other claimed jobs go back
Recover ==
  /\ tick = "down"
  /\ tick' = "idle"
  /\ status' = [r \in Runs |-> IF status[r] = "running" THEN "failed" ELSE status[r]]
  /\ jobs' = [i \in DOMAIN jobs |->
                IF status[jobs[i].run] = "running" /\ jobs[i].action = "start"
                THEN [jobs[i] EXCEPT !.state = "done"]
                ELSE [jobs[i] EXCEPT !.state = IF @ = "claimed" THEN "pending" ELSE @]]
  /\ UNCHANGED <<pos, gen, card, drv, hand, recon, req, sync, remote, aged, crashes>>

-----------------------------------------------------------------------------
Loop == SweepExpired \/ BatchSettled \/ \E x \in recon : ReconcileExpired(x) \/ ReconcileSkip(x)

Segment == EnqueueCommit \/ CompleteRunJob \/ ClaimRunJobs

Http ==
  \/ \E r \in Runs : PostRun(r) \/ PostTicketedRun(r) \/ PostChat(r)
  \/ \E c \in Cards : RejectNow(c)
  \/ \E q \in Requests, c \in Cards, approve \in BOOLEAN : CallDecide(q, c, approve)

Answers ==
  \E q \in Requests : JiaotuDecides(q) \/ DecisionLands(q) \/ DecisionFails(q)

Minted ==
  \E r \in Runs : \/ TicketMinted(r) \/ TicketMintFailed(r)
                  \/ StartMinted(r) \/ StartMintFailed(r)
                  \/ ResumeMinted(r) \/ ResumeMintFailed(r)

Environment ==
  \E c \in Cards : BurnSettles(c) \/ JiaotuExpires(c) \/ Age(c)

\* the process takes a step between the segments' commits
Alive ==
  /\ sync.op = "none" /\ tick # "down"
  /\ \/ Http \/ Answers \/ Minted \/ Loop
     \/ \E r \in Runs, a \in JobActions : Driver(r, a)

Next == Segment \/ Alive \/ Environment \/ Crash \/ Recover

Spec == Init /\ [][Next]_vars

=============================================================================
