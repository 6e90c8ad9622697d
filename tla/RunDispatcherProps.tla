-------------------------- MODULE RunDispatcherProps --------------------------
(***************************************************************************)
(* What RunDispatcher must and must never do.                              *)
(***************************************************************************)
EXTENDS RunDispatcher

\* The type invariant: every table and every piece of process state has the
\* shape the code gives it.
TypeOK ==
  /\ status \in [Runs -> RunStatus \cup {"none"}]
  /\ pos \in [Runs -> Nat]
  /\ gen \in [Runs -> Nat]
  /\ jobs \in Seq(Job)
  /\ card \in [Cards -> Card]
  /\ drv \in [Runs -> [JobActions -> DriverState]]
  /\ hand \in [Runs -> [JobActions -> SUBSET Cards]]
  /\ tick \in {"idle", "reconcile", "claim", "batch", "down"}
  /\ recon \in SUBSET [card : Cards, ext : Nat]
  /\ req \in [Requests -> Call]
  /\ sync \in Commit
  /\ burning \in SUBSET Cards
  /\ used \in SUBSET Cards
  /\ jiaotu \in [Cards -> Seq(ApprovalStatus)]
  /\ effects \in [Cards -> Nat]
  /\ aged \in SUBSET Cards
  /\ crashes \in Nat

\* the driver has the run: it is between the transition to running and the end
\* of the node it is in
Inside(r, a) == drv[r][a] \in {"node", "gate", "act", "acted"}

\* A run is driven by one execution at a time, and it is running meanwhile:
\* runs.status is the only lock between a start job replayed after a restart,
\* a resume job and a chat request, which all mint (an await) before they look.
OneDriver ==
  \A r \in Runs, a \in JobActions : Inside(r, a) =>
     /\ status[r] = "running"
     /\ \A b \in JobActions : Inside(r, b) => b = a

\* While the process lives, a running run has a driver: no path, and no restart,
\* leaves a row in running that nobody works on (recoverDispatcherState).
NoOrphanRun ==
  tick # "down" => \A r \in Runs : status[r] = "running" => \E a \in JobActions : Inside(r, a)

\* An approved action takes effect at most once per card, with crashes between
\* the effect and markApprovalExecuted, replays of the flow, and both jobs of a
\* run in one batch.
EffectOnce == \A c \in Cards : effects[c] <= 1

\* An action that took effect was approved, and nobody takes the decision back:
\* neither the TTL sweep, nor the reconciliation, nor a second approver.
EffectDecided == \A c \in Cards : effects[c] > 0 => card[c].status = "approved"

\* Expiry is an end: whatever else happens to the run of an expired card, it is
\* in a terminal state (expireApprovalCard's transaction).
ExpiryEndsRun ==
  \A c \in Cards : card[c].status = "expired" => IsTerminalRun(status[card[c].run])

\* The runs that are queued and the start jobs to be executed belong to each other.
\* A queued run is somebody's: a live job's, a request's, or a driver's; no failed mint
\* leaves one behind, and no restart loses the job of a run that has reached the job
\* table.  And a start job still to be executed is that of a queued run: for any other
\* it would replay a flow from its first node.  (A chat run has no job; a parked job is
\* done before its run has a ticket, and a restart requeues claimed jobs of suspended
\* runs: see the README.)
JobsMatchRuns ==
  tick # "down" =>
    /\ \A r \in {s \in Runs \ ChatRuns : status[s] = "queued"} :
         \/ crashes > 0 /\ (r \in ParkedRuns \/ ~\E i \in DOMAIN jobs : jobs[i].run = r)
         \/ \E i \in DOMAIN jobs : jobs[i].run = r /\ Live(jobs[i])
         \/ sync = [op |-> "enqueue", run |-> r, act |-> "start"]
         \/ drv[r]["start"] \in {"ticket", "mint"}
    /\ crashes = 0 =>
         \A i \in DOMAIN jobs : jobs[i].action = "start" /\ jobs[i].state = "pending" =>
           status[jobs[i].run] = "queued"

\* With an external gateway the local decision only ever mirrors one of the
\* gateway's: approved here means a request of this card was approved there,
\* rejected here means one was rejected there.
MirrorFollowsJiaotu ==
  External => \A c \in Cards : card[c].status \in {"approved", "rejected"} =>
                \E i \in DOMAIN jiaotu[c] : jiaotu[c][i] = card[c].status

-----------------------------------------------------------------------------
(* The abstract promise *)

Once == INSTANCE ApprovalOnce WITH
  owner     <- [c \in Cards |-> card[c].run],
  decision  <- [c \in Cards |-> card[c].status],
  performed <- effects,
  over      <- {r \in Runs : IsTerminalRun(status[r])}

\* The dispatcher implements the one-shot approval of ApprovalOnce.
ImplementsApprovalOnce == Once!Spec

-----------------------------------------------------------------------------
(* The inductive invariant behind OneDriver, EffectOnce, EffectDecided and     *)
(* ExpiryEndsRun                                                               *)

\* nothing of the process is left while it is down
DownIsQuiet ==
  tick = "down" => sync = NoSync /\ \A r \in Runs, a \in JobActions : drv[r][a] = "off"

\* rounds are serial: until a round has claimed, none of the drivers that rounds
\* await is under way, so the sweep never expires a card under one of them
RoundsAreSerial ==
  /\ sync.op = "claim" => tick = "claim"
  /\ tick \in {"idle", "reconcile", "claim"} =>
       \A r \in Runs, a \in JobActions : Awaited(r, a) => drv[r][a] \in {"off", "ticket"}

\* only a run that has been running owns a card, and never one of a parked kind
CardsAreOwned ==
  \A c \in Cards : card[c].status # "none" =>
    /\ card[c].run \notin ParkedRuns
    /\ status[card[c].run] \in RunStatus \ {"queued"}

\* the one driver of a card-owning kind that rounds do not await, a chat request,
\* has no card yet
ChatStartsBare ==
  \A r \in ChatRuns :
    /\ drv[r]["start"] = "mint" => status[r] = "queued"
    /\ Inside(r, "start") => \A c \in Cards : card[c].run # r

\* from the burn lookup to the action's answer a driver holds one card: its
\* run's, approved, not executed
HandIsGood ==
  \A r \in Runs, a \in JobActions : drv[r][a] \in {"gate", "act", "acted"} =>
    /\ \E c \in hand[r][a] : \A e \in hand[r][a] : e = c
    /\ \A c \in hand[r][a] :
         /\ card[c].run = r /\ card[c].status = "approved" /\ ~card[c].executed
         /\ effects[c] = IF drv[r][a] = "acted" THEN 1 ELSE 0

\* an effect is accounted for: its card is marked, or its run is over, or was
\* running when the process died, or its driver awaits the answer
EffectIsAccounted ==
  \A c \in Cards : effects[c] # 0 =>
    /\ effects[c] = 1 /\ card[c].status = "approved"
    /\ \/ card[c].executed
       \/ IsTerminalRun(status[card[c].run])
       \/ tick = "down" /\ status[card[c].run] = "running"
       \/ \E a \in JobActions : drv[card[c].run][a] = "acted" /\ c \in hand[card[c].run][a]

\* Together they are inductive: the type invariant, the lock that runs.status is,
\* the seriality of the rounds, and the ledger of effects.
IInv ==
  /\ TypeOK
  /\ DownIsQuiet /\ RoundsAreSerial
  /\ OneDriver
  /\ CardsAreOwned /\ ChatStartsBare
  /\ HandIsGood /\ EffectIsAccounted
  /\ ExpiryEndsRun

\* what a call in flight to the external gateway knows of its request
CallsKnowJiaotu ==
  External => \A q \in Requests :
    /\ req[q].pc # "idle" => req[q].ext \in DOMAIN jiaotu[req[q].card]
    /\ req[q].pc = "answered" =>
         jiaotu[req[q].card][req[q].ext] = Decision(req[q].approve)

\* a parked run has one start job in its life, and no driver before that is claimed
ParkedStartsOnce ==
  \A r \in ParkedRuns :
    LET Enqueued == sync.op = "enqueue" /\ sync.run = r
        Of(i)    == jobs[i].run = r
    IN /\ \A i \in DOMAIN jobs : Of(i) => jobs[i].action = "start" /\ \A k \in DOMAIN jobs : Of(k) => k = i
       /\ Enqueued => sync.act = "start" /\ \A i \in DOMAIN jobs : ~Of(i)
       /\ status[r] = "none" => ~Enqueued /\ \A i \in DOMAIN jobs : ~Of(i)
       /\ \/ drv[r]["start"] = "off"
          \/ ~Enqueued /\ status[r] # "none" /\ \A i \in DOMAIN jobs : Of(i) => jobs[i].state # "pending"

-----------------------------------------------------------------------------
(* Liveness *)

AliveStep(A) == sync.op = "none" /\ tick # "down" /\ A

\* what the awaited answers of other services let the process do next
\* (nobody hurries a node that waits for its children)
Work ==
  \/ Minted
  \/ \E r \in Runs, a \in JobActions : Driver(r, a) /\ (AtNode(r, a, "work") => ChildrenEnded(r))

\* The event loop runs what is ready: the commit left in a segment, the loop's
\* timer, the continuation of some answered call (every call answers or fails;
\* strongly fair, for a segment of the loop may come first again and again).
\* fetchStatus does not fail forever, and a process that died is started again.
\* Approvers and crashes get no fairness.
ProcessFairness ==
  /\ WF_vars(Segment) /\ WF_vars(Recover)
  /\ WF_vars(AliveStep(Loop))
  /\ SF_vars(AliveStep(Work))
  /\ \A c \in Cards : SF_vars(AliveStep(\E x \in recon : x.card = c /\ ReconcileExpired(x)))

\* A bound on the instance: runs with cards and hunts with their tasks are looked at in
\* behaviours of their own.
Apart ==
  \/ \A r \in ParkedRuns \cup TicketedRuns : status[r] = "none"
  \/ \A r \in Runs \ (ParkedRuns \cup TicketedRuns) : status[r] = "none"

\* The process may die anywhere but between the commit of a decision or of a new run and
\* that of its job: such a crash leaves a run nobody wakes, see JobsMatchRuns.
LiveNext ==
  /\ Segment \/ Alive \/ Environment \/ (sync.op # "enqueue" /\ Crash) \/ Recover
  /\ Apart'

FairSpec == Init /\ [][LiveNext]_vars /\ ProcessFairness

\* time passes over a pending card
Aging == \A c \in Cards : WF_vars(Age(c))

RunEnds(r) == (status[r] = "queued") ~> IsTerminalRun(status[r])

\* all cards of a suspended run are decided: it must be woken, whichever card was the
\* last and whatever jobs the run has already
Answered(r) ==
  /\ status[r] = "awaiting_approval"
  /\ \A c \in Cards : card[c].run = r => card[c].status # "pending"
DecisionIsHeard(r) == Answered(r) ~> (status[r] # "awaiting_approval")

\* the one way a resume is lost to the deduplication: the last card was declared by the
\* replayed start job and decided while the run's resume driver, which has read the cards
\* before, still awaits a receipt of its own; the job of that driver is claimed, so the
\* new request is folded into it
Unheard(r) == Answered(r) /\ drv[r]["resume"] = "declare"

\* A card whose newest request the external gateway has let expire does not stay pending
\* here, even when the local TTL is far away (G9 reconciliation).
LapsedAtJiaotu(c) == jiaotu[c] # <<>> /\ jiaotu[c][Len(jiaotu[c])] = "expired"
MirrorSettles ==
  \A c \in Cards : LapsedAtJiaotu(c) ~> (~LapsedAtJiaotu(c) \/ card[c].status # "pending")

\* No run and no card is left hanging (run-dispatcher.ts:61-82, 223-255, 275-330).  A
\* suspended run all of whose cards are decided is woken, and every accepted run ends as
\* long as the local TTL runs, over a crash that has its start job replayed beside the
\* resume job and leaves it with two cards; the exception is a run that was Unheard.  In
\* a living process a parked hunt and the tasks it waits for all end, which they would
\* not if a round waited for the hunt.
NothingHangs ==
  /\ \A r \in QueueRuns \ TicketedRuns :
       []~Unheard(r) => DecisionIsHeard(r) /\ (Aging => RunEnds(r))
  /\ [](crashes = 0) => \A r \in ParkedRuns \cup TicketedRuns : RunEnds(r)
  /\ MirrorSettles

=============================================================================
