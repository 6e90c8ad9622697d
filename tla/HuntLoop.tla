------------------------------- MODULE HuntLoop -------------------------------
(***************************************************************************)
(* The hunt of one hypothesis (orchestration/): round runs of kind         *)
(* hunt_flow, the hunt_task runs each of them dispatches, the relay that   *)
(* launches the next round, the ledger of who launched what, the cancel    *)
(* board, the hypothesis at the case backend (hypotheses.ts) and the part  *)
(* of autorun.ts that consumes its outbox.                                 *)
(*                                                                         *)
(* The dispatcher is RunDispatcher's: here any queued run may start.       *)
(* A node of a round checks the board on entry and then awaits; where its  *)
(* effects lie behind an await, entry and effect are separate actions.     *)
(***************************************************************************)
EXTENDS Naturals, Sequences, FiniteSets

CONSTANTS
  MaxRounds,   \* template.maxRounds
  MaxTasks,    \* template.maxTasks
  Faults,      \* there are behaviours in which mints, calls and nodes fail
  Overspends,  \* kinds of BudgetExceededError a round may run into
  MaxRuns,     \* bound on run rows
  MaxCrashes   \* bound on process crashes

RoundNos == 1 .. MaxRounds + 1

ASSUME HuntAssumption ==
  /\ MaxRounds \in Nat \ {0} /\ MaxTasks \in Nat \ {0}
  /\ Faults \in BOOLEAN
  /\ Overspends \subseteq {"token_budget", "llm_timeout", "round_timeout"}
  /\ MaxRuns \in Nat /\ MaxCrashes \in Nat

VARIABLES
  (* the case backend *)
  hyp,       \* hypotheses: [status, reason]
  rounds,    \* hypothesis_rounds: what each round was recorded as
  cases,     \* cases filed with this hypothesis_id
  events,    \* outbox_events: 1 = created, 2 = created and cancelled
  (* the agent's SQLite *)
  run,       \* runs with their hunt_run_links, in creation order
  cursor,    \* event_cursors: events consumed
  (* the agent process: lost in a crash *)
  autorun,   \* what the outbox consumer is doing
  relays,    \* rounds the relay is about to post
  posted,    \* runs whose row is committed and whose launcher has yet to link them
  heard,     \* runs whose terminal event the bus has carried
  board,     \* the cancel board's entry for the hypothesis
  stopping,  \* the reason requestCancel has yet to write to the case backend
  (* history *)
  stopped,   \* the board was written at some time
  faulty,    \* mints, calls to other services and nodes may fail
  crashes

backend == <<hyp, rounds, cases, events>>
process == <<autorun, relays, posted, heard, board, stopping>>
history == <<stopped, faulty, crashes>>
vars == <<backend, run, cursor, process, history>>

Ids == DOMAIN run
RoundRuns == {r \in Ids : run[r].kind = "hunt_flow"}
TaskRuns == {r \in Ids : run[r].kind = "hunt_task"}

\* where a run is: the nodes of flow.ts, those with an await inside in parts
RoundPath == {"intake", "starting", "planner", "dispatch", "posting", "spinning", "await",
              "waiting", "judge", "outcome", "recording", "closing", "filing"}
TaskPath == {"intake", "plan", "execute", "report"}
Queued(r) == run[r].at \in {"queued", "minting", "lost"}
Running(r) == run[r].at \in RoundPath \cup TaskPath
Ended(r) == run[r].at \in {"completed", "failed"}

\* a new row: `no' is what the launcher asks for, `parent' the round that dispatches
Row(kind, no, parent) ==
  [kind |-> kind, asked |-> no, parent |-> parent, linked |-> FALSE, at |-> "queued",
   fail |-> "none", no |-> 0, prev |-> "none", plan |-> "none", judged |-> "none"]

Init ==
  /\ hyp = [status |-> "proposed", reason |-> "none"]
  /\ rounds = [k \in RoundNos |-> "none"]
  /\ cases = 0 /\ events = 1
  /\ run = <<>> /\ cursor = 0
  /\ autorun = "idle" /\ relays = {} /\ posted = {} /\ heard = {}
  /\ board = FALSE /\ stopping = "none"
  /\ stopped = FALSE /\ faulty \in {FALSE, Faults} /\ crashes = 0

-----------------------------------------------------------------------------
(* Launching: the door answers, then the launcher links what it launched *)

Post(kind, no, parent) ==
  /\ Len(run) < MaxRuns
  /\ run' = Append(run, Row(kind, no, parent))
  /\ posted' = posted \cup {Len(run) + 1}

Link(r) ==
  /\ r \in posted
  /\ run' = [run EXCEPT ![r].linked = TRUE]
  /\ posted' = posted \ {r}

\* a fault: the runs are not asked
ForgetsActiveRuns == FALSE

\* a fault: the round before counts as this one
HasRoundRunBefore(k) == \E r \in RoundRuns : run[r].linked /\ run[r].asked = k - 1

\* autorun's two guards against a second first round
HasActiveRun == \E r \in RoundRuns : run[r].at # "failed"

HasRoundRun(k) == \E r \in RoundRuns : run[r].linked /\ run[r].asked = k

PollCreated ==
  /\ autorun = "idle" /\ cursor = 0
  /\ IF HasActiveRun \/ HasRoundRun(1)
     THEN cursor' = 1 /\ UNCHANGED <<run, posted, autorun>>
     ELSE Post("hunt_flow", 1, 0) /\ autorun' = "launching" /\ UNCHANGED cursor
  /\ UNCHANGED <<backend, relays, heard, board, stopping, history>>

LinkFirstRound ==
  /\ autorun = "launching"
  /\ \E r \in posted : run[r].kind = "hunt_flow" /\ run[r].asked = 1 /\ Link(r)
  /\ autorun' = "launched"
  /\ UNCHANGED <<backend, cursor, relays, heard, board, stopping, history>>

AdvanceCursor ==
  /\ autorun \in {"launched", "cancelling"}
  /\ cursor' = cursor + 1 /\ autorun' = "idle"
  /\ UNCHANGED <<backend, run, relays, posted, heard, board, stopping, history>>

\* startRoundRelay: a post that fails is logged and not repeated
RelayPosts(k) ==
  /\ k \in relays /\ relays' = relays \ {k}
  /\ \/ Post("hunt_flow", k, 0)
     \/ faulty /\ UNCHANGED <<run, posted>>
  /\ UNCHANGED <<backend, cursor, autorun, heard, board, stopping, history>>

RelayLinks(r) ==
  /\ r \in posted /\ run[r].kind = "hunt_flow" /\ run[r].asked > 1
  /\ Link(r)
  /\ UNCHANGED <<backend, cursor, autorun, relays, heard, board, stopping, history>>

-----------------------------------------------------------------------------
(* The ends of a run *)

Goto(r, at) == run' = [run EXCEPT ![r].at = at]

CancelReasonOf(kind) ==
  CASE kind = "rounds" -> "budget_rounds"
    [] kind = "llm_timeout" -> "time"
    [] OTHER -> "budget"

\* requestCancel's first half: the first writer of the board wins
WriteBoard(why) ==
  /\ board' = TRUE /\ stopped' = TRUE
  /\ stopping' = IF board THEN stopping ELSE why

\* a fault: no error event
KillSilently(r, why) ==
  /\ run' = [run EXCEPT ![r].at = "failed", ![r].fail = why]
  /\ UNCHANGED <<heard, board, stopping, stopped>>

\* the runner's kill: failed, and an error event on the bus.  The waiters hear it,
\* and makeLoopCancel does when it is a linked round's budget that ran out.
Kill(r, why) ==
  /\ run' = [run EXCEPT ![r].at = "failed", ![r].fail = why]
  /\ heard' = heard \cup {r}
  /\ IF why \in Overspends \cup {"rounds"} /\ run[r].linked /\ run[r].kind = "hunt_flow"
     THEN WriteBoard(CancelReasonOf(why))
     ELSE UNCHANGED <<board, stopping, stopped>>

KillOnly(r, why) ==
  Kill(r, why) /\ UNCHANGED <<backend, cursor, autorun, relays, posted, faulty, crashes>>

\* throwIfCancelled, on entry of every node
StopAtNode(r) ==
  /\ board
  /\ run[r].at \in {"intake", "plan", "execute", "report",
                    "planner", "dispatch", "await", "judge", "outcome"}
  /\ KillOnly(r, "parent_cancelled")

\* a call or the node's own code throws
NodeThrows(r) ==
  /\ faulty /\ Running(r) /\ run[r].at \notin {"waiting", "posting"}
  /\ ~board \/ run[r].at \in {"starting", "spinning", "recording", "closing", "filing"}
  /\ KillOnly(r, "node_error")

\* a model call charges or takes too long; the round's clock is read on node entry
Overspend(r, kind) ==
  /\ kind \in Overspends
  /\ \/ kind # "round_timeout" /\ ~board /\ run[r].at \in {"planner", "judge"}
     \/ kind # "round_timeout" /\ run[r].at = "recording" /\ run[r].judged = "insufficient"
     \/ kind = "round_timeout" /\ ~board
          /\ run[r].at \in {"planner", "dispatch", "await", "judge", "outcome"}
  /\ run[r].kind = "hunt_flow"
  /\ KillOnly(r, kind)

-----------------------------------------------------------------------------
(* A round: one hunt_flow run *)

Own == <<backend, cursor, process, history>>   \* a step inside a node leaves the rest alone
AtNode(r, node) == r \in RoundRuns /\ run[r].at = node
Enter(r, node) == AtNode(r, node) /\ ~board

\* the job of a parked kind is done when its driver starts; the ticket is minted first
Claim(r) ==
  /\ AtNode(r, "queued") /\ Goto(r, "minting")
  /\ UNCHANGED Own

\* the link of a round is written long before its mint has answered
MintAnswers(r) ==
  /\ AtNode(r, "minting") /\ r \notin posted
  /\ \/ Goto(r, "intake") /\ UNCHANGED Own
     \/ faulty /\ KillOnly(r, "mint_failed")

\* the ledger's number, or one more than the other rounds it knows
RoundNo(r) ==
  IF run[r].linked THEN run[r].asked
  ELSE Cardinality({q \in RoundRuns \ {r} : run[q].linked}) + 1

LastRecorded ==
  LET known == {k \in RoundNos : rounds[k] # "none"}
  IN IF known = {} THEN "none" ELSE rounds[CHOOSE k \in known : \A j \in known : j <= k]

Intake(r) ==
  /\ Enter(r, "intake")
  /\ LET k == RoundNo(r) IN
     \/ k > MaxRounds /\ KillOnly(r, "rounds")
     \/ /\ k <= MaxRounds
        /\ hyp.status = IF k = 1 THEN "proposed" ELSE "hunting"
        /\ run' = [run EXCEPT ![r].no = k, ![r].prev = LastRecorded,
                              ![r].at = IF k = 1 THEN "starting" ELSE "planner"]
        /\ UNCHANGED Own
     \/ /\ k <= MaxRounds
        /\ hyp.status # IF k = 1 THEN "proposed" ELSE "hunting"
        /\ KillOnly(r, "node_error")

StartHunting(r) ==
  /\ AtNode(r, "starting")
  /\ IF hyp.status = "proposed"
     THEN /\ hyp' = [hyp EXCEPT !.status = "hunting"] /\ Goto(r, "planner")
          /\ UNCHANGED <<rounds, cases, events, cursor, process, history>>
     ELSE KillOnly(r, "node_error")

\* planRound: a plan, or none after a bad shape twice or a tool off the menu
Plan(r) ==
  /\ Enter(r, "planner")
  /\ \E plan \in {"planned", "planner_failed"} :
       run' = [run EXCEPT ![r].at = "dispatch", ![r].plan = plan]
  /\ UNCHANGED Own

\* dispatch: nothing to do, the fingerprint of the last round again, or tasks to post
Dispatch(r) ==
  /\ Enter(r, "dispatch")
  /\ \/ run[r].plan = "planner_failed" /\ Goto(r, "await")
     \/ run[r].plan = "planned" /\ Goto(r, "posting")
     \/ run[r].plan = "planned" /\ run[r].prev \in {"insufficient", "sufficient"}
          /\ Goto(r, "spinning")
  /\ UNCHANGED Own

CancelSpinning(r) ==
  /\ AtNode(r, "spinning")
  /\ IF hyp.status = "hunting"
     THEN /\ hyp' = [status |-> "cancelled", reason |-> "spin"]
          /\ run' = [run EXCEPT ![r].at = "await", ![r].plan = "spin"]
          /\ UNCHANGED <<rounds, cases, events, cursor, process, history>>
     ELSE KillOnly(r, "node_error")

Children(r) == {c \in TaskRuns : run[c].parent = r}

\* launchTask; the ticket of a task is minted inside the POST
PostTask(r) ==
  /\ AtNode(r, "posting") /\ Children(r) \cap posted = {}
  /\ Cardinality(Children(r)) < MaxTasks
  /\ Post("hunt_task", run[r].no, r)
  /\ UNCHANGED <<backend, cursor, autorun, relays, heard, board, stopping, history>>

LinkTask(c) ==
  /\ c \in TaskRuns /\ Link(c)
  /\ UNCHANGED <<backend, cursor, autorun, relays, heard, board, stopping, history>>

\* the mint of the next task is refused: its row fails (failUnTicketedRun), dispatch
\* throws and the round is killed
TaskRefused(r) ==
  /\ faulty /\ AtNode(r, "posting") /\ Children(r) \cap posted = {}
  /\ Cardinality(Children(r)) < MaxTasks /\ Len(run) < MaxRuns
  /\ run' = Append([run EXCEPT ![r].at = "failed", ![r].fail = "node_error"],
                   [Row("hunt_task", run[r].no, r) EXCEPT !.at = "failed", !.fail = "mint_failed"])
  /\ heard' = heard \cup {r, Len(run) + 1}
  /\ UNCHANGED <<backend, cursor, autorun, relays, posted, board, stopping, history>>

Dispatched(r) ==
  /\ AtNode(r, "posting") /\ Children(r) # {} /\ Children(r) \cap posted = {}
  /\ Goto(r, "await")
  /\ UNCHANGED Own

Await(r) ==
  /\ Enter(r, "await") /\ Goto(r, "waiting")
  /\ UNCHANGED Own

\* a fault: only a report wakes
WakeOnReports(r) ==
  /\ AtNode(r, "waiting") /\ \A c \in Children(r) : run[c].at = "completed"
  /\ Goto(r, "judge")
  /\ UNCHANGED Own

\* makeChildWaiter: every child's terminal event has been carried
Wake(r) ==
  /\ AtNode(r, "waiting") /\ Children(r) \subseteq heard
  /\ Goto(r, "judge")
  /\ UNCHANGED Own

\* judgeRound; skipped in a round without tasks
Judge(r) ==
  /\ Enter(r, "judge")
  /\ \E v \in IF run[r].plan = "planned" THEN {"insufficient", "hit", "miss"} ELSE {"none"} :
       run' = [run EXCEPT ![r].at = "outcome", ![r].judged = v]
  /\ UNCHANGED Own

Outcome(r) ==
  /\ Enter(r, "outcome") /\ Goto(r, "recording")
  /\ UNCHANGED Own

\* recordHypothesisRound: an upsert, whatever the status of the hypothesis
RecordAs(r) ==
  CASE run[r].judged = "none" -> "blank"
    [] run[r].judged = "insufficient" -> "insufficient"
    [] OTHER -> "sufficient"

RecordRound(r) ==
  /\ AtNode(r, "recording")
  /\ rounds' = [rounds EXCEPT ![run[r].no] = RecordAs(r)]
  /\ Goto(r, "closing")
  /\ UNCHANGED <<hyp, cases, events, cursor, process, history>>

BrokenAtOnce(r) == run[r].plan = "planner_failed"   \* a fault: the first failure counts

Broken(r) == run[r].plan = "planner_failed" /\ run[r].prev = "blank"

Relayed(r) == (run[r].plan = "planner_failed" /\ ~Broken(r)) \/ run[r].judged = "insufficient"

\* the round ends; startRoundRelay takes its event unless the next round is linked
\* or on its way
Relay(r) ==
  LET next == run[r].no + 1
      inflight == \E q \in posted : run[q].kind = "hunt_flow" /\ run[q].asked = next
  IN
  /\ AtNode(r, "closing") /\ Relayed(r)
  /\ Goto(r, "completed")
  /\ relays' = IF HasRoundRun(next) \/ inflight THEN relays ELSE relays \cup {next}
  /\ UNCHANGED <<backend, cursor, autorun, posted, heard, board, stopping, history>>

CloseSpun(r) ==
  /\ AtNode(r, "closing") /\ run[r].plan = "spin"
  /\ Goto(r, "completed")
  /\ UNCHANGED Own

\* the transition of the hypothesis comes first and is refused (409) once it is over
CloseBroken(r) ==
  /\ AtNode(r, "closing") /\ Broken(r)
  /\ IF hyp.status = "hunting"
     THEN /\ hyp' = [status |-> "cancelled", reason |-> "planner_broken"]
          /\ Goto(r, "completed")
          /\ UNCHANGED <<rounds, cases, events, cursor, process, history>>
     ELSE KillOnly(r, "node_error")

Converge(r) ==
  /\ AtNode(r, "closing") /\ run[r].judged \in {"hit", "miss"}
  /\ IF hyp.status = "hunting"
     THEN /\ hyp' = [hyp EXCEPT !.status = IF run[r].judged = "hit" THEN "concluded" ELSE "refuted"]
          /\ Goto(r, "filing")
          /\ UNCHANGED <<rounds, cases, events, cursor, process, history>>
     ELSE KillOnly(r, "node_error")

\* the case, then the note about it and the register entry, which may still fail
FileCase(r) ==
  /\ AtNode(r, "filing")
  /\ cases' = cases + 1
  /\ \/ Goto(r, "completed") /\ UNCHANGED heard
     \/ /\ faulty
        /\ run' = [run EXCEPT ![r].at = "failed", ![r].fail = "node_error"]
        /\ heard' = heard \cup {r}
  /\ UNCHANGED <<hyp, rounds, events, cursor, autorun, relays, posted, board, stopping, history>>

-----------------------------------------------------------------------------
(* A task: one hunt_task run *)

TaskAt(c, node) == c \in TaskRuns /\ run[c].at = node

StartTask(c) ==
  /\ TaskAt(c, "queued") /\ Goto(c, "intake")
  /\ UNCHANGED Own

\* intake reads its task from the ledger
TaskIntake(c) ==
  /\ TaskAt(c, "intake") /\ ~board
  /\ IF run[c].linked
     THEN Goto(c, "plan") /\ UNCHANGED Own
     ELSE KillOnly(c, "node_error")

TaskNode(c) ==
  /\ c \in TaskRuns /\ ~board
  /\ \/ run[c].at = "plan" /\ Goto(c, "execute")
     \/ run[c].at = "execute" /\ Goto(c, "report")
  /\ UNCHANGED Own

\* hunt_task_finished
Report(c) ==
  /\ TaskAt(c, "report") /\ ~board
  /\ Goto(c, "completed") /\ heard' = heard \cup {c}
  /\ UNCHANGED <<backend, cursor, autorun, relays, posted, board, stopping, history>>

-----------------------------------------------------------------------------
(* Cancelling *)

\* POST /hypotheses/:id/cancel at the case backend
UserCancels ==
  /\ hyp.status = "hunting"
  /\ hyp' = [status |-> "cancelled", reason |-> "user_cancelled"]
  /\ events' = events + 1
  /\ UNCHANGED <<rounds, cases, run, cursor, process, history>>

\* autorun hands the event to requestCancel; the hypothesis is cancelled already, so
\* nothing is left to write there
PollCancelled ==
  /\ autorun = "idle" /\ cursor = 1 /\ events = 2
  /\ IF board THEN cursor' = 2 /\ UNCHANGED <<autorun, board, stopped>>
     ELSE board' = TRUE /\ stopped' = TRUE /\ autorun' = "cancelling" /\ UNCHANGED cursor
  /\ UNCHANGED <<backend, run, relays, posted, heard, stopping, faulty, crashes>>

\* requestCancel's second half: a refused transition is audited and dropped
WriteCancelled ==
  /\ stopping # "none" /\ stopping' = "none"
  /\ \/ /\ hyp.status = "hunting"
        /\ hyp' = [status |-> "cancelled", reason |-> stopping]
     \/ /\ hyp.status # "hunting" \/ faulty
        /\ UNCHANGED hyp
  /\ UNCHANGED <<rounds, cases, events, run, cursor,
                 autorun, relays, posted, heard, board, history>>

-----------------------------------------------------------------------------
(* A crash, and the recovery of RunDispatcher: runs that ran are failed, a run whose *)
(* parked job was taken has none left, a run with a job stays queued                 *)

Recovered(r) ==
  IF Running(r) THEN [run[r] EXCEPT !.at = "failed", !.fail = "orphaned_by_restart"]
  ELSE IF run[r].at = "minting" THEN [run[r] EXCEPT !.at = "lost"] ELSE run[r]

Crash ==
  /\ crashes < MaxCrashes /\ crashes' = crashes + 1
  /\ run' = [r \in Ids |-> Recovered(r)]
  /\ autorun' = "idle" /\ relays' = {} /\ posted' = {} /\ heard' = {}
  /\ board' = FALSE /\ stopping' = "none"
  /\ UNCHANGED <<backend, cursor, stopped, faulty>>

-----------------------------------------------------------------------------

Launching ==
  \/ PollCreated \/ LinkFirstRound \/ AdvanceCursor
  \/ \E k \in RoundNos : RelayPosts(k)
  \/ \E r \in posted : RelayLinks(r) \/ LinkTask(r)

RoundStep(r) ==
  \/ Claim(r) \/ MintAnswers(r) \/ Intake(r) \/ StartHunting(r) \/ Plan(r)
  \/ Dispatch(r) \/ CancelSpinning(r) \/ PostTask(r) \/ Dispatched(r)
  \/ Await(r) \/ Wake(r) \/ Judge(r) \/ Outcome(r) \/ RecordRound(r)
  \/ Relay(r) \/ CloseSpun(r) \/ CloseBroken(r) \/ Converge(r) \/ FileCase(r)

TaskStep(c) == StartTask(c) \/ TaskIntake(c) \/ TaskNode(c) \/ Report(c)

Failing(r) == NodeThrows(r) \/ TaskRefused(r) \/ \E kind \in Overspends : Overspend(r, kind)

Next ==
  \/ Launching
  \/ \E r \in Ids : RoundStep(r) \/ TaskStep(r) \/ StopAtNode(r) \/ Failing(r)
  \/ UserCancels \/ PollCancelled \/ WriteCancelled \/ Crash

Spec == Init /\ [][Next]_vars

\* what the process does by itself; analysts, faults and crashes owe nothing
FairSpec ==
  /\ Spec
  /\ WF_vars(Launching) /\ WF_vars(PollCancelled) /\ WF_vars(WriteCancelled)
  /\ \A r \in 1 .. MaxRuns : WF_vars(r \in Ids /\ (RoundStep(r) \/ TaskStep(r) \/ StopAtNode(r)))

=============================================================================
