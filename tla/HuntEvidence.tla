----------------------------- MODULE HuntEvidence -----------------------------
(***************************************************************************)
(* What the rounds of a hunt hand to each other (orchestration/): the plan *)
(* a model proposes, the tasks dispatched for it under narrow tickets, the *)
(* reports they bring back, the judgement, the gap, the verdict.  HuntLoop *)
(* has the runs, relays, cancellations and crashes; here one round follows *)
(* the other and a call that fails ends the hunt.                          *)
(*                                                                         *)
(* The hash of parameters is the parameters; a text is what tells it apart.*)
(***************************************************************************)
EXTENDS Naturals, Sequences, SequencesExt

CONSTANTS
  Menu,       \* template.menu: tools the planner may choose
  Face,       \* huntFlowTicketFace: tools a ticket may be minted for
  WellFormed, \* the [tool, params] a tool's signature accepts
  Plans,      \* what the planner may answer: sequences of [tool, params]
  MaxTasks,   \* template.max_tasks
  MaxRounds,  \* template.max_rounds
  Gaps,       \* the gaps the model may find
  Confidences, FLOOR  \* of the judge, in tenths; judgeConfidenceFloor()

ASSUME EvidenceAssumption ==
  /\ Menu \subseteq Face
  /\ \A plan \in Plans : plan \in Seq(ToSet(plan))
  /\ MaxTasks \in Nat /\ MaxRounds \in Nat \ {0}
  /\ Confidences \subseteq Nat /\ FLOOR \in Nat

VARIABLES
  hyp,     \* the hypothesis: [status, reason]
  rounds,  \* hypothesis_rounds: [tasks, judge, gap]
  round,   \* the state handed from node to node in the round that runs
  kids,    \* its hunt_task runs, in the order dispatched: [task, ticket, at]
  heard,   \* the waiter: terminal events of the kids, in the order they came
  filed    \* the case of the verdict: [verdict, hashes, noted, registered]

evidenceVars == <<hyp, rounds, round, kids, heard, filed>>

NoGap == "none"
NoHash == "none"
NoJudge == [sufficient |-> FALSE, verdict |-> "absent", confidence |-> 0]
Insufficient == [sufficient |-> FALSE, verdict |-> "none", confidence |-> 0]

\* a fault: new evidence does not make a plan new
FingerprintOfTasks(tasks, gap) == <<ToBag(tasks), NoGap>>

\* a fault: the order of the tasks counts
OrderedFingerprint(tasks, gap) == <<tasks, gap>>

\* spinFingerprint: the tasks in any order, and the gap they were planned for
Fingerprint(tasks, gap) == <<ToBag(tasks), gap>>

NoFingerprint == <<>>

Fresh ==
  [at |-> "intake", no |-> 0, gap |-> NoGap, prevFailed |-> FALSE, prevPrint |-> NoFingerprint,
   tasks |-> <<>>, print |-> NoFingerprint, failed |-> FALSE, spin |-> FALSE,
   reports |-> <<>>, left |-> "shown", judge |-> NoJudge]

EvidenceInit ==
  /\ hyp = [status |-> "proposed", reason |-> "none"]
  /\ rounds = <<>> /\ round = Fresh /\ kids = <<>> /\ heard = <<>>
  /\ filed = [verdict |-> "none", hashes |-> <<>>, noted |-> FALSE, registered |-> FALSE]

Node(node) == round.at = node
Goto(node) == round' = [round EXCEPT !.at = node]

\* a call that is not answered, or a node that throws: the runner kills the run
Throws ==
  /\ round.at \in {"intake", "planner", "dispatch", "judge", "gap", "record", "settle", "file", "note", "register"}
  /\ Goto("dead") /\ UNCHANGED <<hyp, rounds, kids, heard, filed>>

-----------------------------------------------------------------------------
(* The nodes of a round *)

\* the gap round k was planned for is the one the round before it left
GapBefore(k) == IF k <= 1 THEN NoGap ELSE rounds[k - 1].gap

Intake ==
  /\ Node("intake")
  /\ LET last == Len(rounds) IN
       IF last >= MaxRounds THEN Goto("dead") /\ UNCHANGED hyp
       ELSE /\ round' = [Fresh EXCEPT
                 !.at = "planner", !.no = last + 1, !.gap = GapBefore(last + 1),
                 !.prevFailed = last > 0 /\ rounds[last].judge = NoJudge /\ rounds[last].tasks = <<>>,
                 !.prevPrint = IF last = 0 THEN NoFingerprint
                               ELSE Fingerprint(rounds[last].tasks, GapBefore(last))]
            /\ hyp' = [hyp EXCEPT !.status = "hunting"]
  /\ UNCHANGED <<rounds, kids, heard, filed>>

\* of the whole answer, what is cut off included
OnMenu(plan) == \A i \in DOMAIN plan : plan[i].tool \in Menu

Cap == IF MaxTasks = 0 THEN 1 ELSE MaxTasks
Capped(plan) == SubSeq(plan, 1, IF Len(plan) < Cap THEN Len(plan) ELSE Cap)

\* a plan; one with a tool off the menu, or no plan twice, is denied
PlanRound ==
  /\ Node("planner")
  /\ \/ \E plan \in Plans :
          /\ plan # <<>> /\ OnMenu(plan)
          /\ round' = [round EXCEPT !.at = "dispatch", !.tasks = Capped(plan),
                                    !.print = Fingerprint(Capped(plan), round.gap)]
     \/ round' = [round EXCEPT !.at = "dispatch", !.failed = TRUE]
  /\ UNCHANGED <<hyp, rounds, kids, heard, filed>>

\* nothing to dispatch
DispatchNone ==
  /\ Node("dispatch") /\ round.failed /\ Goto("await") /\ kids' = <<>> /\ heard' = <<>>
  /\ UNCHANGED <<hyp, rounds, filed>>

Repeats == round.print # NoFingerprint /\ round.print = round.prevPrint

\* the plan of the last round for the same gap: the hypothesis is cancelled
DispatchSpin ==
  /\ Node("dispatch") /\ ~round.failed /\ Repeats
  /\ hyp' = [status |-> "cancelled", reason |-> "spin"]
  /\ round' = [round EXCEPT !.at = "await", !.spin = TRUE]
  /\ kids' = <<>> /\ heard' = <<>>
  /\ UNCHANGED <<rounds, filed>>

DispatchTasks ==
  /\ Node("dispatch") /\ ~round.failed /\ ~Repeats
  /\ Goto("launch") /\ kids' = <<>> /\ heard' = <<>>
  /\ UNCHANGED <<hyp, rounds, filed>>

\* launchTask and ticketSpecFor: a ticket for the one tool; refused, the round dies
Launch ==
  /\ Node("launch") /\ Len(kids) < Len(round.tasks)
  /\ LET task == round.tasks[Len(kids) + 1] IN
       \/ /\ task.tool \in Face
          /\ kids' = Append(kids, [task |-> task, ticket |-> {task.tool}, at |-> "intake"])
          /\ UNCHANGED round
       \/ Goto("dead") /\ UNCHANGED kids
  /\ UNCHANGED <<hyp, rounds, heard, filed>>

Launched ==
  /\ Node("launch") /\ Len(kids) = Len(round.tasks) /\ Goto("await")
  /\ UNCHANGED <<hyp, rounds, kids, heard, filed>>

\* how the end of a child is told: hunt_task_finished, or the error event folded
Told(kid) ==
  IF kid.at = "completed" THEN [summary |-> kid.task.tool, hash |-> kid.task.params]
  ELSE [summary |-> "failed", hash |-> NoHash]

\* a fault: the reports in the order they came
ReportsAsHeard ==
  [i \in DOMAIN heard |-> [task |-> round.tasks[i], told |-> Told(kids[heard[i]])]]

\* the waiter answers in the order asked, whichever child ends first
ReportsInOrder ==
  [i \in DOMAIN kids |-> [task |-> round.tasks[i], told |-> Told(kids[i])]]

Await ==
  /\ Node("await") /\ Len(heard) = Len(kids)
  /\ round' = [round EXCEPT !.at = "judge", !.reports = ReportsInOrder]
  /\ UNCHANGED <<hyp, rounds, kids, heard, filed>>

JudgeSkips ==
  /\ Node("judge") /\ (round.failed \/ round.spin) /\ Goto("record")
  /\ UNCHANGED <<hyp, rounds, kids, heard, filed>>

\* a fault: any number will do
BelieveAnyway(answer) == answer

\* sufficient below the floor is not sufficient
Believe(answer) ==
  IF answer.sufficient /\ answer.confidence < FLOOR
  THEN [answer EXCEPT !.sufficient = FALSE, !.verdict = "none"] ELSE answer

Answers ==
  {a \in [sufficient : BOOLEAN, verdict : {"hit", "miss", "none"}, confidence : Confidences] :
     a.sufficient <=> a.verdict # "none"}

\* a fault: the reports are not compared with what was shown
TrustsRewritten(answer, left) == Believe(answer)

\* an answer beside a copy of the reports that was rewritten counts for nothing
Judgement(answer, left) == IF left = "rewritten" THEN Insufficient ELSE Believe(answer)

\* judgeRound: the model is shown a screened copy of the reports and may rewrite it; the
\* state keeps the originals.  No answer of the right shape twice: insufficient
JudgeRound ==
  /\ Node("judge") /\ ~round.failed /\ ~round.spin
  /\ \E answer \in Answers \cup {Insufficient}, left \in {"shown", "rewritten"} :
       LET judge == Judgement(answer, left) IN
         round' = [round EXCEPT !.judge = judge, !.left = left,
                                !.at = IF judge.sufficient THEN "record" ELSE "gap"]
  /\ UNCHANGED <<hyp, rounds, kids, heard, filed>>

\* analyzeGap: the gap the model finds; the judge's own words when it finds none twice
AnalyzeGap ==
  /\ Node("gap")
  /\ \E gap \in Gaps \cup {"gap_parse_degraded"} :
       round' = [round EXCEPT !.at = "record", !.gap = gap]
  /\ UNCHANGED <<hyp, rounds, kids, heard, filed>>

\* the round as it is recorded: a refused or a missing plan leaves it blank
Record ==
  IF round.failed \/ round.spin THEN [tasks |-> <<>>, judge |-> NoJudge, gap |-> NoGap]
  ELSE [tasks |-> round.tasks, judge |-> round.judge,
        gap |-> IF round.judge.sufficient THEN NoGap ELSE round.gap]

RecordRound ==
  /\ Node("record") /\ rounds' = Append(rounds, Record) /\ Goto("settle")
  /\ UNCHANGED <<hyp, kids, heard, filed>>

\* the next round is asked for: no plan, for the first time, or not enough evidence
Relay ==
  /\ Node("settle")
  /\ \/ round.failed /\ ~round.prevFailed
     \/ ~round.failed /\ ~round.spin /\ ~round.judge.sufficient
  /\ round' = Fresh
  /\ UNCHANGED <<hyp, rounds, kids, heard, filed>>

\* no plan for the second time running, or a spin that is cancelled already
GiveUp ==
  /\ Node("settle") /\ (round.spin \/ (round.failed /\ round.prevFailed)) /\ Goto("over")
  /\ hyp' = IF round.spin THEN hyp ELSE [status |-> "cancelled", reason |-> "planner_broken"]
  /\ UNCHANGED <<rounds, kids, heard, filed>>

-----------------------------------------------------------------------------
(* converge: the hypothesis first, then the case, its note, and for a miss the *)
(* proposal to the graph                                                       *)

ConvergeHypothesis ==
  /\ Node("settle") /\ round.judge.sufficient
  /\ hyp' = [hyp EXCEPT !.status = IF round.judge.verdict = "miss" THEN "refuted" ELSE "concluded"]
  /\ Goto("file")
  /\ UNCHANGED <<rounds, kids, heard, filed>>

FileCase ==
  /\ Node("file") /\ Goto("note")
  /\ filed' = [filed EXCEPT !.verdict = round.judge.verdict,
                            !.hashes = [i \in DOMAIN round.reports |-> round.reports[i].told.hash]]
  /\ UNCHANGED <<hyp, rounds, kids, heard>>

AddNote ==
  /\ Node("note") /\ filed' = [filed EXCEPT !.noted = TRUE]
  /\ Goto(IF round.judge.verdict = "miss" THEN "register" ELSE "over")
  /\ UNCHANGED <<hyp, rounds, kids, heard>>

Register ==
  /\ Node("register") /\ filed' = [filed EXCEPT !.registered = TRUE] /\ Goto("over")
  /\ UNCHANGED <<hyp, rounds, kids, heard>>

-----------------------------------------------------------------------------
(* A task; it goes on when its round has died *)

KidTo(i, at) ==
  /\ kids' = [kids EXCEPT ![i].at = at]
  /\ heard' = IF at \in {"completed", "failed"} THEN Append(heard, i) ELSE heard
  /\ UNCHANGED <<hyp, rounds, round, filed>>

\* the gate: the ticket is for this tool; executeHuntPackTool then asks for its signature
Execute(i) ==
  /\ kids[i].at = "intake"
  /\ IF kids[i].task.tool \in kids[i].ticket /\ kids[i].task \in WellFormed
     THEN KidTo(i, "called") ELSE KidTo(i, "failed")

\* the backend answers, or the run is killed
Answered(i) ==
  /\ kids[i].at = "called"
  /\ KidTo(i, "completed") \/ KidTo(i, "failed")

-----------------------------------------------------------------------------

EvidenceNext ==
  \/ Throws \/ Intake \/ PlanRound \/ DispatchNone \/ DispatchSpin \/ DispatchTasks
  \/ Launch \/ Launched \/ Await \/ JudgeSkips \/ JudgeRound \/ AnalyzeGap
  \/ RecordRound \/ Relay \/ GiveUp \/ ConvergeHypothesis \/ FileCase \/ AddNote \/ Register
  \/ \E i \in DOMAIN kids : Execute(i) \/ Answered(i)

-----------------------------------------------------------------------------
(* What must hold *)

SameTasks(plan, other) ==
  /\ Len(plan) = Len(other)
  /\ \A i \in DOMAIN plan :
       LET Times(p) == Cardinality({j \in DOMAIN p : p[j] = plan[i]}) IN Times(plan) = Times(other)

\* the gap the hunt had when round k was planned, and the tasks of the round that runs
Planned(k) == [tasks |-> rounds[k].tasks, gap |-> IF k = 1 THEN NoGap ELSE rounds[k - 1].gap]
SameAs(k, tasks, gap) == SameTasks(Planned(k).tasks, tasks) /\ Planned(k).gap = gap

\* A hunt spins when its planner repeats itself, and only then: two rounds in a row never
\* dispatch the same tasks for the same gap, in whatever order they are listed, and no plan
\* is refused after the gap has changed; compared are two records and a plan in the making
\* (flow.ts:109-122, 151; llm-stubs.ts:131).
SpinMeansRepeat ==
  /\ \A k \in 2 .. Len(rounds) :
       rounds[k].tasks # <<>> => ~SameAs(k - 1, rounds[k].tasks, Planned(k).gap)
  /\ round.spin => round.no > 1 /\ SameAs(round.no - 1, round.tasks, rounds[round.no - 1].gap)

\* the reports judged, and the hashes the case cites, are those of the tasks they stand
\* beside, or the mark of a failed one, whichever child ended first
AttributedEvidence ==
  /\ \A i \in DOMAIN round.reports :
       round.reports[i].told \in
         {[summary |-> round.tasks[i].tool, hash |-> round.tasks[i].params],
          [summary |-> "failed", hash |-> NoHash]}
  /\ filed.verdict # "none" =>
       filed.hashes = [i \in DOMAIN round.tasks |->
                         IF kids[i].at = "completed" THEN round.tasks[i].params ELSE NoHash]

\* A verdict rests on evidence that stands beside its own task (await-children.ts:44), and
\* on the last round recorded: judged sufficient beside reports nobody
\* rewrote, with the confidence the floor asks for; only a miss reaches the graph, and
\* nothing is filed for a hypothesis without a verdict (judge.ts:262-279, 342-417).
VerdictRests ==
  /\ AttributedEvidence
  /\ hyp.status \in {"concluded", "refuted"} =>
       LET judge == rounds[Len(rounds)].judge IN
         /\ judge.sufficient /\ judge.confidence >= FLOOR /\ round.left = "shown"
         /\ judge.verdict = IF hyp.status = "refuted" THEN "miss" ELSE "hit"
  /\ filed.verdict # "none" => hyp.status = IF filed.verdict = "miss" THEN "refuted" ELSE "concluded"
  /\ filed.registered => filed.noted /\ filed.verdict = "miss"

=============================================================================
