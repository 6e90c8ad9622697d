------------------------------ MODULE AlertLife ------------------------------
(***************************************************************************)
(* An alert from its webhook to its verdict: the ingest service stores it, *)
(* autorun launches a triage run for its event, analysts launch more, the  *)
(* dispatcher starts them a few at a time, a triage run claims, judges and *)
(* files or merges the alert, a close run carries out a confirmed advice   *)
(* to close, and analysts act on alerts and cases by hand all the while.   *)
(*                                                                         *)
(* Every step of a run is one request to CaseBackend.  The dispatcher is   *)
(* RunDispatcher's, seen from afar: a round starts the oldest queued runs  *)
(* when the last round is over.                                            *)
(***************************************************************************)
EXTENDS CaseBackend, FiniteSets

CONSTANTS
  Alerts,       \* alert ids, their (source, source_ref)
  Concurrency,  \* RUN_DISPATCH: jobs a dispatcher round takes
  MaxRuns,      \* bound on run rows
  MaxFaults,    \* bound on failing calls, refused mints and crashes
  MaxTouches,   \* bound on what analysts do to alerts by hand, and on what to cases
  MaxTroubles   \* bound on all of these together, a fault counted twice

ASSUME AlertLifeAssumption ==
  /\ Concurrency \in Nat \ {0} /\ MaxRuns \in Nat
  /\ MaxFaults \in Nat /\ MaxTouches \in Nat /\ MaxTroubles \in Nat

RunIds == 1 .. MaxRuns

VARIABLES
  db,       \* the case backend
  run,      \* the agent's run rows, and what a running one remembers
  cursor,   \* event_cursors: outbox events autorun has dealt with
  polling,  \* autorun launched a run and has yet to move its cursor
  faults, touches,
  overruled, cleared  \* history: alerts an analyst closed; those closed without a verdict

agent == <<run, cursor, polling>>
history == <<overruled, cleared>>
vars == <<db, agent, faults, touches, history>>

TriagePath == {"load", "check", "pickup", "merge", "create", "final"}
ClosePath == {"load_close", "pickup_close", "close"}
Running(r) == run[r].at \in TriagePath \cup ClosePath
Launched == {r \in RunIds : run[r].kind # None}
Queued == {r \in RunIds : run[r].at = "queued"}

\* won: M2 answered the claim with a yes; seen: the cases there were when M2 was asked for
\* active ones; made: the case it opened; blind: M2 answered a question with an error
NoRun == [kind |-> None, alert |-> None, at |-> None, won |-> FALSE, cand |-> 0, seen |-> 0,
          made |-> 0, blind |-> FALSE, verdict |-> None, advice |-> None]

Init ==
  /\ db = EmptyDb(Alerts)
  /\ run = [r \in RunIds |-> NoRun]
  /\ cursor = 0 /\ polling = FALSE
  /\ faults = 0 /\ touches = 0
  /\ overruled = {} /\ cleared = {}

-----------------------------------------------------------------------------
(* Ingest: the handler forwards the alerts of a delivery one by one.  Deliveries     *)
(* overlap, break off at a failing call and are repeated by their sender, so that any *)
(* alert may arrive at any time, and again.                                           *)

Forward(a) ==
  /\ db' = IngestAlert(db, a).db
  /\ UNCHANGED <<agent, faults, touches, history>>

-----------------------------------------------------------------------------
(* Launching *)

Launch(kind, a) ==
  /\ Launched # RunIds
  /\ run' = [run EXCEPT ![Cardinality(Launched) + 1] =
               [NoRun EXCEPT !.kind = kind, !.alert = a, !.at = "queued"]]

\* a fault: a run of any kind counts
HasAnyRun(kind, a) == \E r \in Launched : run[r].alert = a /\ run[r].at # "failed"

\* a completed run keeps autorun from another one as well, a failed one does not
HasActiveRun(kind, a) == \E r \in Launched : run[r].kind = kind /\ run[r].alert = a /\ run[r].at # "failed"

\* a closed case is for the knowledge base
Poll ==
  /\ ~polling /\ cursor < Len(db.outbox)
  /\ LET e == db.outbox[cursor + 1]
     IN IF e.topic = "alert.created" /\ ~HasActiveRun("alert_flow", e.ref)
        THEN Launch("alert_flow", e.ref) /\ polling' = TRUE /\ UNCHANGED cursor
        ELSE cursor' = cursor + 1 /\ UNCHANGED <<run, polling>>
  /\ UNCHANGED <<db, faults, touches, history>>

MoveCursor ==
  /\ polling
  /\ polling' = FALSE /\ cursor' = cursor + 1
  /\ UNCHANGED <<db, run, faults, touches, history>>

Triaged == {run[r].alert : r \in {q \in Launched : run[q].kind = "alert_flow"}}

\* POST /internal/runs: an analyst triages again, or confirms an advice to close; the bound
\* leaves a row to autorun for every alert without a triage run
PostRun(kind, a) ==
  /\ Stored(db, a)
  /\ LET served == IF kind = "alert_flow" THEN Triaged \cup {a} ELSE Triaged
     IN Cardinality(Launched) + Cardinality(Alerts \ served) < MaxRuns
  /\ Launch(kind, a)
  /\ UNCHANGED <<db, cursor, polling, faults, touches, history>>

\* the oldest queued runs, together
Claimed == {r \in Queued : Cardinality({q \in Queued : q <= r}) <= Concurrency}

DispatchTick ==
  /\ Queued # {} /\ \A r \in RunIds : ~Running(r)
  /\ run' = [r \in RunIds |->
               IF r \in Claimed
               THEN [run[r] EXCEPT !.at = IF run[r].kind = "alert_flow" THEN "load" ELSE "load_close"]
               ELSE run[r]]
  /\ UNCHANGED <<db, cursor, polling, faults, touches, history>>

-----------------------------------------------------------------------------
(* A run: one request, then what its answer leads to *)

At(r, place) == run[r].at = place

\* a run that is over remembers nothing but its history
Over(r, place, made) ==
  [NoRun EXCEPT !.kind = run[r].kind, !.alert = run[r].alert, !.at = place, !.won = run[r].won,
                !.blind = run[r].blind, !.made = made, !.seen = IF made = 0 THEN 0 ELSE run[r].seen]
Ends(r, place) == Over(r, place, run[r].made)

\* the request a run is about to make; its questions change nothing.  A final patch sets an
\* uncertain alert to in progress for a human; a triage picks an alert up before it merges,
\* a confirmed close before it closes, since a new alert can become neither
Request(r) ==
  LET a == run[r].alert
      todo == IF run[r].verdict = "uncertain" THEN "InProgress" ELSE None
  IN CASE At(r, "load") -> PatchAlert(db, a, "in-progress", None, None)
       [] run[r].at \in {"pickup", "pickup_close"} -> PatchAlert(db, a, None, None, "InProgress")
       [] At(r, "merge") -> MergeAlertIntoCase(db, a, run[r].cand)
       [] At(r, "create") -> CreateCaseFromAlert(db, a)
       [] At(r, "final") -> PatchAlert(db, a, run[r].verdict, run[r].advice, todo)
       [] At(r, "close") -> CloseAlert(db, a, run[r].verdict)
       [] OTHER -> Txn(db, TRUE, db)

\* the case the request has opened
Opened(r) == IF At(r, "create") /\ Request(r).ok THEN Len(db.kase) + 1 ELSE run[r].made

Quiet == UNCHANGED <<cursor, polling, faults, touches, history>>

\* a granted request leads on to the next place, a refused one makes the run throw
Ask(r, place, next) ==
  /\ At(r, place)
  /\ db' = Request(r).db
  /\ run' = [run EXCEPT ![r] = IF ~Request(r).ok THEN Ends(r, "failed")
                               ELSE IF next = "completed" THEN Ends(r, next)
                               ELSE [@ EXCEPT !.at = next, !.made = Opened(r)]]
  /\ Quiet

\* a fault: a refused claim is not noticed
ClaimUnheard(r) ==
  /\ At(r, "load")
  /\ db' = Request(r).db
  /\ run' = [run EXCEPT ![r] = [@ EXCEPT !.won = TRUE, !.at = "check"]]
  /\ Quiet

\* a refused claim ends the run in peace: another one has the alert
Claim(r) ==
  /\ At(r, "load")
  /\ db' = Request(r).db
  /\ run' = [run EXCEPT ![r] = [@ EXCEPT !.won = Request(r).ok,
                                        !.at = IF Request(r).ok THEN "check" ELSE "completed"]]
  /\ Quiet

\* what follows from the verdict: only a true positive touches cases
Outcome(verdict, cand) ==
  IF verdict # "true_positive" THEN "final" ELSE IF cand # 0 THEN "pickup" ELSE "create"

\* the advice written back: that of the model (human: any but close), unless the verdict is
\* a true positive
Advices(verdict, cand) ==
  IF verdict # "true_positive" THEN {"close", "human"} ELSE {IF cand # 0 THEN "merge" ELSE "create"}

Judged(row, cand, blind, verdict, advice) ==
  [row EXCEPT !.cand = cand, !.seen = Len(db.kase), !.blind = blind, !.verdict = verdict,
              !.advice = advice, !.at = Outcome(verdict, cand)]

\* verdict_llm: the model may say anything; an answer that contradicts the check, or two
\* that cannot be parsed, are made uncertain
Judge(r, cand, blind) ==
  \E verdict \in Final : \E advice \in Advices(verdict, cand) :
    run' = [run EXCEPT ![r] = Judged(run[r], cand, blind, verdict, advice)]

\* a fault: a case someone works on is not active
NewCaseOnly == IF \E c \in DOMAIN db.kase : db.kase[c].status = "New" THEN NewestActiveCase(db) ELSE 0

Candidate == NewestActiveCase(db)

\* merge_check, self_audit_checkpoint, verdict_llm: what they see is not written before outcome
MergeCheck(r) == At(r, "check") /\ Judge(r, Candidate, FALSE) /\ UNCHANGED db /\ Quiet

Pickup(r) == Ask(r, "pickup", "merge")
Merge(r) == Ask(r, "merge", "final")
Create(r) == Ask(r, "create", "final")
WriteOutcome(r) == Ask(r, "final", "completed")

\* a confirmed close reads the alert once and remembers its verdict
LoadCloseTarget(r) ==
  /\ At(r, "load_close")
  /\ LET row == db.alert[run[r].alert]
         closable == row.verdict \in Final /\ row.advice = "close" /\ row.status # "Closed"
     IN run' = [run EXCEPT ![r] = IF closable THEN [@ EXCEPT !.verdict = row.verdict, !.at = "pickup_close"]
                                  ELSE Ends(r, "failed")]
  /\ UNCHANGED db /\ Quiet

PickupClose(r) == Ask(r, "pickup_close", "close")
ExecuteClose(r) == Ask(r, "close", "completed")

RunStep(r) ==
  \/ Claim(r) \/ MergeCheck(r) \/ Pickup(r) \/ Merge(r) \/ Create(r) \/ WriteOutcome(r)
  \/ LoadCloseTarget(r) \/ PickupClose(r) \/ ExecuteClose(r)

-----------------------------------------------------------------------------
(* Faults *)

\* nobody but an analyst moves the status of a case
CaseTouches ==
  Cardinality({c \in DOMAIN db.kase : db.kase[c].status # "New"})
    + Cardinality({c \in DOMAIN db.kase : db.kase[c].status = "Closed"})

\* a fault, which may leave a call half done, takes the room of two touches
Leeway == 2 * faults + touches + CaseTouches < MaxTroubles

Fault == faults < MaxFaults /\ Leeway /\ faults' = faults + 1

\* a ticket is refused, the model cannot be reached or a call gets no answer: the run fails
\* and the case backend may have served it nevertheless
RunFails(r) ==
  /\ Running(r) /\ Fault
  /\ \/ db' = db /\ run' = [run EXCEPT ![r] = Ends(r, "failed")]
     \/ db' = Request(r).db /\ run' = [run EXCEPT ![r] = Over(r, "failed", Opened(r))]
  /\ UNCHANGED <<cursor, polling, touches, history>>

\* an error answer to the claim counts as a refusal, one to the merge check as no case
MisreadError(r) ==
  /\ Fault
  /\ \/ At(r, "load") /\ run' = [run EXCEPT ![r] = [@ EXCEPT !.blind = TRUE, !.at = "completed"]]
     \/ At(r, "check") /\ Judge(r, 0, TRUE)
  /\ UNCHANGED <<db, cursor, polling, touches, history>>

\* the agent restarts: running runs are failed, queued ones stay
Crash ==
  /\ Fault
  /\ run' = [r \in RunIds |-> IF Running(r) THEN Ends(r, "failed") ELSE run[r]]
  /\ polling' = FALSE
  /\ UNCHANGED <<db, cursor, touches, history>>

-----------------------------------------------------------------------------
(* Analysts: requests that are granted; refused ones change nothing *)

Touch(answer) ==
  /\ touches < MaxTouches /\ Leeway /\ touches' = touches + 1
  /\ answer.ok /\ db' = answer.db
  /\ UNCHANGED <<agent, faults>>

TouchCase(answer) ==
  /\ CaseTouches < MaxTouches /\ Leeway
  /\ answer.ok /\ db' = answer.db
  /\ UNCHANGED <<agent, faults, touches>>

AnalystCloses(a, verdict) ==
  /\ Touch(CloseAlert(db, a, verdict))
  /\ overruled' = overruled \cup {a}
  /\ cleared' = IF verdict = None THEN cleared \cup {a} ELSE cleared

AnalystActs ==
  /\ \/ \E a \in Alerts :
          \/ Touch(ReopenAlert(db, a)) \/ Touch(CreateCaseFromAlert(db, a))
          \/ \E c \in DOMAIN db.kase : Touch(MergeAlertIntoCase(db, a, c))
     \/ \E c \in DOMAIN db.kase :
          \/ TouchCase(PatchCase(db, c, "InProgress"))
          \/ \E verdict \in Final : TouchCase(CloseCase(db, c, verdict))
  /\ UNCHANGED history

-----------------------------------------------------------------------------

Next ==
  \/ \E a \in Alerts : Forward(a)
  \/ Poll \/ MoveCursor \/ DispatchTick
  \/ \E kind \in {"alert_flow", "close_flow"}, a \in Alerts : PostRun(kind, a)
  \/ \E r \in RunIds : RunStep(r) \/ RunFails(r) \/ MisreadError(r)
  \/ Crash \/ AnalystActs
  \/ \E a \in Alerts, verdict \in Final \cup {None} : AnalystCloses(a, verdict)

Spec == Init /\ [][Next]_vars

\* autorun polls on a timer, the dispatcher on another, a call is answered or times out
FairSpec ==
  /\ Spec
  /\ WF_vars(Poll \/ MoveCursor) /\ WF_vars(DispatchTick)
  /\ \A r \in RunIds : WF_vars(RunStep(r))

=============================================================================
