------------------------------- MODULE CaseWork -------------------------------
(***************************************************************************)
(* Work on one case: runs of the investigation and enrichment chain        *)
(* (workers/case-flow.ts) read and write its observables and timeline in   *)
(* the case backend while alerts are merged into it and analysts add to it.*)
(*                                                                         *)
(* Every tool call is an await behind the ticket gate.  What the model     *)
(* answers is arbitrary; what a service answers may be an error.  A run    *)
(* may be killed (budget, cancellation, restart) between any two steps.    *)
(***************************************************************************)
EXTENDS Naturals, Sequences, FiniteSets, SequencesExt

CONSTANTS
  Runs,        \* runs of the chain, one investigation and one enrichment each
  Alerts,      \* alerts of the case: [data, stamp, words]
  TypeOf,      \* dataType of every observable value
  Artifacts,   \* what the analyzers' table extracts from a value
  ManualMarks, \* TLP an analyst may give a value
  Calls,       \* calls the model may choose: [tool, wellFormed, kind]
  MaxSteps,    \* LOOP_MAX_STEPS
  MaxManual,   \* bound on observables added by analysts
  MaxActive    \* bound on runs under way at once

Values == DOMAIN TypeOf

\* an alert: its observable values, the TLP stamp of its rule if there is one, and
\* the TLP words in the groups and the description of the rule
ASSUME CaseWorkAssumption ==
  /\ \A a \in Alerts : a.data \subseteq Values /\ IsFiniteSet(a.data)
                       /\ a.stamp \cup a.words \subseteq 0..4
  /\ Artifacts \in [Values -> SUBSET Values] /\ \A d \in Values : IsFiniteSet(Artifacts[d])
  /\ ManualMarks \subseteq Nat
  /\ MaxSteps \in Nat \ {0} /\ MaxManual \in Nat /\ MaxActive \in Nat

VARIABLES
  case,       \* "none", "open" (New or InProgress) or "closed"
  rows,       \* observables of the case in the order of insertion: [data, tlp, pap, from]
  timeline,   \* the entries runs wrote: [kind, by, flow]
  linked,     \* alerts turned into the case or merged into it
  manual,     \* observables added by analysts
  work,       \* the state of each run: a local of a node is lost when the node ends
  served,     \* history: the tools whose service executed a call of the run
  lookedUp    \* history: the rows the run sent to an analyzer

store == <<case, rows, timeline, linked, manual>>
vars == <<store, work, served, lookedUp>>

INVESTIGATION_TOOLS == {"get_alert", "siem_query", "related_alerts", "kb_verify",
                        "add_timeline_entry", "add_task_log"}
NoCall == [tool |-> "none", wellFormed |-> FALSE, kind |-> "none"]
NoReport == [degraded |-> FALSE, incomplete |-> FALSE, cites |-> {}]
NoTally == [rows |-> 0, items |-> {}, skipped |-> 0, refused |-> 0]

\* ticket: is it valid; overspent: is the token budget exceeded
Fresh == [at |-> "idle", ticket |-> TRUE, overspent |-> FALSE,
          steps |-> 0, seen |-> {}, executed |-> {}, call |-> NoCall, cut |-> FALSE,
          retried |-> FALSE, report |-> NoReport,
          next |-> 1, finds |-> <<>>, tally |-> NoTally]

Init ==
  /\ case = "none" /\ rows = <<>> /\ timeline = {} /\ linked = {} /\ manual = 0
  /\ work = [r \in Runs |-> Fresh]
  /\ served = [r \in Runs |-> {}] /\ lookedUp = [r \in Runs |-> {}]

-----------------------------------------------------------------------------
(* The case backend *)

Marks(a) == IF a.stamp # {} THEN a.stamp ELSE IF a.words # {} THEN a.words ELSE {2}

\* the stamp of the rule, else the strictest of its words, else 2
TlpFromAlert(a) == Max(Marks(a))

\* an alert's observables carry its mark
AlertRows(a) ==
  SetToSeq({[data |-> d, tlp |-> TlpFromAlert(a), pap |-> 2, from |-> "alert"] : d \in a.data})

\* createCaseFromAlert, or mergeAlertIntoCase, which copies all rows as they are
LinkAlert(a) ==
  /\ a \notin linked /\ case \in {"none", "open"}
  /\ case' = "open"
  /\ linked' = linked \cup {a}
  /\ rows' = rows \o AlertRows(a)
  /\ UNCHANGED <<timeline, manual, work, served, lookedUp>>

CloseCase ==
  /\ case = "open" /\ case' = "closed"
  /\ UNCHANGED <<rows, timeline, linked, manual, work, served, lookedUp>>

Known(d) == \E i \in DOMAIN rows : rows[i].data = d

\* a fault: the repeated value gets a row of its own, with the default marks
AddRowAlways(d, tlp, from) ==
  rows' = Append(rows, [data |-> d, tlp |-> tlp, pap |-> 2, from |-> from])

\* addCaseObservable: a value the case knows keeps its row and its marks; the
\* marks of a new one are those given, or 2
AddCaseObservable(d, tlp, from) ==
  rows' = IF Known(d) THEN rows ELSE Append(rows, [data |-> d, tlp |-> tlp, pap |-> 2, from |-> from])

AnalystAdds(d, tlp) ==
  /\ case # "none" /\ manual < MaxManual /\ manual' = manual + 1
  /\ AddCaseObservable(d, tlp, "analyst")
  /\ UNCHANGED <<case, timeline, linked, work, served, lookedUp>>

\* flow is false for the entries the model chose to write; the author is the same
AddTimelineEntry(kind, r, flow) ==
  timeline' = timeline \cup {[kind |-> kind, by |-> r, flow |-> flow]}

-----------------------------------------------------------------------------
(* Runs *)

At(r, place) == work[r].at = place
Move(r, fields) ==
  work' = [work EXCEPT ![r] = [f \in DOMAIN @ |-> IF f \in DOMAIN fields THEN fields[f] ELSE @[f]]]
Goto(r, place) == Move(r, [at |-> place])
\* on to the next node, or to the end
Leave(r, place) ==
  work' = [work EXCEPT ![r] = [Fresh EXCEPT !.at = place, !.ticket = work[r].ticket]]
Fails(r) == work' = [work EXCEPT ![r] = [Fresh EXCEPT !.at = "failed"]]
Over(r) == work[r].at \in {"done", "failed"}

\* makeGatedCall: the ticket allows all tools of both chains; a denial ends the run
Denied(r) == ~work[r].ticket

\* a call of the model is answered in time and within the budget, or it raises
\* BudgetExceeded: charge does so ever after
CanAnswer(r) == ~work[r].overspent

\* no case_id: both nodes of the chain return at once
Start(r) ==
  /\ At(r, "idle")
  /\ Cardinality({s \in Runs : ~At(s, "idle") /\ ~Over(s)}) < MaxActive
  /\ Goto(r, IF case = "none" THEN "done" ELSE "load_case")
  /\ UNCHANGED <<store, served, lookedUp>>

\* the case, its first alert, and the scan of its fields
LoadCase(r) ==
  /\ At(r, "load_case")
  /\ \/ ~Denied(r) /\ Goto(r, "plan")
     \/ Fails(r)
  /\ UNCHANGED <<store, served, lookedUp>>

Plan(r) ==
  /\ At(r, "plan")
  /\ Goto(r, "decide") \/ Fails(r)
  /\ UNCHANGED <<store, served, lookedUp>>

\* fingerprint: tool and parameters
Untried(r, c) == c \notin work[r].seen

WellFormed(c) == c.tool \in INVESTIGATION_TOOLS /\ c.wellFormed

\* a fault: a call that is not executed costs no step
StepsUnlessRefused(r, c) == work[r].steps + (IF Untried(r, c) /\ WellFormed(c) THEN 1 ELSE 0)

StepsAfter(r, c) == work[r].steps + 1

\* one turn of the loop: the model finishes, or names a call, which goes to the
\* gate only if it is new and well-formed
Decide(r) ==
  /\ At(r, "decide") /\ work[r].steps < MaxSteps
  /\ \/ CanAnswer(r) /\ Goto(r, "report")
     \/ /\ CanAnswer(r)
        /\ \E c \in Calls :
             Move(r, [at |-> IF Untried(r, c) /\ WellFormed(c) THEN "tool" ELSE "decide",
                      steps |-> StepsAfter(r, c), seen |-> work[r].seen \cup {c},
                      call |-> c])
     \/ Fails(r)
  /\ UNCHANGED <<store, served, lookedUp>>

Truncate(r) ==
  /\ At(r, "decide") /\ work[r].steps = MaxSteps
  /\ Move(r, [at |-> "report", cut |-> TRUE])
  /\ UNCHANGED <<store, served, lookedUp>>

WritesTimeline(c) == c.tool \in {"add_timeline_entry", "add_task_log"}

\* what the service does with the call
Serve(r, c) ==
  /\ served' = [served EXCEPT ![r] = @ \cup {c.tool}]
  /\ IF WritesTimeline(c) THEN AddTimelineEntry(c.kind, r, FALSE) ELSE UNCHANGED timeline

\* a fault: a tool counts as executed when it is called
TriedAsExecuted(r, answered) == work[r].executed \cup {work[r].call.tool}

ExecutedAfter(r, answered) == work[r].executed \cup (IF answered THEN {work[r].call.tool} ELSE {})

\* gate and execTool: an error of the tool, or a lost answer, is an observation
\* like another; a denial is not
CallTool(r) ==
  /\ At(r, "tool")
  /\ \/ /\ ~Denied(r)
        /\ \E answered \in BOOLEAN :
             /\ Serve(r, work[r].call) \/ (~answered /\ UNCHANGED <<served, timeline>>)
             /\ Move(r, [at |-> IF answered THEN "observe" ELSE "decide",
                         executed |-> ExecutedAfter(r, answered)])
     \/ Denied(r) /\ Fails(r) /\ UNCHANGED <<served, timeline>>
  /\ UNCHANGED <<case, rows, linked, manual, lookedUp>>

\* scan, spill or summarize the output; a summarizing call may pass the budget, and
\* what it raises is caught as an error of the tool
Observe(r) ==
  /\ At(r, "observe")
  /\ \E passed \in BOOLEAN :
       Move(r, [at |-> "decide", overspent |-> work[r].overspent \/ passed])
  /\ UNCHANGED <<store, served, lookedUp>>

EvidenceOk(cites, executed) == cites \subseteq executed

CalledTools == {c.tool : c \in Calls}

\* the report is taken when it parses and cites executed tools only; it is asked
\* for twice, then what came is kept as free text
Report(r) ==
  /\ At(r, "report")
  /\ \/ Fails(r)
     \/ /\ CanAnswer(r)
        /\ \/ \E cites \in SUBSET CalledTools, claims \in BOOLEAN :
                /\ EvidenceOk(cites, work[r].executed)
                /\ Move(r, [at |-> "write",
                            report |-> [degraded |-> FALSE, cites |-> cites,
                                        incomplete |-> work[r].cut \/ claims]])
           \/ ~work[r].retried /\ Move(r, [retried |-> TRUE])
           \/ /\ work[r].retried
              /\ Move(r, [at |-> "write",
                          report |-> [degraded |-> TRUE, cites |-> {}, incomplete |-> work[r].cut]])
  /\ UNCHANGED <<store, served, lookedUp>>

\* a write of the flow itself: a denial, an error or a lost answer ends the run
FlowWrites(r, kind, next) ==
  /\ \/ ~Denied(r) /\ AddTimelineEntry(kind, r, TRUE) /\ (Leave(r, next) \/ Fails(r))
     \/ Fails(r) /\ UNCHANGED timeline
  /\ UNCHANGED <<case, rows, linked, manual, served, lookedUp>>

WriteTimeline(r) ==
  /\ At(r, "write")
  /\ FlowWrites(r, "investigation_report", "load_enrich")

-----------------------------------------------------------------------------
(* Enrichment *)

HasAnalyzer(i) == TypeOf[rows[i].data] \in {"hash", "domain", "fqdn", "ip"}

\* the observables as they are now; those without an analyzer are only counted
LoadEnrich(r) ==
  /\ At(r, "load_enrich")
  /\ \/ Move(r, [at |-> "enrich",
                  tally |-> [NoTally EXCEPT !.rows = Len(rows),
                                            !.skipped = Cardinality({i \in DOMAIN rows : ~HasAnalyzer(i)})]])
     \/ Fails(r)
  /\ UNCHANGED <<store, served, lookedUp>>

\* validateToolCall: marks out of range
Malformed(i) == rows[i].tlp > 4 \/ rows[i].pap > 3

\* both analyzers: max_tlp 2, max_pap 2
TlpPapGate(i) == rows[i].tlp <= 2 /\ rows[i].pap <= 2

Pending(r) == work[r].next <= work[r].tally.rows

\* a fault: an error of the analyzer is an item, and not counted as refused
TalliedUnrefused(r, ok) ==
  [work[r].tally EXCEPT !.items = @ \cup {[row |-> work[r].next, ok |-> ok]}]

Tallied(r, ok) ==
  [work[r].tally EXCEPT !.items = @ \cup {[row |-> work[r].next, ok |-> ok]},
                        !.refused = @ + (IF ok THEN 0 ELSE 1)]

\* the next observable: passed over, refused by its marks, or sent to its analyzer
Analyze(r) ==
  /\ At(r, "enrich") /\ Pending(r)
  /\ LET i == work[r].next IN
     \/ ~HasAnalyzer(i) /\ Move(r, [next |-> i + 1]) /\ UNCHANGED lookedUp
     \/ /\ HasAnalyzer(i) /\ ~Malformed(i) /\ Denied(r)
        /\ Fails(r) /\ UNCHANGED lookedUp
     \/ /\ HasAnalyzer(i)
        /\ IF Denied(r) THEN Malformed(i) ELSE Malformed(i) \/ ~TlpPapGate(i)
        /\ Move(r, [next |-> i + 1, tally |-> Tallied(r, FALSE)]) /\ UNCHANGED lookedUp
     \/ /\ HasAnalyzer(i) /\ ~Malformed(i) /\ ~Denied(r) /\ TlpPapGate(i)
        /\ lookedUp' = [lookedUp EXCEPT ![r] = @ \cup {i}] /\ Goto(r, "lookup")
  /\ UNCHANGED <<store, served>>

\* a hit with its artifacts, no record, or an error of the analyzer
AnalyzerAnswers(r) ==
  /\ At(r, "lookup")
  /\ LET i == work[r].next IN
     \/ Move(r, [at |-> "artifact", tally |-> Tallied(r, TRUE),
                 finds |-> SetToSeq(Artifacts[rows[i].data])])
     \/ Move(r, [at |-> "enrich", next |-> i + 1, tally |-> Tallied(r, TRUE)])
     \/ Move(r, [at |-> "enrich", next |-> i + 1, tally |-> Tallied(r, FALSE)])
  /\ UNCHANGED <<store, served, lookedUp>>

\* artifacts are written back one by one, without marks
WriteArtifact(r) ==
  /\ At(r, "artifact")
  /\ \/ /\ work[r].finds = <<>>
        /\ Move(r, [at |-> "enrich", next |-> work[r].next + 1]) /\ UNCHANGED rows
     \/ /\ work[r].finds # <<>> /\ ~Denied(r)
        /\ AddCaseObservable(Head(work[r].finds), 2, "analyzer")
        /\ Move(r, [finds |-> Tail(work[r].finds)]) \/ Fails(r)
     \/ work[r].finds # <<>> /\ Fails(r) /\ UNCHANGED rows
  /\ UNCHANGED <<case, timeline, linked, manual, served, lookedUp>>

WriteReport(r) ==
  /\ At(r, "enrich") /\ ~Pending(r)
  /\ FlowWrites(r, "enrichment_report", "done")

-----------------------------------------------------------------------------

\* the ticket lives for minutes; budget, cancellation and restart end a run anywhere
Expire(r) ==
  /\ ~At(r, "idle") /\ ~Over(r) /\ work[r].ticket
  /\ Move(r, [ticket |-> FALSE])
  /\ UNCHANGED <<store, served, lookedUp>>

Killed(r) ==
  /\ ~Over(r) /\ ~At(r, "idle")
  /\ Fails(r)
  /\ UNCHANGED <<store, served, lookedUp>>

Chain(r) ==
  \/ Start(r) \/ LoadCase(r) \/ Plan(r) \/ Decide(r) \/ Truncate(r) \/ CallTool(r)
  \/ Observe(r) \/ Report(r) \/ WriteTimeline(r)
  \/ LoadEnrich(r) \/ Analyze(r) \/ AnalyzerAnswers(r) \/ WriteArtifact(r) \/ WriteReport(r)

Next ==
  \/ \E a \in Alerts : LinkAlert(a)
  \/ CloseCase
  \/ \E d \in Values, tlp \in ManualMarks : AnalystAdds(d, tlp)
  \/ \E r \in Runs : Chain(r) \/ Expire(r) \/ Killed(r)

Spec == Init /\ [][Next]_vars

\* every call of a run is answered or times out, and the run goes on
FairSpec == Spec /\ \A r \in Runs : WF_vars(Chain(r))

=============================================================================
