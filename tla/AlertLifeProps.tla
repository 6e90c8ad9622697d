---------------------------- MODULE AlertLifeProps ----------------------------
(***************************************************************************)
(* What must hold of an alert between its webhook and its verdict.         *)
(***************************************************************************)
EXTENDS AlertLife
LOCAL INSTANCE TLC

\* alerts are interchangeable
AlertSymmetry == Permutations(Alerts)

Verdicts == {None, "in-progress"} \cup Final

Hints == {None, "close", "human", "merge", "create"}

Rows == [status : {"absent", "New", "InProgress", "Imported", "Closed"},
         verdict : Verdicts, advice : Hints, home : Nat]

Cases == [status : {"New", "InProgress", "Closed"}, linked : Seq(Alerts)]

Events == [topic : {"alert.created"}, ref : Alerts] \cup [topic : {"case.closed"}, ref : Nat]

Places == {None, "queued", "completed", "failed"} \cup TriagePath \cup ClosePath

Runs == [kind : {None, "alert_flow", "close_flow"}, alert : Alerts \cup {None}, at : Places,
         won : BOOLEAN, cand : Nat, seen : Nat, made : Nat, blind : BOOLEAN,
         verdict : {None} \cup Final, advice : Hints]

\* The type invariant of the tables, the run rows and the cursor.
TypeOK ==
  /\ db \in [alert : [Alerts -> Rows], kase : Seq(Cases), outbox : Seq(Events)]
  /\ run \in [RunIds -> Runs]
  /\ cursor \in 0 .. Len(db.outbox) /\ polling \in BOOLEAN
  /\ polling => cursor < Len(db.outbox)
  /\ faults \in 0 .. MaxFaults /\ touches \in 0 .. MaxTouches
  /\ overruled \subseteq Alerts /\ cleared \subseteq overruled

TriagesOf(a) == {r \in RunIds : run[r].kind = "alert_flow" /\ run[r].alert = a}

\* An alert is triaged once (FR-M4.5): of all the runs launched for it by autorun, by
\* analysts and after failures, at most one wins the claim, unless an analyst closed the
\* alert without a verdict and so gave it back.
SoleTriager ==
  \A a \in Alerts \ cleared : \A r, s \in TriagesOf(a) : run[r].won /\ run[s].won => r = s

\* Unless an analyst lays hands on alerts an alert is linked to one case at most, once, whatever its
\* runs did before they failed.
OneCasePerAlert ==
  touches = 0 =>
    \A c, d \in DOMAIN db.kase :
      \A i \in DOMAIN db.kase[c].linked, j \in DOMAIN db.kase[d].linked :
        db.kase[c].linked[i] = db.kase[d].linked[j] => c = d /\ i = j

\* Two triage runs open two cases of a host, the first of which is open still, only when
\* the second one asked for active cases before the first one opened its case, its question
\* got an error, or the first case could no longer be found: another case was opened from
\* its alert, closed meanwhile, and took the observables away (store.ts:430, 739-751).
SplitOnlyByRace ==
  \A r, s \in Launched :
    run[r].made # 0 /\ run[s].made > run[r].made /\ db.kase[run[r].made].status # "Closed"
      => \/ run[s].seen < run[r].made \/ run[s].blind
         \/ db.alert[run[r].alert].home # run[r].made

\* A final verdict stands (store.ts:571) unless an analyst closes the alert over it.
FinalVerdictStands ==
  [][\A a \in Alerts : db.alert[a].verdict \in Final /\ a \notin overruled' =>
       db'.alert[a].verdict = db.alert[a].verdict]_vars

\* A closed case is frozen (INV-10), also for a run that chose it as merge target while
\* it was open.
ClosedCaseFrozen ==
  [][\A c \in DOMAIN db.kase : db.kase[c].status = "Closed" => db'.kase[c] = db.kase[c]]_vars

\* Every alert stored is judged, unless one of its runs failed, took an error for a
\* refused claim, or an analyst closed it.
EveryAlertJudged ==
  \A a \in Alerts :
    Stored(db, a) ~>
      \/ db.alert[a].verdict \in Final \/ a \in overruled
      \/ \E r \in TriagesOf(a) : At(r, "failed") \/ run[r].blind

\* An alert belongs to one case, and the alerts of a host to one case unless two runs
\* raced for it, an answer was an error, or the earlier case had lost the observables it is
\* found by (triage/flow.ts:188, 313).
CasesStayWhole == OneCasePerAlert /\ SplitOnlyByRace

\* What is final stays: a verdict (store.ts:571-600) unless an analyst closes the alert
\* over it, and a closed case (store.ts:447-498, 623-660).
FinalStays == FinalVerdictStands /\ ClosedCaseFrozen

=============================================================================
