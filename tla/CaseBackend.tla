----------------------------- MODULE CaseBackend -----------------------------
(***************************************************************************)
(* The alerts, cases and outbox of the case backend (case-backend/src/).   *)
(* A request is one SQLite transaction: it is refused and changes nothing, *)
(* or it makes all of its changes, the outbox event among them.            *)
(*                                                                         *)
(* db.alert maps alert ids to rows, db.kase holds the cases in the order   *)
(* of their numbers, db.outbox the events in the order of their ids.  All  *)
(* alerts are of one host, all cases younger than the merge window.  An    *)
(* alert's home is the case its own observables are filed under, 0 for     *)
(* none; the copies a merge makes of them stay in the case they are made   *)
(* for.                                                                    *)
(***************************************************************************)
EXTENDS Naturals, Sequences

None == "none"

\* benign_true_positive takes every path that false_positive takes
Final == {"true_positive", "false_positive", "uncertain"}

AlertMoves == {<<"New", "InProgress">>, <<"InProgress", "Imported">>,
               <<"InProgress", "Closed">>, <<"Closed", "InProgress">>}
CaseMoves == {<<"New", "InProgress">>, <<"InProgress", "Closed">>}

Absent == [status |-> "absent", verdict |-> None, advice |-> None, home |-> 0]
EmptyDb(alerts) == [alert |-> [a \in alerts |-> Absent], kase |-> <<>>, outbox |-> <<>>]

Stored(db, a) == db.alert[a].status # "absent"
IsCase(db, c) == c \in DOMAIN db.kase
AlertMay(db, a, to) == <<db.alert[a].status, to>> \in AlertMoves

\* rows with the name of the host: those of the alerts that call the case their home, and the
\* copies made for the alerts merged into it, which stand behind the one it was opened from
HasHost(db, c) == Len(db.kase[c].linked) > 1 \/ \E a \in DOMAIN db.alert : db.alert[a].home = c

\* the cases that GET /cases/active returns: open, and found through the observables they
\* hold now
ActiveCases(db) ==
  {c \in DOMAIN db.kase : db.kase[c].status \in {"New", "InProgress"} /\ HasHost(db, c)}
NewestActiveCase(db) ==
  IF ActiveCases(db) = {} THEN 0
  ELSE CHOOSE c \in ActiveCases(db) : \A d \in ActiveCases(db) : d <= c

-----------------------------------------------------------------------------
(* Requests: [ok, db] after the transaction *)

Txn(db, ok, after) == [ok |-> ok, db |-> IF ok THEN after ELSE db]

Emit(db, topic, ref) == [db EXCEPT !.outbox = Append(@, [topic |-> topic, ref |-> ref])]

\* an alert seen before only counts up its occurrences
IngestAlert(db, a) ==
  Txn(db, TRUE, IF Stored(db, a) THEN db
                ELSE Emit([db EXCEPT !.alert[a].status = "New"], "alert.created", a))

NewCase(a) == [status |-> "New", linked |-> <<a>>]

\* the alert's observables move to the new case, out of the one they were in
CreateCaseFromAlert(db, a) ==
  Txn(db, AlertMay(db, a, "InProgress"),
      [db EXCEPT !.alert[a] = [@ EXCEPT !.status = "InProgress", !.home = Len(db.kase) + 1],
                 !.kase = Append(@, NewCase(a))])

\* a fault: the target is not looked at
MergeIntoAnyCase(db, a, c) ==
  Txn(db, IsCase(db, c) /\ AlertMay(db, a, "Imported"),
      [db EXCEPT !.alert[a].status = "Imported", !.kase[c].linked = Append(@, a)])

MergeAlertIntoCase(db, a, c) ==
  Txn(db, IsCase(db, c) /\ db.kase[c].status # "Closed" /\ AlertMay(db, a, "Imported"),
      [db EXCEPT !.alert[a].status = "Imported", !.kase[c].linked = Append(@, a)])

\* nothing reads a case's verdict back
CloseCase(db, c, verdict) ==
  Txn(db, IsCase(db, c) /\ verdict \in Final /\ <<db.kase[c].status, "Closed">> \in CaseMoves,
      Emit([db EXCEPT !.kase[c].status = "Closed"], "case.closed", c))

\* what the fields of a case hold is left out
PatchCase(db, c, to) ==
  Txn(db, IsCase(db, c) /\ to # "Closed" /\ <<db.kase[c].status, to>> \in CaseMoves,
      [db EXCEPT !.kase[c].status = to])

\* the verdict of the body replaces the alert's, also when the body has none
CloseAlert(db, a, verdict) ==
  Txn(db, AlertMay(db, a, "Closed") /\ verdict \in Final \cup {None},
      [db EXCEPT !.alert[a] = [@ EXCEPT !.status = "Closed", !.verdict = verdict]])

ReopenAlert(db, a) ==
  Txn(db, AlertMay(db, a, "InProgress"), [db EXCEPT !.alert[a].status = "InProgress"])

\* a fault: the claim does not ask whether the alert has a verdict
ClaimAnything(db, a, verdict) == verdict = "in-progress" \/ (verdict \in Final /\ db.alert[a].verdict = "in-progress")

\* in-progress is a lock: taken from no verdict only, and left for a final verdict only
VerdictMay(db, a, verdict) ==
  \/ verdict = "in-progress" /\ db.alert[a].verdict = None
  \/ verdict \in Final /\ db.alert[a].verdict = "in-progress"

\* the three fields are optional, None is a field left out
PatchAlert(db, a, verdict, advice, status) ==
  LET row == db.alert[a]
      Put(field, value) == IF value = None THEN field ELSE value
  IN Txn(db,
         /\ Stored(db, a)
         /\ verdict = None \/ VerdictMay(db, a, verdict)
         /\ advice # None /\ verdict = None => row.verdict # None
         /\ status \in {None, row.status} \/ AlertMay(db, a, status),
         [db EXCEPT !.alert[a] = [row EXCEPT !.verdict = Put(row.verdict, verdict),
                                             !.advice = Put(row.advice, advice),
                                             !.status = Put(row.status, status)]])

=============================================================================
