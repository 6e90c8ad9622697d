---------------------------- MODULE AlertLifeProofs ----------------------------
(***************************************************************************)
(* What TLAPS proves of AlertLife, for every set of alerts and any number  *)
(* of runs, faults and acts of analysts: an alert is triaged once and      *)
(* belongs to one case, a final verdict stands and a closed case is        *)
(* frozen.                                                                 *)
(***************************************************************************)
EXTENDS AlertLifeProps, FiniteSetTheorems, SequenceTheorems, TLAPS

-----------------------------------------------------------------------------
(* The inductive invariant *)

\* the places of a run that has won the claim
Judging == {"check", "pickup", "merge", "create", "final"}

\* the places of a run that has linked its alert to no case yet
Unlinked == {"check", "pickup", "merge", "create"}

\* what a run's place says of it
PlaceTells(row) ==
  /\ row.kind = None => row = NoRun
  /\ row.kind # None => row.alert \in Alerts /\ row.at # None
  /\ row.at \in TriagePath => row.kind = "alert_flow"
  /\ row.at \in ClosePath => row.kind = "close_flow"
  /\ row.at \in Judging => row.won
  /\ row.at \in {"queued", "load"} \cup Unlinked => row.made = 0
  /\ row.at \in {"pickup", "merge", "create", "final", "pickup_close", "close"} => row.verdict \in Final

PlacesTell == \A r \in RunIds : PlaceTells(run[r])

\* run rows are numbered without a gap
Numbered == \E n \in Nat : Launched = 1 .. n

\* an alert with a winner has a verdict
WinnerHolds ==
  \A r \in RunIds : run[r].won /\ run[r].kind = "alert_flow" /\ run[r].alert \notin cleared
    => db.alert[run[r].alert].verdict # None

\* a confirmed close remembers the verdict that stands
CloseRemembers ==
  \A r \in RunIds : run[r].at \in {"pickup_close", "close"} /\ run[r].alert \notin overruled
    => db.alert[run[r].alert].verdict = run[r].verdict

Linked(a) == \E c \in DOMAIN db.kase : \E i \in DOMAIN db.kase[c].linked : db.kase[c].linked[i] = a

\* by its own runs an alert is linked once, after it was claimed
LinkedLate ==
  touches = 0 =>
    /\ overruled = {}
    /\ \A a \in Alerts : Linked(a) => db.alert[a].verdict # None
    /\ \A r \in RunIds : run[r].at \in Unlinked => ~Linked(run[r].alert)

\* a run about to open a case saw none it could find: each was closed, or held no alert's
\* observables any more
CaseHistory ==
  \A r \in RunIds :
    /\ run[r].made <= Len(db.kase) /\ run[r].seen <= Len(db.kase)
    /\ run[r].at = "create" /\ ~run[r].blind =>
         \A c \in 1 .. run[r].seen :
           db.kase[c].status = "Closed" \/ \A a \in Alerts : db.alert[a].home # c

TriageInv == PlacesTell /\ Numbered /\ WinnerHolds /\ SoleTriager
AlertInv == TypeOK /\ TriageInv /\ CloseRemembers /\ LinkedLate /\ CaseHistory /\ CasesStayWhole

-----------------------------------------------------------------------------
(* The requests *)

Db == [alert : [Alerts -> Rows], kase : Seq(Cases), outbox : Seq(Events)]

VerdictOf(d, a) == d.alert[a].verdict
VerdictsStay(d, e) == \A a \in Alerts : VerdictOf(e, a) = VerdictOf(d, a)
HomesStay(d, e) == \A a \in Alerts : e.alert[a].home = d.alert[a].home

\* e differs from d in the row of an alert only, whose verdict is v
SetsVerdict(d, e, a, v) ==
  /\ e \in Db /\ e.kase = d.kase /\ e.outbox = d.outbox /\ HomesStay(d, e)
  /\ \A b \in Alerts : VerdictOf(e, b) = IF b = a THEN v ELSE VerdictOf(d, b)

\* no case goes away, a closed one does not change, nor do the numbers of the events, and
\* observables move to a new case only
Grows(d, e) ==
  /\ Len(d.kase) <= Len(e.kase) /\ Len(d.outbox) <= Len(e.outbox)
  /\ \A c \in 1 .. Len(d.kase) : d.kase[c].status = "Closed" => e.kase[c] = d.kase[c]
  /\ \A a \in Alerts : e.alert[a].home \in {d.alert[a].home, Len(d.kase) + 1}

\* no alert is linked to a case
LinksStay(d, e) ==
  /\ Len(e.kase) = Len(d.kase)
  /\ \A c \in 1 .. Len(d.kase) : e.kase[c].linked = d.kase[c].linked

\* What the type says of the parts of a database.
LEMMA DbParts ==
  ASSUME NEW d \in Db
  PROVE  /\ d.alert \in [Alerts -> Rows]
         /\ d.kase \in Seq(Cases) /\ d.outbox \in Seq(Events)
         /\ Len(d.kase) \in Nat /\ DOMAIN d.kase = 1 .. Len(d.kase)
         /\ \A c \in 1 .. Len(d.kase) : d.kase[c] \in Cases
         /\ Len(d.outbox) \in Nat /\ \A i \in 1 .. Len(d.outbox) : d.outbox[i] \in Events
<1>1. d.alert \in [Alerts -> Rows] /\ d.kase \in Seq(Cases) /\ d.outbox \in Seq(Events)
  BY DEF Db
<1> QED BY <1>1, LenProperties, ElementOfSeq

LEMMA Still == ASSUME NEW d \in Db PROVE VerdictsStay(d, d) /\ HomesStay(d, d) /\ Grows(d, d) /\ LinksStay(d, d)
BY DbParts DEF VerdictsStay, HomesStay, Grows, LinksStay

\* the status a triage may ask for
Goals == {None, "InProgress"}

\* A request for the fields of an alert: cases and events stay, and the verdict moves as
\* the lock allows.
Patched(d, a, v, q) ==
  \/ q.ok = FALSE /\ q.db = d
  \/ /\ q.ok = TRUE /\ SetsVerdict(d, q.db, a, IF v = None THEN VerdictOf(d, a) ELSE v)
     /\ v = "in-progress" => VerdictOf(d, a) = None
     /\ v \in Final => VerdictOf(d, a) = "in-progress"

LEMMA PatchAlertDoes ==
  ASSUME NEW d \in Db, NEW a \in Alerts, NEW v \in Verdicts, NEW w \in Hints, NEW s \in Goals
  PROVE  Patched(d, a, v, PatchAlert(d, a, v, w, s))
<1> DEFINE q == PatchAlert(d, a, v, w, s)
<1> DEFINE row == d.alert[a]
           Put(field, value) == IF value = None THEN field ELSE value
           new == [row EXCEPT !.verdict = Put(row.verdict, v), !.advice = Put(row.advice, w),
                              !.status = Put(row.status, s)]
           ok == /\ Stored(d, a)
                 /\ v = None \/ VerdictMay(d, a, v)
                 /\ w # None /\ v = None => row.verdict # None
                 /\ s \in {None, row.status} \/ AlertMay(d, a, s)
           e == [d EXCEPT !.alert[a] = new]
<1>1. q = Txn(d, ok, e)
  BY DEF PatchAlert
<1> HIDE DEF q
<1>2. d.alert \in [Alerts -> Rows] /\ row \in Rows
  BY DbParts
<1>3. new \in Rows /\ new.home = row.home /\ new.verdict = IF v = None THEN row.verdict ELSE v
  BY <1>2 DEF Rows, Goals, None
<1>4. CASE ~ok
  <2>1. ok = FALSE
    BY <1>4 DEF Stored, VerdictMay, AlertMay
  <2> HIDE DEF ok, e
  <2> QED BY <1>1, <2>1 DEF Txn, Patched, q
<1>5. CASE ok
  <2>1. ok = TRUE
    BY <1>5 DEF Stored, VerdictMay, AlertMay
  <2>2. (v = "in-progress" => row.verdict = None) /\ (v \in Final => row.verdict = "in-progress")
    BY <1>5 DEF VerdictMay, Final, None
  <2> HIDE DEF new, ok
  <2>3. e \in Db /\ e.kase = d.kase /\ e.outbox = d.outbox /\ e.alert = [d.alert EXCEPT ![a] = new]
    BY <1>2, <1>3 DEF Db
  <2> HIDE DEF e
  <2>4. q.ok = TRUE /\ q.db = e
    BY <1>1, <2>1 DEF Txn
  <2>5. \A b \in Alerts : VerdictOf(e, b) = IF b = a THEN new.verdict ELSE VerdictOf(d, b)
    BY <1>2, <2>3 DEF VerdictOf
  <2>7. HomesStay(d, e)
    BY <1>2, <1>3, <2>3 DEF HomesStay
  <2>6. SetsVerdict(d, e, a, IF v = None THEN VerdictOf(d, a) ELSE v)
    BY <1>3, <2>3, <2>5, <2>7 DEF SetsVerdict, VerdictOf
  <2> QED BY <2>2, <2>4, <2>6 DEF VerdictOf, Patched, q
<1> QED BY <1>4, <1>5

\* Closing an alert: cases and events stay, the verdict is that of the request.
LEMMA CloseAlertDoes ==
  ASSUME NEW d \in Db, NEW a \in Alerts, NEW v, NEW q, q = CloseAlert(d, a, v)
  PROVE  \/ q.ok = FALSE /\ q.db = d
         \/ q.ok = TRUE /\ v \in Final \cup {None} /\ SetsVerdict(d, q.db, a, v)
<1> DEFINE ok == AlertMay(d, a, "Closed") /\ v \in Final \cup {None}
           new == [d.alert[a] EXCEPT !.status = "Closed", !.verdict = v]
           e == [d EXCEPT !.alert[a] = new]
<1>1. q = Txn(d, ok, e)
  BY DEF CloseAlert
<1>2. d.alert \in [Alerts -> Rows] /\ d.alert[a] \in Rows
  BY DbParts
<1>3. CASE ~ok
  <2>1. ok = FALSE
    BY <1>3 DEF AlertMay
  <2> HIDE DEF ok, e
  <2>2. q.ok = FALSE /\ q.db = d
    BY <1>1, <2>1 DEF Txn
  <2> QED BY <2>2
<1>4. CASE ok
  <2>1. ok = TRUE
    BY <1>4 DEF AlertMay
  <2>2. new \in Rows /\ new.verdict = v /\ new.home = d.alert[a].home
    BY <1>2, <1>4 DEF Rows, Verdicts
  <2> HIDE DEF new, ok
  <2>3. e \in Db /\ e.kase = d.kase /\ e.outbox = d.outbox /\ e.alert = [d.alert EXCEPT ![a] = new]
    BY <1>2, <2>2 DEF Db
  <2> HIDE DEF e
  <2>4. q.ok = TRUE /\ q.db = e
    BY <1>1, <2>1 DEF Txn
  <2>5. \A b \in Alerts : VerdictOf(e, b) = IF b = a THEN v ELSE VerdictOf(d, b)
    BY <1>2, <2>2, <2>3 DEF VerdictOf
  <2>6. HomesStay(d, e)
    BY <1>2, <2>2, <2>3 DEF HomesStay
  <2> QED BY <1>4, <2>3, <2>4, <2>5, <2>6 DEF SetsVerdict, ok
<1> QED BY <1>3, <1>4

\* A request that sets nothing but the status of an alert.
LEMMA StatusDoes ==
  ASSUME NEW d \in Db, NEW a \in Alerts, NEW s \in {"New", "InProgress", "Imported"}, NEW e,
         e = [d EXCEPT !.alert[a].status = s]
  PROVE  e \in Db /\ e.kase = d.kase /\ e.outbox = d.outbox /\ VerdictsStay(d, e) /\ HomesStay(d, e)
<1>1. d.alert \in [Alerts -> Rows] /\ d.alert[a] \in Rows
  BY DbParts
<1>2. e.alert = [d.alert EXCEPT ![a] = [d.alert[a] EXCEPT !.status = s]]
  BY <1>1 DEF Db, Rows
<1>3. /\ [d.alert[a] EXCEPT !.status = s] \in Rows
      /\ [d.alert[a] EXCEPT !.status = s].verdict = d.alert[a].verdict
      /\ [d.alert[a] EXCEPT !.status = s].home = d.alert[a].home
  BY <1>1 DEF Rows
<1> QED BY <1>1, <1>2, <1>3 DEF Db, VerdictsStay, HomesStay, VerdictOf

\* Storing an alert.
LEMMA IngestAlertDoes ==
  ASSUME NEW d \in Db, NEW a \in Alerts, NEW e, e = IngestAlert(d, a).db
  PROVE  e \in Db /\ Grows(d, e) /\ LinksStay(d, e) /\ VerdictsStay(d, e)
<1>1. CASE Stored(d, a)
  BY <1>1, DbParts DEF IngestAlert, Txn, Grows, LinksStay, VerdictsStay
<1>2. CASE ~Stored(d, a)
  <2> DEFINE f == [d EXCEPT !.alert[a].status = "New"]
             event == [topic |-> "alert.created", ref |-> a]
  <2>1. f \in Db /\ f.kase = d.kase /\ f.outbox = d.outbox /\ VerdictsStay(d, f) /\ HomesStay(d, f)
    BY StatusDoes
  <2> HIDE DEF f
  <2>2. e = [f EXCEPT !.outbox = Append(f.outbox, event)]
    BY <1>2 DEF IngestAlert, Txn, Emit, f
  <2>3. event \in Events /\ f.outbox \in Seq(Events)
    BY <2>1, DbParts DEF Events
  <2>4. Append(f.outbox, event) \in Seq(Events) /\ Len(Append(f.outbox, event)) = Len(f.outbox) + 1
    BY <2>3, AppendProperties
  <2>5. e \in Db /\ e.alert = f.alert /\ e.kase = f.kase /\ e.outbox = Append(f.outbox, event)
    BY <2>1, <2>2, <2>4 DEF Db
  <2> QED BY <2>1, <2>4, <2>5, DbParts DEF Grows, LinksStay, VerdictsStay, HomesStay, VerdictOf
<1> QED BY <1>1, <1>2

\* Opening a case for an alert: the new case links the alert and takes its observables,
\* nothing else is linked.
LEMMA CreateCaseDoes ==
  ASSUME NEW d \in Db, NEW a \in Alerts, NEW q, q = CreateCaseFromAlert(d, a)
  PROVE  /\ q.db \in Db /\ q.ok \in BOOLEAN /\ VerdictsStay(d, q.db) /\ Grows(d, q.db)
         /\ q.db.outbox = d.outbox
         /\ ~q.ok => q.db = d
         /\ q.ok => /\ Len(q.db.kase) = Len(d.kase) + 1 /\ q.db.kase[Len(d.kase) + 1] = NewCase(a)
                    /\ \A c \in 1 .. Len(d.kase) : q.db.kase[c] = d.kase[c]
<1> DEFINE row == [d.alert[a] EXCEPT !.status = "InProgress", !.home = Len(d.kase) + 1]
           f == [d EXCEPT !.alert[a] = row]
           ok == AlertMay(d, a, "InProgress")
           e == [f EXCEPT !.kase = Append(@, NewCase(a))]
<1>12. d.alert \in [Alerts -> Rows] /\ d.alert[a] \in Rows /\ Len(d.kase) + 1 \in Nat
  BY DbParts
<1>13. row \in Rows /\ row.verdict = d.alert[a].verdict /\ row.home = Len(d.kase) + 1
  BY <1>12 DEF Rows
<1>2. q = Txn(d, ok, e)
  BY DEF CreateCaseFromAlert
<1> HIDE DEF row
<1>14. f \in Db /\ f.kase = d.kase /\ f.outbox = d.outbox /\ f.alert = [d.alert EXCEPT ![a] = row]
  BY <1>12, <1>13 DEF Db
<1>1. /\ f \in Db /\ f.kase = d.kase /\ f.outbox = d.outbox /\ VerdictsStay(d, f)
      /\ \A b \in Alerts : f.alert[b].home \in {d.alert[b].home, Len(d.kase) + 1}
  BY <1>12, <1>13, <1>14 DEF VerdictsStay, VerdictOf
<1> HIDE DEF f
<1>3. NewCase(a) \in Cases
  BY DEF NewCase, Cases
<1>4. /\ Append(f.kase, NewCase(a)) \in Seq(Cases) /\ Len(Append(f.kase, NewCase(a))) = Len(f.kase) + 1
      /\ \A i \in 1 .. Len(f.kase) : Append(f.kase, NewCase(a))[i] = f.kase[i]
      /\ Append(f.kase, NewCase(a))[Len(f.kase) + 1] = NewCase(a)
  BY <1>1, <1>3, DbParts, AppendProperties
<1>5. e \in Db /\ e.alert = f.alert /\ e.outbox = f.outbox /\ e.kase = Append(f.kase, NewCase(a))
  BY <1>1, <1>4 DEF Db
<1>6. Grows(d, e) /\ VerdictsStay(d, e)
  BY <1>1, <1>4, <1>5, DbParts DEF Grows, VerdictsStay, VerdictOf
<1>7. Grows(d, d) /\ VerdictsStay(d, d)
  BY Still
<1>8. ok \in BOOLEAN
  BY DEF AlertMay
<1> HIDE DEF ok, e
<1>9. q.ok = ok /\ q.db = IF ok THEN e ELSE d
  BY <1>2 DEF Txn
<1>10. CASE ok
  BY <1>1, <1>4, <1>5, <1>6, <1>9, <1>10
<1>11. CASE ~ok
  BY <1>7, <1>8, <1>9, <1>11
<1> QED BY <1>10, <1>11

\* Merging an alert into a case: the case is open and links the alert besides.
LEMMA MergeAlertDoes ==
  ASSUME NEW d \in Db, NEW a \in Alerts, NEW m \in Nat, NEW q, q = MergeAlertIntoCase(d, a, m)
  PROVE  /\ q.db \in Db /\ q.ok \in BOOLEAN /\ VerdictsStay(d, q.db) /\ Grows(d, q.db)
         /\ q.db.outbox = d.outbox
         /\ ~q.ok => q.db = d
         /\ q.ok => /\ m \in 1 .. Len(d.kase) /\ Len(q.db.kase) = Len(d.kase)
                    /\ q.db.kase[m].status = d.kase[m].status
                    /\ q.db.kase[m].linked = Append(d.kase[m].linked, a)
                    /\ \A c \in 1 .. Len(d.kase) : c # m => q.db.kase[c] = d.kase[c]
<1> DEFINE f == [d EXCEPT !.alert[a].status = "Imported"]
           ok == IsCase(d, m) /\ d.kase[m].status # "Closed" /\ AlertMay(d, a, "Imported")
           e == [f EXCEPT !.kase[m].linked = Append(@, a)]
<1>1. f \in Db /\ f.kase = d.kase /\ f.outbox = d.outbox /\ VerdictsStay(d, f) /\ HomesStay(d, f)
  BY StatusDoes
<1>2. q = Txn(d, ok, e)
  BY DEF MergeAlertIntoCase
<1> HIDE DEF f
<1>3. Grows(d, d) /\ VerdictsStay(d, d)
  BY Still
<1>4. CASE ok
  <2> DEFINE new == [d.kase[m] EXCEPT !.linked = Append(@, a)]
  <2>1. m \in 1 .. Len(d.kase) /\ d.kase[m] \in Cases /\ d.kase[m].status # "Closed"
    BY <1>4, DbParts DEF IsCase
  <2>2. Append(d.kase[m].linked, a) \in Seq(Alerts)
    BY <2>1, AppendProperties DEF Cases
  <2>3. new \in Cases /\ new.status = d.kase[m].status /\ new.linked = Append(d.kase[m].linked, a)
    BY <2>1, <2>2 DEF Cases
  <2> HIDE DEF new
  <2>4. /\ [d.kase EXCEPT ![m] = new] \in Seq(Cases) /\ Len([d.kase EXCEPT ![m] = new]) = Len(d.kase)
        /\ \A j \in 1 .. Len(d.kase) : [d.kase EXCEPT ![m] = new][j] = IF j = m THEN new ELSE d.kase[j]
    BY <2>1, <2>3, DbParts, ExceptSeq
  <2>5. e = [f EXCEPT !.kase = [d.kase EXCEPT ![m] = new]]
    BY <1>1, <2>1, DbParts DEF new, Db, Cases
  <2>6. e \in Db /\ e.alert = f.alert /\ e.outbox = f.outbox /\ e.kase = [d.kase EXCEPT ![m] = new]
    BY <1>1, <2>4, <2>5 DEF Db
  <2>7. Grows(d, e) /\ VerdictsStay(d, e)
    BY <1>1, <2>1, <2>4, <2>6, DbParts DEF Grows, VerdictsStay, HomesStay, VerdictOf
  <2>8. ok = TRUE
    BY <1>4 DEF IsCase, AlertMay
  <2> HIDE DEF ok, e
  <2>9. q.ok = TRUE /\ q.db = e
    BY <1>2, <2>8 DEF Txn
  <2> QED BY <1>1, <2>1, <2>3, <2>4, <2>6, <2>7, <2>9
<1>5. CASE ~ok
  <2>1. ok = FALSE
    BY <1>5 DEF IsCase, AlertMay
  <2> HIDE DEF ok, e
  <2>2. q.ok = FALSE /\ q.db = d
    BY <1>2, <2>1 DEF Txn
  <2> QED BY <1>3, <2>2
<1> QED BY <1>4, <1>5

\* An analyst who patches or closes a case moves its status and nothing else.
LEMMA CaseStatusDoes ==
  ASSUME NEW d \in Db, NEW c \in 1 .. Len(d.kase), NEW s \in {"InProgress", "Closed"},
         d.kase[c].status # "Closed", NEW e, e = [d EXCEPT !.kase[c].status = s]
  PROVE  e \in Db /\ VerdictsStay(d, e) /\ Grows(d, e) /\ LinksStay(d, e) /\ e.outbox = d.outbox
<1> DEFINE new == [d.kase[c] EXCEPT !.status = s]
<1>1. new \in Cases /\ new.linked = d.kase[c].linked
  BY DbParts DEF Cases
<1>2. e = [d EXCEPT !.kase = [d.kase EXCEPT ![c] = new]]
  BY DbParts DEF Db, Cases
<1> HIDE DEF new
<1>3. /\ [d.kase EXCEPT ![c] = new] \in Seq(Cases) /\ Len([d.kase EXCEPT ![c] = new]) = Len(d.kase)
      /\ \A j \in 1 .. Len(d.kase) : [d.kase EXCEPT ![c] = new][j] = IF j = c THEN new ELSE d.kase[j]
  BY <1>1, DbParts, ExceptSeq
<1>4. e \in Db /\ e.alert = d.alert /\ e.outbox = d.outbox /\ e.kase = [d.kase EXCEPT ![c] = new]
  BY <1>2, <1>3 DEF Db
<1> QED BY <1>1, <1>3, <1>4, DbParts DEF VerdictsStay, Grows, LinksStay, VerdictOf

LEMMA PatchCaseDoes ==
  ASSUME NEW d \in Db, NEW c \in 1 .. Len(d.kase), NEW q, q = PatchCase(d, c, "InProgress")
  PROVE  q.db \in Db /\ VerdictsStay(d, q.db) /\ Grows(d, q.db) /\ LinksStay(d, q.db)
<1> DEFINE ok == IsCase(d, c) /\ "InProgress" # "Closed" /\ <<d.kase[c].status, "InProgress">> \in CaseMoves
           e == [d EXCEPT !.kase[c].status = "InProgress"]
<1>1. q = Txn(d, ok, e)
  BY DEF PatchCase
<1>2. CASE ok
  <2>1. d.kase[c].status # "Closed"
    BY <1>2 DEF CaseMoves
  <2>2. e \in Db /\ VerdictsStay(d, e) /\ Grows(d, e) /\ LinksStay(d, e)
    BY <2>1, CaseStatusDoes
  <2> HIDE DEF e
  <2> QED BY <1>1, <1>2, <2>2 DEF Txn
<1>3. CASE ~ok
  <2> HIDE DEF ok, e
  <2>1. q.db = d
    BY <1>1, <1>3 DEF Txn
  <2> QED BY <2>1, Still
<1> QED BY <1>2, <1>3

LEMMA CloseCaseDoes ==
  ASSUME NEW d \in Db, NEW c \in 1 .. Len(d.kase), NEW v, NEW q, q = CloseCase(d, c, v)
  PROVE  q.db \in Db /\ VerdictsStay(d, q.db) /\ Grows(d, q.db) /\ LinksStay(d, q.db)
<1> DEFINE ok == IsCase(d, c) /\ v \in Final /\ <<d.kase[c].status, "Closed">> \in CaseMoves
           f == [d EXCEPT !.kase[c].status = "Closed"]
           event == [topic |-> "case.closed", ref |-> c]
           e == [f EXCEPT !.outbox = Append(f.outbox, event)]
<1>1. q = Txn(d, ok, e)
  BY DEF CloseCase, Emit
<1>2. CASE ok
  <2>1. d.kase[c].status # "Closed"
    BY <1>2 DEF CaseMoves
  <2>2. f \in Db /\ VerdictsStay(d, f) /\ Grows(d, f) /\ LinksStay(d, f) /\ f.outbox = d.outbox
    BY <2>1, CaseStatusDoes
  <2> HIDE DEF f
  <2>3. event \in Events
    BY DbParts DEF Events
  <2>4. Append(f.outbox, event) \in Seq(Events) /\ Len(Append(f.outbox, event)) = Len(f.outbox) + 1
    BY <2>2, <2>3, DbParts, AppendProperties
  <2>5. e \in Db /\ e.alert = f.alert /\ e.kase = f.kase /\ e.outbox = Append(f.outbox, event)
    BY <2>2, <2>4 DEF Db
  <2>6. VerdictsStay(d, e) /\ Grows(d, e) /\ LinksStay(d, e)
    BY <2>2, <2>4, <2>5, DbParts DEF VerdictsStay, Grows, LinksStay, VerdictOf
  <2> HIDE DEF e
  <2> QED BY <1>1, <1>2, <2>5, <2>6 DEF Txn
<1>3. CASE ~ok
  <2> HIDE DEF ok, e
  <2>1. q.db = d
    BY <1>1, <1>3 DEF Txn
  <2> QED BY <2>1, Still
<1> QED BY <1>2, <1>3

LEMMA ReopenDoes ==
  ASSUME NEW d \in Db, NEW a \in Alerts, NEW q, q = ReopenAlert(d, a)
  PROVE  /\ q.db \in Db /\ VerdictsStay(d, q.db) /\ HomesStay(d, q.db)
         /\ q.db.kase = d.kase /\ q.db.outbox = d.outbox
<1> DEFINE f == [d EXCEPT !.alert[a].status = "InProgress"]
<1>1. f \in Db /\ VerdictsStay(d, f) /\ HomesStay(d, f) /\ f.kase = d.kase /\ f.outbox = d.outbox
  BY StatusDoes
<1>2. q.db = f \/ q.db = d
  BY DEF ReopenAlert, Txn
<1> HIDE DEF f
<1> QED BY <1>1, <1>2 DEF VerdictsStay, HomesStay

-----------------------------------------------------------------------------
(* The rows *)

\* What the type says of the parts of a run row.
LEMMA RunParts ==
  ASSUME TypeOK
  PROVE  /\ db \in Db
         /\ \A r \in RunIds : run[r] \in Runs
         /\ MaxRuns \in Nat /\ RunIds \subseteq Nat
BY AlertLifeAssumption DEF TypeOK, Db, RunIds

\* What a run asks of the case backend: cases only grow, a final verdict and the claim
\* stand, and only opening a case and merging link anything.
LEMMA RequestDoes ==
  ASSUME TypeOK, PlacesTell, CloseRemembers, NEW r \in RunIds, Running(r), NEW q, q = Request(r)
  PROVE  /\ q.db \in Db /\ q.ok \in BOOLEAN /\ Grows(db, q.db)
         /\ ~q.ok => q.db = db
         /\ \A a \in Alerts : VerdictOf(db, a) \in Final /\ a \notin overruled
              => VerdictOf(q.db, a) = VerdictOf(db, a)
         /\ \A a \in Alerts : VerdictOf(db, a) # None => VerdictOf(q.db, a) # None
         /\ At(r, "load") /\ q.ok => /\ VerdictOf(db, run[r].alert) = None
                                     /\ VerdictOf(q.db, run[r].alert) = "in-progress"
         /\ run[r].at \notin {"merge", "create"} => LinksStay(db, q.db)
<1> DEFINE a == run[r].alert
           todo == IF run[r].verdict = "uncertain" THEN "InProgress" ELSE None
<1>1. db \in Db /\ run[r] \in Runs /\ a \in Alerts
  BY RunParts DEF PlacesTell, PlaceTells, Running, TriagePath, ClosePath, NoRun, None
<1>2. run[r].verdict \in Verdicts /\ run[r].advice \in Hints /\ run[r].cand \in Nat /\ todo \in Goals
  BY <1>1 DEF Runs, Verdicts, Goals
<1>3. Grows(db, db) /\ LinksStay(db, db) /\ Len(db.kase) \in Nat /\ Len(db.outbox) \in Nat
  BY <1>1, Still, DbParts
<1>4. "in-progress" \notin Final /\ None \notin Final /\ None # "in-progress"
  BY DEF Final, None
<1>5. "in-progress" \in Verdicts /\ None \in Verdicts /\ None \in Hints /\ None \in Goals /\ "InProgress" \in Goals
  BY DEF Verdicts, Hints, Goals
<1>6. \A e, v : SetsVerdict(db, e, a, v) => e \in Db /\ Grows(db, e) /\ LinksStay(db, e)
  BY <1>3 DEF SetsVerdict, HomesStay, Grows, LinksStay
<1> HIDE DEF a, todo
<1>7. CASE At(r, "load")
  <2>1. q = PatchAlert(db, a, "in-progress", None, None)
    BY <1>7 DEF Request, At, a
  <2>2. Patched(db, a, "in-progress", q)
    BY <1>1, <1>5, <2>1, PatchAlertDoes
  <2> QED BY <1>1, <1>3, <1>4, <1>6, <1>7, <2>2 DEF Patched, SetsVerdict, At, a
<1>8. CASE run[r].at \in {"pickup", "pickup_close"}
  <2>1. q = PatchAlert(db, a, None, None, "InProgress")
    BY <1>8 DEF Request, At, a
  <2>2. Patched(db, a, None, q)
    BY <1>1, <1>5, <2>1, PatchAlertDoes
  <2> QED BY <1>1, <1>3, <1>6, <1>8, <2>2 DEF Patched, SetsVerdict, At, a
<1>9. CASE At(r, "merge")
  <2>1. q = MergeAlertIntoCase(db, a, run[r].cand)
    BY <1>9 DEF Request, At, a
  <2>2. q.db \in Db /\ q.ok \in BOOLEAN /\ (~q.ok => q.db = db) /\ Grows(db, q.db) /\ VerdictsStay(db, q.db)
    BY <1>1, <1>2, <2>1, MergeAlertDoes
  <2> QED BY <1>9, <2>2 DEF VerdictsStay, At
<1>10. CASE At(r, "create")
  <2>1. q = CreateCaseFromAlert(db, a)
    BY <1>10 DEF Request, At, a
  <2>2. q.db \in Db /\ q.ok \in BOOLEAN /\ (~q.ok => q.db = db) /\ Grows(db, q.db) /\ VerdictsStay(db, q.db)
    BY <1>1, <2>1, CreateCaseDoes
  <2> QED BY <1>10, <2>2 DEF VerdictsStay, At
<1>11. CASE At(r, "final")
  <2>1. q = PatchAlert(db, a, run[r].verdict, run[r].advice, todo) /\ run[r].verdict \in Final
    BY <1>11 DEF Request, At, PlacesTell, PlaceTells, a, todo
  <2>2. Patched(db, a, run[r].verdict, q)
    BY <1>1, <1>2, <2>1, PatchAlertDoes
  <2> QED BY <1>1, <1>3, <1>4, <1>6, <1>11, <2>1, <2>2 DEF Patched, SetsVerdict, At, a
<1>12. CASE At(r, "close")
  <2>1. q = CloseAlert(db, a, run[r].verdict) /\ run[r].verdict \in Final
    BY <1>12 DEF Request, At, PlacesTell, PlaceTells, a
  <2>2. \/ q.ok = FALSE /\ q.db = db
        \/ q.ok = TRUE /\ SetsVerdict(db, q.db, a, run[r].verdict)
    BY <1>1, <2>1, CloseAlertDoes
  <2>3. a \notin overruled => VerdictOf(db, a) = run[r].verdict
    BY <1>12 DEF CloseRemembers, At, a, VerdictOf
  <2> QED BY <1>1, <1>3, <1>4, <1>6, <1>12, <2>1, <2>2, <2>3 DEF SetsVerdict, At, a
<1>13. CASE run[r].at \in {"check", "load_close"}
  <2>1. q = Txn(db, TRUE, db)
    BY <1>13 DEF Request, At
  <2>2. q.ok = TRUE /\ q.db = db
    BY <2>1 DEF Txn
  <2> QED BY <1>1, <1>3, <1>13, <2>2 DEF At
<1> QED BY <1>7, <1>8, <1>9, <1>10, <1>11, <1>12, <1>13 DEF Running, TriagePath, ClosePath, At

-----------------------------------------------------------------------------
(* What a step may do to the database *)

\* claims and final verdicts stand but for what analysts overrule (o) and clear (c)
Stands(d, e, o, c) ==
  /\ e \in Db /\ Grows(d, e)
  /\ \A a \in Alerts : VerdictOf(d, a) \in Final /\ a \notin o => VerdictOf(e, a) = VerdictOf(d, a)
  /\ \A a \in Alerts : VerdictOf(d, a) # None /\ a \notin c => VerdictOf(e, a) # None

LEMMA NothingStands == ASSUME NEW d \in Db, NEW o, NEW c PROVE Stands(d, d, o, c)
BY Still DEF Stands

LEMMA VerdictsStand ==
  ASSUME NEW d \in Db, NEW e \in Db, Grows(d, e), VerdictsStay(d, e), NEW o, NEW c
  PROVE  Stands(d, e, o, c)
BY DEF Stands, VerdictsStay

LEMMA RequestStands ==
  ASSUME TypeOK, PlacesTell, CloseRemembers, NEW r \in RunIds, Running(r)
  PROVE  Stands(db, Request(r).db, overruled, cleared)
BY RequestDoes DEF Stands

\* Every step leaves what is final as it is, and history is only added to.
LEMMA StepStands ==
  ASSUME TypeOK, PlacesTell, CloseRemembers, [Next]_vars
  PROVE  /\ Stands(db, db', overruled', cleared')
         /\ overruled \subseteq overruled' /\ cleared \subseteq cleared' /\ cleared' \subseteq overruled'
         /\ overruled' \subseteq Alerts
<1> USE DEF agent, history
<1>1. db \in Db /\ overruled \subseteq Alerts /\ cleared \subseteq overruled
  BY RunParts DEF TypeOK
<1>2. CASE UNCHANGED vars
  BY <1>1, <1>2, NothingStands DEF vars
<1>3. ASSUME NEW a \in Alerts, Forward(a) PROVE Stands(db, db', overruled', cleared') /\ UNCHANGED history
  BY <1>1, <1>3, IngestAlertDoes, VerdictsStand DEF Forward
<1>4. CASE Poll \/ MoveCursor \/ DispatchTick \/ Crash
  BY <1>1, <1>4, NothingStands DEF Poll, MoveCursor, DispatchTick, Crash
<1>5. ASSUME NEW kind \in {"alert_flow", "close_flow"}, NEW a \in Alerts, PostRun(kind, a)
      PROVE  Stands(db, db', overruled', cleared') /\ UNCHANGED history
  BY <1>1, <1>5, NothingStands DEF PostRun
<1>6. ASSUME NEW r \in RunIds, RunStep(r) \/ RunFails(r) \/ MisreadError(r)
      PROVE  Stands(db, db', overruled', cleared') /\ UNCHANGED history
  <2>1. UNCHANGED history
    BY <1>6 DEF RunStep, RunFails, MisreadError, Claim, MergeCheck, Pickup, Merge, Create, WriteOutcome,
       LoadCloseTarget, PickupClose, ExecuteClose, Ask, Quiet
  <2>2. db' = db \/ (Running(r) /\ db' = Request(r).db)
    <3>1. \A place \in TriagePath \cup ClosePath : At(r, place) => Running(r)
      BY DEF At, Running
    <3>2. CASE RunStep(r)
      BY <3>1, <3>2 DEF RunStep, Claim, MergeCheck, Pickup, Merge, Create, WriteOutcome, LoadCloseTarget,
         PickupClose, ExecuteClose, Ask, TriagePath, ClosePath
    <3>3. CASE RunFails(r)
      BY <3>3 DEF RunFails
    <3>4. CASE MisreadError(r)
      BY <3>4 DEF MisreadError
    <3> QED BY <1>6, <3>2, <3>3, <3>4
  <2> QED BY <1>1, <2>1, <2>2, NothingStands, RequestStands
<1>7. CASE AnalystActs
  <2>1. db' \in Db /\ VerdictsStay(db, db') /\ Grows(db, db')
    <3>1. ASSUME NEW a \in Alerts, Touch(ReopenAlert(db, a)) \/ Touch(CreateCaseFromAlert(db, a))
          PROVE  db' \in Db /\ VerdictsStay(db, db') /\ Grows(db, db')
      <4>1. CASE Touch(ReopenAlert(db, a))
        <5>1. /\ db' \in Db /\ VerdictsStay(db, db') /\ HomesStay(db, db')
              /\ db'.kase = db.kase /\ db'.outbox = db.outbox
          BY <1>1, <4>1, ReopenDoes DEF Touch
        <5> QED BY <1>1, <5>1, DbParts DEF Grows, HomesStay
      <4>2. CASE Touch(CreateCaseFromAlert(db, a))
        BY <1>1, <4>2, CreateCaseDoes DEF Touch
      <4> QED BY <3>1, <4>1, <4>2
    <3>2. ASSUME NEW a \in Alerts, NEW c \in DOMAIN db.kase, Touch(MergeAlertIntoCase(db, a, c))
          PROVE  db' \in Db /\ VerdictsStay(db, db') /\ Grows(db, db')
      <4>1. c \in Nat
        BY <1>1, DbParts
      <4> QED BY <1>1, <3>2, <4>1, MergeAlertDoes DEF Touch
    <3>3. ASSUME NEW c \in DOMAIN db.kase,
                 TouchCase(PatchCase(db, c, "InProgress")) \/ \E v \in Final : TouchCase(CloseCase(db, c, v))
          PROVE  db' \in Db /\ VerdictsStay(db, db') /\ Grows(db, db')
      <4>1. c \in 1 .. Len(db.kase)
        BY <1>1, DbParts
      <4> QED BY <1>1, <3>3, <4>1, PatchCaseDoes, CloseCaseDoes DEF TouchCase
    <3> QED BY <1>7, <3>1, <3>2, <3>3 DEF AnalystActs
  <2> QED BY <1>1, <1>7, <2>1, VerdictsStand DEF AnalystActs
<1>8. ASSUME NEW a \in Alerts, NEW v \in Final \cup {None}, AnalystCloses(a, v)
      PROVE  /\ Stands(db, db', overruled', cleared')
             /\ overruled' = overruled \cup {a} /\ cleared' = IF v = None THEN cleared \cup {a} ELSE cleared
  <2>1. overruled' = overruled \cup {a} /\ cleared' = IF v = None THEN cleared \cup {a} ELSE cleared
    BY <1>8 DEF AnalystCloses
  <2>2. db' = db \/ SetsVerdict(db, db', a, v)
    BY <1>1, <1>8, CloseAlertDoes DEF AnalystCloses, Touch
  <2>3. SetsVerdict(db, db', a, v) => Grows(db, db')
    BY <1>1, DbParts DEF SetsVerdict, HomesStay, Grows
  <2> QED BY <1>1, <2>1, <2>2, <2>3, NothingStands DEF Stands, SetsVerdict
<1>9. CASE Next
  BY <1>1, <1>3, <1>4, <1>5, <1>6, <1>7, <1>8, <1>9 DEF Next, Poll, MoveCursor, DispatchTick, Crash, AnalystActs
<1> QED BY <1>2, <1>9

-----------------------------------------------------------------------------
(* What a step may do to a run row *)

Alone(r) == \A s \in RunIds \ {r} : run'[s] = run[s]

Fresh(kind, a) == [NoRun EXCEPT !.kind = kind, !.alert = a, !.at = "queued"]

Starts(r) ==
  /\ db' = db /\ Alone(r) /\ Launched = 1 .. (r - 1)
  /\ \E kind \in {"alert_flow", "close_flow"}, a \in Alerts : run'[r] = Fresh(kind, a)

IsTaken(r) ==
  /\ At(r, "queued") /\ db' = db
  /\ run'[r] = [run[r] EXCEPT !.at = IF run[r].kind = "alert_flow" THEN "load" ELSE "load_close"]

Wins(r) ==
  /\ At(r, "load") /\ Alone(r) /\ db' = Request(r).db
  /\ VerdictOf(db, run[r].alert) = None /\ VerdictOf(db', run[r].alert) = "in-progress"
  /\ run'[r] = [run[r] EXCEPT !.won = TRUE, !.at = "check"]

Lost(row, won, blind) == [row EXCEPT !.at = "completed", !.won = won, !.blind = blind]

Loses(r) ==
  /\ At(r, "load") /\ db' = db
  /\ \E won, blind \in BOOLEAN : (won => run[r].won) /\ run'[r] = Lost(run[r], won, blind)

Judges(r) ==
  /\ At(r, "check") /\ Alone(r) /\ db' = db
  /\ \E cand \in Nat, blind \in BOOLEAN, verdict \in Final, advice \in Hints :
       /\ cand = 0 /\ ~blind => ActiveCases(db) = {}
       /\ run'[r] = Judged(run[r], cand, blind, verdict, advice)

Path == {<<"pickup", "merge">>, <<"merge", "final">>, <<"create", "final">>, <<"pickup_close", "close">>}

Onward(row, place, made) == [row EXCEPT !.at = place, !.made = made]

GoesOn(r) ==
  /\ Alone(r) /\ db' = Request(r).db /\ Request(r).ok
  /\ \E place \in Places : <<run[r].at, place>> \in Path /\ run'[r] = Onward(run[r], place, Opened(r))

Remembers(r) ==
  /\ At(r, "load_close") /\ Alone(r) /\ db' = db
  /\ VerdictOf(db, run[r].alert) \in Final
  /\ run'[r] = [run[r] EXCEPT !.verdict = VerdictOf(db, run[r].alert), !.at = "pickup_close"]

Finishes(r) ==
  /\ Running(r)
  /\ \E place \in {"completed", "failed"} :
       \/ run'[r] = Over(r, place, run[r].made)
       \/ Alone(r) /\ db' = Request(r).db /\ run'[r] = Over(r, place, Opened(r))

Moves(r) ==
  \/ run'[r] = run[r] \/ Starts(r) \/ IsTaken(r) \/ Wins(r) \/ Loses(r) \/ Judges(r)
  \/ GoesOn(r) \/ Remembers(r) \/ Finishes(r)

\* a set of numbers up to some number has a greatest one
LEMMA Greatest ==
  ASSUME NEW n \in Nat, NEW S \in SUBSET (1 .. n), S # {}
  PROVE  \E c \in S : \A d \in S : d <= c
<1> DEFINE T == {n - c : c \in S}
<1>1. T \subseteq Nat /\ T # {}
  <2>1. \A c \in S : n - c \in Nat
    OBVIOUS
  <2>2. PICK c \in S : TRUE
    OBVIOUS
  <2>3. n - c \in T
    BY <2>2
  <2> QED BY <2>1, <2>3
<1> HIDE DEF T
<1>2. \E x \in T : \A y \in T : ~ (<<y, x>> \in OpToRel(<, Nat))
  BY <1>1, WFMin, NatLessThanWellFounded, Zenon
<1>3. PICK x \in T : \A y \in T : ~ (y < x)
  BY <1>1, <1>2 DEF OpToRel
<1>4. PICK c \in S : x = n - c
  BY <1>3 DEF T
<1>5. \A d \in S : ~ (n - d < n - c)
  BY <1>3, <1>4 DEF T
<1> QED BY <1>5

\* The merge target is an active case, and none only when there is none.
LEMMA TheCandidate ==
  ASSUME db \in Db
  PROVE  Candidate \in Nat /\ (Candidate = 0 => ActiveCases(db) = {})
<1>1. ActiveCases(db) \in SUBSET (1 .. Len(db.kase)) /\ Len(db.kase) \in Nat
  BY DbParts DEF ActiveCases
<1>2. CASE ActiveCases(db) = {}
  BY <1>2 DEF Candidate, NewestActiveCase
<1>3. CASE ActiveCases(db) # {}
  <2>1. \E c \in ActiveCases(db) : \A d \in ActiveCases(db) : d <= c
    BY <1>1, <1>3, Greatest
  <2>2. Candidate \in ActiveCases(db)
    BY <1>3, <2>1 DEF Candidate, NewestActiveCase
  <2> QED BY <1>1, <1>3, <2>2
<1> QED BY <1>2, <1>3

\* A launch takes the number after the last one.
LEMMA LaunchDoes ==
  ASSUME TypeOK, Numbered, NEW kind, NEW a, Launch(kind, a)
  PROVE  \E n \in Nat : /\ Launched = 1 .. n /\ n + 1 \in RunIds
                        /\ run' = [run EXCEPT ![n + 1] = Fresh(kind, a)]
<1>1. PICK n \in Nat : Launched = 1 .. n
  BY DEF Numbered
<1>2. Cardinality(Launched) = n
  BY <1>1, FS_Interval
<1>3. Launched \subseteq RunIds /\ Launched # RunIds
  BY DEF Launched, Launch
<1>4. n + 1 \in RunIds
  BY <1>1, <1>3, AlertLifeAssumption DEF RunIds
<1> QED BY <1>1, <1>2, <1>4 DEF Launch, Fresh

\* A row that changed is the one the step is about, and it changes as the code says.
LEMMA RunStepMoves ==
  ASSUME TypeOK, PlacesTell, CloseRemembers, NEW r \in RunIds, RunStep(r)
  PROVE  Moves(r) /\ Alone(r)
<1>1. run \in [RunIds -> Runs] /\ run[r] \in Runs /\ db \in Db
  BY RunParts DEF TypeOK
<1>2. \A place \in TriagePath \cup ClosePath : At(r, place) => Running(r)
  BY DEF At, Running
<1>3. ASSUME NEW place \in TriagePath \cup ClosePath, NEW next \in Places, Ask(r, place, next),
             next = "completed" \/ <<place, next>> \in Path
      PROVE  Moves(r) /\ Alone(r)
  <2>1. Running(r) /\ run[r].at = place /\ db' = Request(r).db
    BY <1>2, <1>3 DEF Ask, At
  <2>2. Request(r).ok \in BOOLEAN
    BY <2>1, RequestDoes
  <2>3. Alone(r)
    BY <1>1, <1>3 DEF Ask, Alone
  <2>4. CASE ~Request(r).ok
    <3>1. run'[r] = Over(r, "failed", run[r].made)
      BY <1>1, <1>3, <2>4 DEF Ask, Ends
    <3> QED BY <2>1, <2>3, <3>1 DEF Moves, Finishes
  <2>5. CASE Request(r).ok /\ next = "completed"
    <3>1. run'[r] = Over(r, "completed", run[r].made)
      BY <1>1, <1>3, <2>5 DEF Ask, Ends
    <3> QED BY <2>1, <2>3, <3>1 DEF Moves, Finishes
  <2>6. CASE Request(r).ok /\ next # "completed"
    <3>1. run'[r] = Onward(run[r], next, Opened(r))
      BY <1>1, <1>3, <2>6 DEF Ask, Onward
    <3>2. <<run[r].at, next>> \in Path
      BY <1>3, <2>1, <2>6
    <3> QED BY <2>1, <2>3, <2>6, <3>1, <3>2 DEF Moves, GoesOn
  <2> QED BY <2>4, <2>5, <2>6
<1>4. CASE Claim(r)
  <2>1. run'[r] = [run[r] EXCEPT !.won = Request(r).ok, !.at = IF Request(r).ok THEN "check" ELSE "completed"]
    BY <1>1, <1>4 DEF Claim
  <2>2. Alone(r) /\ At(r, "load") /\ db' = Request(r).db
    BY <1>1, <1>4 DEF Claim, Alone
  <2>3. Running(r)
    BY <1>2, <2>2 DEF TriagePath
  <2>4. /\ Request(r).ok \in BOOLEAN
        /\ Request(r).ok => /\ VerdictOf(db, run[r].alert) = None
                            /\ VerdictOf(db', run[r].alert) = "in-progress"
    BY <2>2, <2>3, RequestDoes
  <2>5. CASE Request(r).ok
    <3>1. Request(r).ok = TRUE
      BY <2>4, <2>5
    <3>2. run'[r] = [run[r] EXCEPT !.won = TRUE, !.at = "check"]
      BY <2>1, <3>1
    <3> QED BY <2>2, <2>4, <2>5, <3>2 DEF Moves, Wins
  <2>6. CASE ~Request(r).ok
    <3>1. Request(r).ok = FALSE
      BY <2>4, <2>6
    <3>2. run'[r] = Lost(run[r], FALSE, run[r].blind)
      BY <1>1, <2>1, <3>1 DEF Runs, Lost
    <3>4. db' = db
      BY <2>2, <2>3, <2>6, RequestDoes
    <3>3. run[r].blind \in BOOLEAN
      BY <1>1 DEF Runs
    <3> QED BY <2>2, <3>2, <3>3, <3>4 DEF Moves, Loses
  <2> QED BY <2>5, <2>6
<1>5. CASE MergeCheck(r)
  <2>1. At(r, "check") /\ db' = db /\ Judge(r, Candidate, FALSE)
    BY <1>5 DEF MergeCheck
  <2>0. PICK verdict \in Final :
          \E advice \in Advices(verdict, Candidate) :
            run' = [run EXCEPT ![r] = Judged(run[r], Candidate, FALSE, verdict, advice)]
    BY <2>1 DEF Judge
  <2>2. PICK advice \in Advices(verdict, Candidate) :
          run' = [run EXCEPT ![r] = Judged(run[r], Candidate, FALSE, verdict, advice)]
    BY <2>0
  <2>3. advice \in Hints
    BY DEF Advices, Hints
  <2>4. Candidate \in Nat /\ (Candidate = 0 => ActiveCases(db) = {})
    BY <1>1, TheCandidate
  <2>5. Alone(r)
    BY <1>1, <2>2 DEF Alone
  <2>6. run'[r] = Judged(run[r], Candidate, FALSE, verdict, advice)
    BY <1>1, <2>2
  <2> QED BY <2>1, <2>3, <2>4, <2>5, <2>6 DEF Moves, Judges
<1>6. CASE LoadCloseTarget(r)
  <2> DEFINE row == db.alert[run[r].alert]
             closable == row.verdict \in Final /\ row.advice = "close" /\ row.status # "Closed"
  <2>1. At(r, "load_close") /\ db' = db /\ Alone(r)
    BY <1>1, <1>6 DEF LoadCloseTarget, Alone
  <2>2. run'[r] = IF closable THEN [run[r] EXCEPT !.verdict = row.verdict, !.at = "pickup_close"]
                  ELSE Over(r, "failed", run[r].made)
    BY <1>1, <1>6 DEF LoadCloseTarget, Ends
  <2>3. CASE closable
    BY <2>1, <2>2, <2>3 DEF Moves, Remembers, VerdictOf
  <2>4. CASE ~closable
    <3>1. Running(r)
      BY <1>2, <2>1 DEF ClosePath
    <3> QED BY <2>1, <2>2, <2>4, <3>1 DEF Moves, Finishes
  <2> QED BY <2>3, <2>4
<1>7. CASE Pickup(r) \/ Merge(r) \/ Create(r) \/ WriteOutcome(r) \/ PickupClose(r) \/ ExecuteClose(r)
  <2>1. /\ Pickup(r) => Ask(r, "pickup", "merge")
        /\ Merge(r) => Ask(r, "merge", "final")
        /\ Create(r) => Ask(r, "create", "final")
        /\ WriteOutcome(r) => Ask(r, "final", "completed")
        /\ PickupClose(r) => Ask(r, "pickup_close", "close")
        /\ ExecuteClose(r) => Ask(r, "close", "completed")
    BY DEF Pickup, Merge, Create, WriteOutcome, PickupClose, ExecuteClose
  <2>2. /\ {"pickup", "merge", "create", "final", "pickup_close", "close"} \subseteq TriagePath \cup ClosePath
        /\ {"merge", "final", "completed", "close"} \subseteq Places
        /\ {<<"pickup", "merge">>, <<"merge", "final">>, <<"create", "final">>, <<"pickup_close", "close">>} \subseteq Path
    BY DEF TriagePath, ClosePath, Places, Path
  <2> QED BY <1>3, <1>7, <2>1, <2>2
<1> QED BY <1>4, <1>5, <1>6, <1>7 DEF RunStep

IsTable == run' = [r \in RunIds |-> run'[r]]

LEMMA LaunchMoves ==
  ASSUME TypeOK, Numbered, db' = db, NEW kind \in {"alert_flow", "close_flow"}, NEW a \in Alerts, Launch(kind, a)
  PROVE  IsTable /\ \A r \in RunIds : Moves(r)
<1>1. run \in [RunIds -> Runs] /\ RunIds \subseteq Nat
  BY RunParts DEF TypeOK
<1>2. PICK n \in Nat :
        /\ Launched = 1 .. n /\ n + 1 \in RunIds
        /\ run' = [run EXCEPT ![n + 1] = Fresh(kind, a)]
  BY LaunchDoes
<1>3. \A r \in RunIds : r # n + 1 => run'[r] = run[r]
  BY <1>1, <1>2
<1>4. Starts(n + 1)
  BY <1>1, <1>2, <1>3 DEF Starts, Alone
<1> QED BY <1>1, <1>2, <1>3, <1>4 DEF Moves, IsTable

\* Every row of the table moves as the code says.
LEMMA StepMoves ==
  ASSUME TypeOK, PlacesTell, Numbered, CloseRemembers, [Next]_vars
  PROVE  IsTable /\ \A r \in RunIds : Moves(r)
<1> USE DEF agent, history
<1>1. run \in [RunIds -> Runs] /\ db \in Db
  BY RunParts DEF TypeOK
<1>2. CASE run' = run
  BY <1>1, <1>2 DEF IsTable, Moves
<1>3. ASSUME NEW a \in Alerts, Forward(a) PROVE run' = run
  BY <1>3 DEF Forward
<1>4. CASE Poll
  <2>1. ASSUME run' # run, db.outbox[cursor + 1].topic = "alert.created",
               Launch("alert_flow", db.outbox[cursor + 1].ref)
        PROVE  IsTable /\ \A r \in RunIds : Moves(r)
    <3>1. db.outbox[cursor + 1] \in Events
      BY <1>1, <1>4, DbParts DEF Poll, TypeOK
    <3>2. db.outbox[cursor + 1].ref \in Alerts
      BY <2>1, <3>1 DEF Events
    <3> QED BY <1>4, <2>1, <3>2, LaunchMoves DEF Poll
  <2> QED BY <1>2, <1>4, <2>1 DEF Poll
<1>5. ASSUME NEW kind \in {"alert_flow", "close_flow"}, NEW a \in Alerts, PostRun(kind, a)
      PROVE  IsTable /\ \A r \in RunIds : Moves(r)
  BY <1>5, LaunchMoves DEF PostRun
<1>6. CASE DispatchTick
  <2>1. run' = [r \in RunIds |->
                  IF r \in Claimed
                  THEN [run[r] EXCEPT !.at = IF run[r].kind = "alert_flow" THEN "load" ELSE "load_close"]
                  ELSE run[r]] /\ db' = db
    BY <1>6 DEF DispatchTick
  <2>2. \A r \in Claimed : At(r, "queued")
    BY DEF Claimed, Queued, At
  <2>3. ASSUME NEW r \in RunIds PROVE Moves(r)
    <3>1. CASE r \in Claimed
      <4>1. IsTaken(r)
        BY <2>1, <2>2, <3>1 DEF IsTaken
      <4> QED BY <4>1 DEF Moves
    <3>2. CASE r \notin Claimed
      <4>1. run'[r] = run[r]
        BY <2>1, <3>2
      <4> QED BY <4>1 DEF Moves
    <3> QED BY <3>1, <3>2
  <2>4. IsTable
    BY <2>1 DEF IsTable
  <2> QED BY <2>3, <2>4
<1>7. ASSUME NEW r \in RunIds, RunStep(r) PROVE IsTable /\ \A s \in RunIds : Moves(s)
  <2>1. Moves(r) /\ Alone(r)
    BY <1>7, RunStepMoves
  <2>2. \E row : run' = [run EXCEPT ![r] = row]
    BY <1>7 DEF RunStep, Claim, MergeCheck, Judge, Pickup, Merge, Create, WriteOutcome, LoadCloseTarget, PickupClose,
       ExecuteClose, Ask
  <2>3. IsTable
    BY <1>1, <2>2 DEF IsTable
  <2> QED BY <2>1, <2>3 DEF Alone, Moves
<1>8. ASSUME NEW r \in RunIds, RunFails(r) PROVE IsTable /\ \A s \in RunIds : Moves(s)
  <2>1. PICK made :
          /\ run' = [run EXCEPT ![r] = Over(r, "failed", made)]
          /\ \/ made = run[r].made
             \/ made = Opened(r) /\ db' = Request(r).db
    BY <1>8 DEF RunFails, Ends
  <2>2. IsTable /\ Alone(r) /\ run'[r] = Over(r, "failed", made)
    BY <1>1, <2>1 DEF IsTable, Alone
  <2>3. Finishes(r)
    BY <1>8, <2>1, <2>2 DEF RunFails, Finishes
  <2> QED BY <2>2, <2>3 DEF Alone, Moves
<1>9. ASSUME NEW r \in RunIds, MisreadError(r) PROVE IsTable /\ \A s \in RunIds : Moves(s)
  <2>1. CASE At(r, "load") /\ run' = [run EXCEPT ![r] = [@ EXCEPT !.blind = TRUE, !.at = "completed"]]
    <3>1. run[r].won \in BOOLEAN /\ run[r] \in Runs
      BY <1>1 DEF Runs
    <3>2. run'[r] = Lost(run[r], run[r].won, TRUE)
      BY <1>1, <2>1, <3>1 DEF Lost, Runs
    <3>3. Loses(r)
      BY <1>9, <2>1, <3>1, <3>2 DEF MisreadError, Loses
    <3>4. IsTable /\ Alone(r)
      BY <1>1, <2>1 DEF IsTable, Alone
    <3> QED BY <3>3, <3>4 DEF Alone, Moves
  <2>2. CASE At(r, "check") /\ Judge(r, 0, TRUE)
    <3>1. PICK verdict \in Final :
            \E advice \in Advices(verdict, 0) : run' = [run EXCEPT ![r] = Judged(run[r], 0, TRUE, verdict, advice)]
      BY <2>2 DEF Judge
    <3>2. PICK advice \in Advices(verdict, 0) : run' = [run EXCEPT ![r] = Judged(run[r], 0, TRUE, verdict, advice)]
      BY <3>1
    <3>3. advice \in Hints
      BY DEF Advices, Hints
    <3>4. IsTable /\ Alone(r) /\ run'[r] = Judged(run[r], 0, TRUE, verdict, advice)
      BY <1>1, <3>2 DEF IsTable, Alone
    <3>5. Judges(r)
      BY <1>9, <2>2, <3>3, <3>4 DEF MisreadError, Judges
    <3> QED BY <3>4, <3>5 DEF Alone, Moves
  <2> QED BY <1>9, <2>1, <2>2 DEF MisreadError
<1>10. CASE Crash
  <2>1. run' = [r \in RunIds |-> IF Running(r) THEN Over(r, "failed", run[r].made) ELSE run[r]]
    BY <1>10 DEF Crash, Ends
  <2>2. ASSUME NEW r \in RunIds PROVE Moves(r)
    <3>1. CASE Running(r)
      <4>1. Finishes(r)
        BY <2>1, <3>1 DEF Finishes
      <4> QED BY <4>1 DEF Moves
    <3>2. CASE ~Running(r)
      BY <2>1, <3>2 DEF Moves
    <3> QED BY <3>1, <3>2
  <2>3. IsTable
    BY <2>1 DEF IsTable
  <2> QED BY <2>2, <2>3
<1>11. MoveCursor => run' = run
  BY DEF MoveCursor
<1>12. AnalystActs => run' = run
  BY DEF AnalystActs, Touch, TouchCase
<1>13. ASSUME NEW a \in Alerts, NEW v \in Final \cup {None}, AnalystCloses(a, v) PROVE run' = run
  BY <1>13 DEF AnalystCloses, Touch
<1>14. CASE Next
  BY <1>2, <1>3, <1>4, <1>5, <1>6, <1>7, <1>8, <1>9, <1>10, <1>11, <1>12, <1>13, <1>14 DEF Next
<1> QED BY <1>2, <1>14 DEF vars

\* a run opens a case
Creates(r) ==
  /\ At(r, "create") /\ Alone(r) /\ db' = Request(r).db
  /\ Len(db'.kase) = Len(db.kase) + 1 /\ run'[r].made = Len(db.kase) + 1

\* What opening a case leaves in the row of the run that does.
LEMMA OpenedDoes ==
  ASSUME TypeOK, PlacesTell, CloseRemembers, NEW r \in RunIds, Running(r)
  PROVE  /\ Opened(r) \in Nat
         /\ \/ Opened(r) = run[r].made
            \/ /\ At(r, "create") /\ Opened(r) = Len(db.kase) + 1
               /\ Len(Request(r).db.kase) = Len(db.kase) + 1
<1>1. db \in Db /\ run[r] \in Runs /\ run[r].alert \in Alerts /\ Len(db.kase) \in Nat
  BY RunParts, DbParts DEF PlacesTell, PlaceTells, Running, TriagePath, ClosePath, NoRun, None
<1>2. run[r].made \in Nat
  BY <1>1 DEF Runs
<1>3. CASE At(r, "create") /\ Request(r).ok
  <2>1. Request(r) = CreateCaseFromAlert(db, run[r].alert)
    BY <1>3 DEF Request, At
  <2>2. Len(Request(r).db.kase) = Len(db.kase) + 1
    BY <1>1, <1>3, <2>1, CreateCaseDoes
  <2> QED BY <1>1, <1>3, <2>2 DEF Opened
<1>4. CASE ~(At(r, "create") /\ Request(r).ok)
  BY <1>2, <1>4 DEF Opened
<1> QED BY <1>3, <1>4

\* what becomes of a row, apart from how it came about
RowGoes(r) ==
  LET old == run[r]
      new == run'[r]
  IN /\ new \in Runs /\ PlaceTells(new)
     /\ \/ Starts(r) /\ new.kind # None
        \/ new.kind = old.kind /\ new.alert = old.alert
     /\ new.won => old.won \/ Wins(r)
     /\ \/ new.made = 0
        \/ /\ new.made = old.made \/ Creates(r)
           /\ new.seen = old.seen /\ new.blind = old.blind

LEMMA RowDoes ==
  ASSUME TypeOK, PlacesTell, CloseRemembers, NEW r \in RunIds, Moves(r)
  PROVE  RowGoes(r)
<1> DEFINE old == run[r]
           new == run'[r]
<1>1. old \in Runs /\ PlaceTells(old) /\ db \in Db /\ Len(db.kase) \in Nat
  BY RunParts, DbParts DEF PlacesTell
<1>2. NoRun \in Runs
  BY DEF NoRun, Runs, Places, Hints
<1>3. CASE new = old
  BY <1>1, <1>3 DEF RowGoes
<1>4. CASE Starts(r)
  <2>1. PICK kind \in {"alert_flow", "close_flow"}, a \in Alerts : new = Fresh(kind, a)
    BY <1>4 DEF Starts
  <2>2. new \in Runs /\ new.kind = kind /\ new.alert = a /\ new.at = "queued" /\ ~new.won /\ new.made = 0
    BY <1>2, <2>1 DEF Fresh, NoRun, Runs, Places
  <2>3. PlaceTells(new)
    BY <2>2 DEF PlaceTells, TriagePath, ClosePath, Judging, None
  <2> QED BY <1>4, <2>2, <2>3 DEF RowGoes, None
<1>5. CASE IsTaken(r)
  <2> DEFINE place == IF old.kind = "alert_flow" THEN "load" ELSE "load_close"
  <2>1. old.at = "queued" /\ old.kind \in {"alert_flow", "close_flow"} /\ old.alert \in Alerts
    BY <1>1, <1>5 DEF IsTaken, At, Runs, PlaceTells, NoRun, None
  <2>2. new = [old EXCEPT !.at = place] /\ place \in Places
    BY <1>5 DEF IsTaken, Places, TriagePath, ClosePath
  <2>3. /\ new \in Runs /\ new.at = place /\ new.kind = old.kind /\ new.alert = old.alert /\ new.won = old.won
        /\ new.made = old.made /\ new.seen = old.seen /\ new.blind = old.blind
    BY <1>1, <2>2 DEF Runs
  <2>4. PlaceTells(new)
    BY <1>1, <2>1, <2>3 DEF PlaceTells, TriagePath, ClosePath, Judging, Unlinked, None
  <2> QED BY <2>3, <2>4 DEF RowGoes
<1>6. CASE Wins(r)
  <2>1. new = [old EXCEPT !.won = TRUE, !.at = "check"] /\ old.at = "load"
    BY <1>6 DEF Wins, At
  <2>2. /\ new \in Runs /\ new.at = "check" /\ new.kind = old.kind /\ new.alert = old.alert /\ new.won
        /\ new.made = old.made /\ new.seen = old.seen /\ new.blind = old.blind
    BY <1>1, <2>1 DEF Runs, Places, TriagePath
  <2>3. PlaceTells(new)
    BY <1>1, <2>1, <2>2 DEF PlaceTells, TriagePath, ClosePath, Judging, Unlinked, None, NoRun
  <2> QED BY <1>6, <2>2, <2>3 DEF RowGoes
<1>7. CASE Loses(r)
  <2>1. PICK won, blind \in BOOLEAN : (won => old.won) /\ new = Lost(old, won, blind)
    BY <1>7 DEF Loses
  <2>2. old.at = "load"
    BY <1>7 DEF Loses, At
  <2>3. /\ new \in Runs /\ new.at = "completed" /\ new.kind = old.kind /\ new.alert = old.alert /\ new.won = won
        /\ new.made = old.made
    BY <1>1, <2>1 DEF Lost, Runs, Places
  <2>4. PlaceTells(new) /\ new.made = 0
    BY <1>1, <2>2, <2>3 DEF PlaceTells, TriagePath, ClosePath, Judging, Unlinked, None
  <2> QED BY <2>1, <2>3, <2>4 DEF RowGoes
<1>8. CASE Judges(r)
  <2>1. PICK cand \in Nat, blind \in BOOLEAN, verdict \in Final, advice \in Hints :
          new = Judged(old, cand, blind, verdict, advice)
    BY <1>8 DEF Judges
  <2>2. old.at = "check" /\ Outcome(verdict, cand) \in {"final", "pickup", "create"}
    BY <1>8 DEF Judges, At, Outcome
  <2>3. /\ new \in Runs /\ new.at = Outcome(verdict, cand) /\ new.kind = old.kind /\ new.alert = old.alert
        /\ new.won = old.won /\ new.made = old.made /\ new.verdict = verdict
    BY <1>1, <2>1, <2>2 DEF Judged, Runs, Places, TriagePath
  <2>4. PlaceTells(new) /\ new.made = 0
    BY <1>1, <2>2, <2>3 DEF PlaceTells, TriagePath, ClosePath, Judging, Unlinked, None
  <2> QED BY <2>1, <2>3, <2>4 DEF RowGoes
<1>9. CASE GoesOn(r)
  <2>1. PICK place \in Places : <<old.at, place>> \in Path /\ new = Onward(old, place, Opened(r))
    BY <1>9 DEF GoesOn
  <2>2. Running(r)
    BY <2>1 DEF Path, Running, TriagePath, ClosePath
  <2>3. /\ Opened(r) \in Nat
        /\ \/ Opened(r) = old.made
           \/ old.at = "create" /\ Opened(r) = Len(db.kase) + 1 /\ Len(Request(r).db.kase) = Len(db.kase) + 1
    BY <2>2, OpenedDoes DEF At
  <2>4. /\ new \in Runs /\ new.at = place /\ new.kind = old.kind /\ new.alert = old.alert /\ new.won = old.won
        /\ new.made = Opened(r) /\ new.seen = old.seen /\ new.blind = old.blind /\ new.verdict = old.verdict
    BY <1>1, <2>1, <2>3 DEF Onward, Runs
  <2>5. PlaceTells(new)
    BY <1>1, <2>1, <2>3, <2>4 DEF PlaceTells, TriagePath, ClosePath, Judging, Unlinked, None, Path
  <2>6. new.made = old.made \/ Creates(r)
    BY <1>9, <2>3, <2>4 DEF GoesOn, Creates, At
  <2> QED BY <2>4, <2>5, <2>6 DEF RowGoes
<1>10. CASE Remembers(r)
  <2>1. new = [old EXCEPT !.verdict = VerdictOf(db, old.alert), !.at = "pickup_close"] /\ old.at = "load_close"
    BY <1>10 DEF Remembers, At
  <2>2. VerdictOf(db, old.alert) \in Final
    BY <1>10 DEF Remembers
  <2>3. /\ new \in Runs /\ new.at = "pickup_close" /\ new.kind = old.kind /\ new.alert = old.alert /\ new.won = old.won
        /\ new.made = old.made /\ new.seen = old.seen /\ new.blind = old.blind /\ new.verdict \in Final
    BY <1>1, <2>1, <2>2 DEF Runs, Places, ClosePath
  <2>4. PlaceTells(new)
    BY <1>1, <2>1, <2>3 DEF PlaceTells, TriagePath, ClosePath, Judging, Unlinked, None
  <2> QED BY <2>3, <2>4 DEF RowGoes
<1>11. CASE Finishes(r)
  <2>1. PICK place \in {"completed", "failed"}, made \in {old.made, Opened(r)} :
          /\ new = Over(r, place, made)
          /\ made = old.made \/ (Alone(r) /\ db' = Request(r).db)
    BY <1>11 DEF Finishes
  <2>2. Running(r)
    BY <1>11 DEF Finishes
  <2>3. old.made \in Nat /\ old.kind # None
    BY <1>1, <2>2 DEF Runs, Running, PlaceTells, TriagePath, ClosePath, None
  <2>4. /\ made \in Nat
        /\ \/ made = old.made
           \/ /\ old.at = "create" /\ made = Len(db.kase) + 1 /\ Len(Request(r).db.kase) = Len(db.kase) + 1
              /\ Alone(r) /\ db' = Request(r).db
    BY <2>1, <2>2, <2>3, OpenedDoes DEF At
  <2> DEFINE seen == IF made = 0 THEN 0 ELSE old.seen
  <2>5. new = [kind |-> old.kind, alert |-> old.alert, at |-> place, won |-> old.won, cand |-> 0, seen |-> seen,
               made |-> made, blind |-> old.blind, verdict |-> None, advice |-> None]
    BY <2>1 DEF Over, NoRun
  <2>6. /\ seen \in Nat /\ place \in Places /\ None \in {None} \cup Final /\ None \in Hints
        /\ made # 0 => seen = old.seen
    BY <1>1 DEF Runs, Places, Hints
  <2> HIDE DEF seen
  <2>7. /\ new \in Runs /\ new.at = place /\ new.kind = old.kind /\ new.alert = old.alert /\ new.won = old.won
        /\ new.made = made /\ new.blind = old.blind /\ (new.made # 0 => new.seen = old.seen)
    BY <1>1, <2>4, <2>5, <2>6 DEF Runs
  <2>8. PlaceTells(new)
    BY <1>1, <2>3, <2>7 DEF PlaceTells, TriagePath, ClosePath, Judging, Unlinked, None
  <2>9. new.made = old.made \/ Creates(r)
    BY <2>4, <2>7 DEF Creates, At
  <2> QED BY <2>7, <2>8, <2>9 DEF RowGoes
<1> QED BY <1>3, <1>4, <1>5, <1>6, <1>7, <1>8, <1>9, <1>10, <1>11 DEF Moves

\* Which steps lead to the places the invariant is about.
LEMMA RowArrives ==
  ASSUME TypeOK, PlacesTell, CloseRemembers, NEW r \in RunIds, Moves(r)
  PROVE  /\ run'[r].at \in Unlinked => run[r].at \in Unlinked \/ Wins(r)
         /\ run'[r].at \in {"pickup_close", "close"} =>
              \/ db' = db /\ run'[r].verdict = VerdictOf(db, run[r].alert)
              \/ run[r].at \in {"pickup_close", "close"} /\ run'[r].verdict = run[r].verdict
         /\ run'[r].at = "create" /\ ~run'[r].blind =>
              \/ run'[r] = run[r]
              \/ db' = db /\ ActiveCases(db) = {} /\ run'[r].seen = Len(db.kase)
         /\ run'[r].seen \in {0, run[r].seen, Len(db.kase)}
<1> DEFINE old == run[r]
           new == run'[r]
<1>1. old \in Runs
  BY RunParts
<1>2. CASE new = old
  BY <1>2
<1>3. CASE Starts(r)
  <2>1. new.at = "queued" /\ new.seen = 0
    BY <1>3 DEF Starts, Fresh, NoRun
  <2> QED BY <2>1 DEF Unlinked
<1>4. CASE IsTaken(r)
  <2>1. new.at \in {"load", "load_close"} /\ new.seen = old.seen
    BY <1>1, <1>4 DEF IsTaken, Runs
  <2> QED BY <2>1 DEF Unlinked
<1>5. CASE Wins(r)
  <2>1. new.at = "check" /\ new.seen = old.seen
    BY <1>1, <1>5 DEF Wins, Runs
  <2> QED BY <1>5, <2>1
<1>6. CASE Loses(r)
  <2>1. new.at = "completed" /\ new.seen = old.seen
    BY <1>1, <1>6 DEF Loses, Lost, Runs
  <2> QED BY <2>1 DEF Unlinked
<1>7. CASE Judges(r)
  <2>1. PICK cand \in Nat, blind \in BOOLEAN, verdict \in Final, advice \in Hints :
          /\ cand = 0 /\ ~blind => ActiveCases(db) = {}
          /\ new = Judged(old, cand, blind, verdict, advice)
    BY <1>7 DEF Judges
  <2>2. new.at = Outcome(verdict, cand) /\ new.seen = Len(db.kase) /\ new.blind = blind
    BY <1>1, <2>1 DEF Judged, Runs
  <2>3. /\ Outcome(verdict, cand) \in {"final", "pickup", "create"}
        /\ Outcome(verdict, cand) = "create" => cand = 0
    BY DEF Outcome
  <2>4. old.at = "check" /\ db' = db
    BY <1>7 DEF Judges, At
  <2> QED BY <2>1, <2>2, <2>3, <2>4 DEF Unlinked
<1>8. CASE GoesOn(r)
  <2>1. PICK place \in Places : <<old.at, place>> \in Path /\ new = Onward(old, place, Opened(r))
    BY <1>8 DEF GoesOn
  <2>2. new.at = place /\ new.seen = old.seen /\ new.verdict = old.verdict
    BY <1>1, <2>1 DEF Onward, Runs
  <2> QED BY <2>1, <2>2 DEF Path, Unlinked
<1>9. CASE Remembers(r)
  <2>1. new.at = "pickup_close" /\ new.seen = old.seen /\ new.verdict = VerdictOf(db, old.alert) /\ db' = db
    BY <1>1, <1>9 DEF Remembers, Runs
  <2> QED BY <2>1 DEF Unlinked
<1>10. CASE Finishes(r)
  <2>1. PICK place \in {"completed", "failed"}, made \in {old.made, Opened(r)} : new = Over(r, place, made)
    BY <1>10 DEF Finishes
  <2>2. new.at = place /\ new.seen \in {0, old.seen}
    BY <2>1 DEF Over, NoRun
  <2> QED BY <2>1, <2>2 DEF Unlinked
<1> QED BY <1>2, <1>3, <1>4, <1>5, <1>6, <1>7, <1>8, <1>9, <1>10 DEF Moves

-----------------------------------------------------------------------------
(* What a step may link *)

\* e links what d does, and an alert at one place besides
OnlyLinks(d, e, a) ==
  \E p, n \in Nat :
    \A c \in 1 .. Len(e.kase) : \A i \in DOMAIN e.kase[c].linked :
      \/ c = p /\ i = n /\ e.kase[c].linked[i] = a
      \/ /\ c \in 1 .. Len(d.kase) /\ i \in DOMAIN d.kase[c].linked
         /\ e.kase[c].linked[i] = d.kase[c].linked[i]

LinksNothing(d, e) ==
  \A c \in 1 .. Len(e.kase) : \A i \in DOMAIN e.kase[c].linked :
    /\ c \in 1 .. Len(d.kase) /\ i \in DOMAIN d.kase[c].linked
    /\ e.kase[c].linked[i] = d.kase[c].linked[i]

LEMMA RequestLinks ==
  ASSUME TypeOK, PlacesTell, CloseRemembers, NEW r \in RunIds, Running(r), NEW q, q = Request(r)
  PROVE  \/ LinksNothing(db, q.db)
         \/ run[r].at \in {"merge", "create"} /\ OnlyLinks(db, q.db, run[r].alert)
<1> DEFINE a == run[r].alert
<1>1. db \in Db /\ run[r].cand \in Nat /\ a \in Alerts
  BY RunParts DEF PlacesTell, PlaceTells, Running, TriagePath, ClosePath, NoRun, None, Runs
<1>2. /\ Len(db.kase) \in Nat
      /\ \A c \in 1 .. Len(db.kase) : db.kase[c].linked \in Seq(Alerts)
  BY <1>1, DbParts DEF Cases
<1> HIDE DEF a
<1>3. q.db = db => LinksNothing(db, q.db)
  BY DEF LinksNothing
<1>4. CASE At(r, "create")
  <2>1. q = CreateCaseFromAlert(db, a)
    BY <1>4 DEF Request, At, a
  <2>2. ASSUME q.ok PROVE OnlyLinks(db, q.db, a)
    <3>1. /\ Len(q.db.kase) = Len(db.kase) + 1 /\ q.db.kase[Len(db.kase) + 1].linked = <<a>>
          /\ \A c \in 1 .. Len(db.kase) : q.db.kase[c] = db.kase[c]
      <4>1. Len(q.db.kase) = Len(db.kase) + 1
        BY <1>1, <2>1, <2>2, CreateCaseDoes
      <4>2. q.db.kase[Len(db.kase) + 1] = NewCase(a)
        BY <1>1, <2>1, <2>2, CreateCaseDoes
      <4>3. \A c \in 1 .. Len(db.kase) : q.db.kase[c] = db.kase[c]
        BY <1>1, <2>1, <2>2, CreateCaseDoes
      <4> QED BY <4>1, <4>2, <4>3 DEF NewCase
    <3>2. DOMAIN <<a>> = {1} /\ <<a>>[1] = a
      OBVIOUS
    <3>3. Len(db.kase) + 1 \in Nat /\ 1 \in Nat
      BY <1>2
    <3>4. ASSUME NEW c \in 1 .. Len(q.db.kase), NEW i \in DOMAIN q.db.kase[c].linked
          PROVE  \/ c = Len(db.kase) + 1 /\ i = 1 /\ q.db.kase[c].linked[i] = a
                 \/ /\ c \in 1 .. Len(db.kase) /\ i \in DOMAIN db.kase[c].linked
                    /\ q.db.kase[c].linked[i] = db.kase[c].linked[i]
      BY <1>2, <3>1, <3>2
    <3> QED BY <3>3, <3>4 DEF OnlyLinks
  <2>3. ~q.ok => q.db = db
    BY <1>1, <2>1, CreateCaseDoes
  <2> QED BY <1>3, <1>4, <2>2, <2>3 DEF At, a
<1>5. CASE At(r, "merge")
  <2> DEFINE m == run[r].cand
  <2>1. q = MergeAlertIntoCase(db, a, m)
    BY <1>5 DEF Request, At, a
  <2> HIDE DEF m
  <2>2. ASSUME q.ok PROVE OnlyLinks(db, q.db, a)
    <3>1. /\ m \in 1 .. Len(db.kase) /\ Len(q.db.kase) = Len(db.kase)
          /\ q.db.kase[m].linked = Append(db.kase[m].linked, a)
          /\ \A c \in 1 .. Len(db.kase) : c # m => q.db.kase[c] = db.kase[c]
      <4>1. m \in Nat
        BY <1>1 DEF m
      <4>2. m \in 1 .. Len(db.kase) /\ Len(q.db.kase) = Len(db.kase)
        BY <1>1, <2>1, <2>2, <4>1, MergeAlertDoes
      <4>3. q.db.kase[m].linked = Append(db.kase[m].linked, a)
        BY <1>1, <2>1, <2>2, <4>1, MergeAlertDoes
      <4>4. \A c \in 1 .. Len(db.kase) : c # m => q.db.kase[c] = db.kase[c]
        BY <1>1, <2>1, <2>2, <4>1, MergeAlertDoes
      <4> QED BY <4>2, <4>3, <4>4
    <3> DEFINE s == db.kase[m].linked
    <3> HIDE DEF s
    <3>2. s \in Seq(Alerts)
      BY <1>2, <3>1 DEF s
    <3>3. /\ Len(s) \in Nat /\ DOMAIN s = 1 .. Len(s) /\ DOMAIN Append(s, a) = 1 .. (Len(s) + 1)
          /\ \A i \in 1 .. Len(s) : Append(s, a)[i] = s[i]
          /\ Append(s, a)[Len(s) + 1] = a
      BY <1>1, <3>2, AppendProperties, LenProperties
    <3>4. m \in Nat /\ Len(s) + 1 \in Nat
      BY <1>1, <3>3 DEF m
    <3>5. ASSUME NEW c \in 1 .. Len(q.db.kase), NEW i \in DOMAIN q.db.kase[c].linked
          PROVE  \/ c = m /\ i = Len(s) + 1 /\ q.db.kase[c].linked[i] = a
                 \/ /\ c \in 1 .. Len(db.kase) /\ i \in DOMAIN db.kase[c].linked
                    /\ q.db.kase[c].linked[i] = db.kase[c].linked[i]
      <4>1. CASE c # m
        BY <1>1, <3>1, <4>1
      <4>2. CASE c = m
        <5>1. i \in 1 .. (Len(s) + 1) /\ q.db.kase[c].linked[i] = Append(s, a)[i]
          BY <3>1, <3>3, <4>2 DEF s
        <5>2. i \in 1 .. Len(s) \/ i = Len(s) + 1
          BY <3>3, <5>1
        <5> QED BY <3>1, <3>3, <4>2, <5>1, <5>2 DEF s
      <4> QED BY <4>1, <4>2
    <3> QED BY <3>4, <3>5 DEF OnlyLinks
  <2>3. ~q.ok => q.db = db
    BY <1>1, <2>1, MergeAlertDoes DEF m
  <2> QED BY <1>3, <1>5, <2>2, <2>3 DEF At, a
<1>6. CASE run[r].at \notin {"merge", "create"}
  <2>1. LinksStay(db, q.db)
    BY <1>6, RequestDoes
  <2> QED BY <2>1 DEF LinksStay, LinksNothing
<1> QED BY <1>4, <1>5, <1>6 DEF At

\* As long as no analyst acts, only a run that merges or opens a case links an alert, its own.
LEMMA StepLinks ==
  ASSUME TypeOK, PlacesTell, CloseRemembers, [Next]_vars, touches' = 0
  PROVE  /\ touches = 0 /\ overruled' = overruled
         /\ \/ LinksNothing(db, db')
            \/ \E r \in RunIds : /\ run[r].at \in {"merge", "create"} /\ run'[r].at \notin Unlinked
                                 /\ OnlyLinks(db, db', run[r].alert)
<1> USE DEF agent, history
<1>1. run \in [RunIds -> Runs] /\ db \in Db /\ touches \in Nat
  BY RunParts, AlertLifeAssumption DEF TypeOK
<1>2. db' = db => LinksNothing(db, db')
  BY DEF LinksNothing
<1>3. CASE UNCHANGED vars
  BY <1>2, <1>3 DEF vars
<1>4. ASSUME NEW a \in Alerts, Forward(a)
      PROVE  touches' = touches /\ overruled' = overruled /\ LinksNothing(db, db')
  <2>1. LinksStay(db, db')
    BY <1>1, <1>4, IngestAlertDoes DEF Forward
  <2> QED BY <1>4, <2>1 DEF Forward, LinksStay, LinksNothing
<1>5. Poll \/ MoveCursor \/ DispatchTick \/ Crash => touches' = touches /\ overruled' = overruled /\ db' = db
  BY DEF Poll, MoveCursor, DispatchTick, Crash
<1>6. ASSUME NEW kind, NEW a, PostRun(kind, a) PROVE touches' = touches /\ overruled' = overruled /\ db' = db
  BY <1>6 DEF PostRun
<1>7. ASSUME NEW r \in RunIds, RunStep(r) \/ RunFails(r) \/ MisreadError(r)
      PROVE  /\ touches' = touches /\ overruled' = overruled
             /\ \/ LinksNothing(db, db')
                \/ /\ run[r].at \in {"merge", "create"} /\ run'[r].at \notin Unlinked
                   /\ OnlyLinks(db, db', run[r].alert)
  <2>1. touches' = touches /\ overruled' = overruled
    BY <1>7 DEF RunStep, RunFails, MisreadError, Claim, MergeCheck, Pickup, Merge, Create, WriteOutcome,
       LoadCloseTarget, PickupClose, ExecuteClose, Ask, Quiet
  <2>2. \/ db' = db
        \/ Running(r) /\ db' = Request(r).db /\ run[r].at \notin {"merge", "create"}
        \/ Running(r) /\ db' = Request(r).db /\ run'[r].at \in {"final", "failed"}
    <3>1. \A place \in TriagePath \cup ClosePath : At(r, place) => Running(r)
      BY DEF At, Running
    <3>2. ASSUME NEW made PROVE Over(r, "failed", made).at = "failed"
      BY DEF Over, NoRun
    <3>3. ASSUME NEW place \in {"merge", "create"}, Ask(r, place, "final")
          PROVE  Running(r) /\ db' = Request(r).db /\ run'[r].at \in {"final", "failed"}
      <4>1. Running(r) /\ db' = Request(r).db
        BY <3>1, <3>3 DEF Ask, TriagePath
      <4>2. run'[r] = Over(r, "failed", run[r].made) \/ run'[r] = Onward(run[r], "final", Opened(r))
        BY <1>1, <3>3 DEF Ask, Ends, Onward
      <4>3. Onward(run[r], "final", Opened(r)).at = "final"
        BY <1>1 DEF Onward, Runs
      <4> QED BY <3>2, <4>1, <4>2, <4>3
    <3>4. CASE RunStep(r)
      <4>1. CASE Merge(r) \/ Create(r)
        BY <3>3, <4>1 DEF Merge, Create
      <4>2. CASE ~(Merge(r) \/ Create(r))
        <5>1. Claim(r) \/ MergeCheck(r) \/ Pickup(r) \/ WriteOutcome(r) \/ LoadCloseTarget(r) \/ PickupClose(r) \/ ExecuteClose(r)
          BY <3>4, <4>2 DEF RunStep
        <5>2. CASE MergeCheck(r) \/ LoadCloseTarget(r)
          BY <5>2 DEF MergeCheck, LoadCloseTarget
        <5>3. CASE Claim(r) \/ Pickup(r) \/ WriteOutcome(r) \/ PickupClose(r) \/ ExecuteClose(r)
          <6>1. /\ At(r, "load") \/ At(r, "pickup") \/ At(r, "final") \/ At(r, "pickup_close") \/ At(r, "close")
                /\ db' = Request(r).db
            BY <5>3 DEF Claim, Pickup, WriteOutcome, PickupClose, ExecuteClose, Ask
          <6>2. run[r].at \in {"load", "pickup", "final", "pickup_close", "close"}
            BY <6>1 DEF At
          <6> QED BY <6>1, <6>2 DEF Running, TriagePath, ClosePath
        <5> QED BY <5>1, <5>2, <5>3
      <4> QED BY <4>1, <4>2
    <3>5. CASE RunFails(r)
      <4>1. \/ db' = db
            \/ db' = Request(r).db /\ run'[r] = Over(r, "failed", Opened(r))
        BY <1>1, <3>5 DEF RunFails
      <4>2. Running(r)
        BY <3>5 DEF RunFails
      <4> QED BY <3>2, <4>1, <4>2
    <3>6. CASE MisreadError(r)
      BY <3>6 DEF MisreadError
    <3> QED BY <1>7, <3>4, <3>5, <3>6
  <2> QED BY <1>2, <2>1, <2>2, RequestLinks DEF Unlinked
<1>8. AnalystActs => \/ touches' = touches + 1
                     \/ touches' = touches /\ overruled' = overruled /\ LinksNothing(db, db')
  <2>1. ASSUME NEW c \in DOMAIN db.kase,
               TouchCase(PatchCase(db, c, "InProgress")) \/ \E v \in Final : TouchCase(CloseCase(db, c, v))
        PROVE  touches' = touches /\ LinksNothing(db, db')
    <3>1. c \in 1 .. Len(db.kase)
      BY <1>1, DbParts
    <3>2. LinksStay(db, db')
      BY <1>1, <2>1, <3>1, PatchCaseDoes, CloseCaseDoes DEF TouchCase
    <3> QED BY <2>1, <3>2 DEF TouchCase, LinksStay, LinksNothing
  <2> QED BY <2>1 DEF AnalystActs, Touch
<1>9. ASSUME NEW a, NEW v, AnalystCloses(a, v) PROVE touches' = touches + 1
  BY <1>9 DEF AnalystCloses, Touch
<1>10. CASE Next
  BY <1>1, <1>2, <1>4, <1>5, <1>6, <1>7, <1>8, <1>9, <1>10 DEF Next
<1> QED BY <1>3, <1>10

-----------------------------------------------------------------------------
(* The invariant is inductive: one lemma per part *)

LEMMA TypeHolds == ASSUME AlertInv, [Next]_vars PROVE TypeOK'
<1> USE DEF agent, history
<1>1. TypeOK /\ PlacesTell /\ Numbered /\ CloseRemembers
  BY DEF AlertInv, TriageInv
<1>2. /\ db' \in Db /\ Grows(db, db') /\ cleared' \subseteq overruled' /\ overruled' \subseteq Alerts
      /\ run' = [r \in RunIds |-> run'[r]] /\ \A r \in RunIds : Moves(r)
  BY <1>1, StepStands, StepMoves DEF Stands, IsTable
<1>3. \A r \in RunIds : run'[r] \in Runs
  BY <1>1, <1>2, RowDoes DEF RowGoes
<1>4. run' \in [RunIds -> Runs]
  BY <1>2, <1>3
<1>5. Len(db.outbox) <= Len(db'.outbox) /\ Len(db.outbox) \in Nat /\ Len(db'.outbox) \in Nat
  BY <1>1, <1>2, RunParts, DbParts DEF Grows
<1>6. cursor \in 0 .. Len(db.outbox) /\ (polling => cursor < Len(db.outbox)) /\ polling \in BOOLEAN
  BY <1>1 DEF TypeOK
<1>7. cursor' \in 0 .. Len(db'.outbox) /\ (polling' => cursor' < Len(db'.outbox)) /\ polling' \in BOOLEAN
  <2>1. CASE cursor' = cursor /\ polling' = FALSE
    <3>1. cursor' \in 0 .. Len(db'.outbox)
      BY <1>5, <1>6, <2>1
    <3>2. ~polling' /\ polling' \in BOOLEAN
      BY <2>1
    <3> QED BY <3>1, <3>2
  <2>2. CASE cursor' = cursor + 1 /\ ~polling' /\ polling' \in BOOLEAN /\ cursor < Len(db.outbox)
    BY <1>5, <1>6, <2>2
  <2>3. CASE cursor' = cursor /\ polling' = TRUE /\ cursor < Len(db.outbox)
    BY <1>5, <1>6, <2>3
  <2>4. CASE Poll
    <3>1. ~polling /\ cursor < Len(db.outbox)
      BY <2>4 DEF Poll
    <3>2. \/ cursor' = cursor /\ polling' = TRUE
          \/ cursor' = cursor + 1 /\ polling' = polling
      BY <2>4 DEF Poll
    <3>3. CASE cursor' = cursor /\ polling' = TRUE
      BY <2>3, <3>1, <3>3
    <3>4. CASE cursor' = cursor + 1 /\ polling' = polling
      BY <1>6, <2>2, <3>1, <3>4
    <3> QED BY <3>2, <3>3, <3>4
  <2>5. CASE MoveCursor
    BY <1>6, <2>2, <2>5 DEF MoveCursor
  <2>6. CASE Crash
    BY <2>1, <2>6 DEF Crash
  <2>7. CASE UNCHANGED <<cursor, polling>>
    BY <1>5, <1>6, <2>7
  <2>8. \A r \in RunIds : RunStep(r) \/ RunFails(r) \/ MisreadError(r) => UNCHANGED <<cursor, polling>>
    BY DEF RunStep, RunFails, MisreadError, Claim, MergeCheck, Pickup, Merge, Create, WriteOutcome,
       LoadCloseTarget, PickupClose, ExecuteClose, Ask, Quiet
  <2>9. AnalystActs \/ (\E a \in Alerts, v \in Final \cup {None} : AnalystCloses(a, v)) => UNCHANGED <<cursor, polling>>
    BY DEF AnalystActs, AnalystCloses, Touch, TouchCase
  <2>10. (\E a \in Alerts : Forward(a)) \/ DispatchTick
         \/ (\E kind \in {"alert_flow", "close_flow"}, a \in Alerts : PostRun(kind, a)) => UNCHANGED <<cursor, polling>>
    BY DEF Forward, DispatchTick, PostRun
  <2>11. UNCHANGED vars => UNCHANGED <<cursor, polling>>
    BY DEF vars
  <2> QED BY <2>4, <2>5, <2>6, <2>7, <2>8, <2>9, <2>10, <2>11 DEF Next
<1>8. faults' \in 0 .. MaxFaults /\ touches' \in 0 .. MaxTouches
  <2>1. faults \in 0 .. MaxFaults /\ touches \in 0 .. MaxTouches /\ MaxFaults \in Nat /\ MaxTouches \in Nat
    BY <1>1, AlertLifeAssumption DEF TypeOK
  <2>2. CASE UNCHANGED <<faults, touches>>
    BY <2>1, <2>2
  <2>3. CASE Fault /\ UNCHANGED touches
    BY <2>1, <2>3 DEF Fault
  <2>4. CASE touches < MaxTouches /\ touches' = touches + 1 /\ UNCHANGED faults
    BY <2>1, <2>4
  <2>5. \A r \in RunIds : /\ RunStep(r) => UNCHANGED <<faults, touches>>
                          /\ RunFails(r) \/ MisreadError(r) => Fault /\ UNCHANGED touches
    BY DEF RunStep, RunFails, MisreadError, Claim, MergeCheck, Pickup, Merge, Create, WriteOutcome,
       LoadCloseTarget, PickupClose, ExecuteClose, Ask, Quiet
  <2>6. AnalystActs \/ (\E a \in Alerts, v \in Final \cup {None} : AnalystCloses(a, v))
          => \/ touches < MaxTouches /\ touches' = touches + 1 /\ UNCHANGED faults
             \/ UNCHANGED <<faults, touches>>
    BY DEF AnalystActs, AnalystCloses, Touch, TouchCase
  <2>7. (\E a \in Alerts : Forward(a)) \/ Poll \/ MoveCursor \/ DispatchTick
         \/ (\E kind \in {"alert_flow", "close_flow"}, a \in Alerts : PostRun(kind, a)) => UNCHANGED <<faults, touches>>
    BY DEF Forward, Poll, MoveCursor, DispatchTick, PostRun
  <2>8. Crash => Fault /\ UNCHANGED touches
    BY DEF Crash
  <2>9. UNCHANGED vars => UNCHANGED <<faults, touches>>
    BY DEF vars
  <2> QED BY <2>2, <2>3, <2>4, <2>5, <2>6, <2>7, <2>8, <2>9 DEF Next
<1> QED BY <1>2, <1>4, <1>7, <1>8 DEF TypeOK, Db

LEMMA NumberedHolds ==
  ASSUME TypeOK, PlacesTell, Numbered, CloseRemembers, \A r \in RunIds : Moves(r) PROVE Numbered'
<1>1. PICK n \in Nat : Launched = 1 .. n
  BY DEF Numbered
<1>2. \A r \in RunIds : RowGoes(r)
  BY RowDoes
<1>3. RunIds \subseteq Nat
  BY RunParts
<1>4. CASE \E r \in RunIds : Starts(r)
  <2>1. PICK r \in RunIds : Starts(r)
    BY <1>4
  <2>2. Launched = 1 .. (r - 1) /\ Alone(r)
    BY <2>1 DEF Starts
  <2>3. run'[r].kind # None
    <3>1. PICK kind \in {"alert_flow", "close_flow"}, a \in Alerts : run'[r] = Fresh(kind, a)
      BY <2>1 DEF Starts
    <3> QED BY <3>1 DEF Fresh, NoRun, None
  <2>4. Launched' = Launched \cup {r}
    BY <2>2, <2>3 DEF Launched, Alone
  <2>5. r \in Nat \ {0}
    BY DEF RunIds
  <2>6. Launched' = 1 .. r
    BY <2>2, <2>4, <2>5
  <2> QED BY <2>5, <2>6 DEF Numbered
<1>5. CASE ~ \E r \in RunIds : Starts(r)
  <2>1. Launched' = Launched
    BY <1>2, <1>5 DEF RowGoes, Launched
  <2> QED BY <1>1, <2>1 DEF Numbered
<1> QED BY <1>4, <1>5

LEMMA WinnersHold ==
  ASSUME AlertInv, [Next]_vars PROVE WinnerHolds' /\ SoleTriager'
<1>1. TypeOK /\ PlacesTell /\ Numbered /\ CloseRemembers /\ WinnerHolds /\ SoleTriager
  BY DEF AlertInv, TriageInv
<1>2. Stands(db, db', overruled', cleared') /\ cleared \subseteq cleared' /\ \A r \in RunIds : Moves(r)
  BY <1>1, StepStands, StepMoves
<1>3. \A r \in RunIds : RowGoes(r) /\ PlaceTells(run[r])
  BY <1>1, <1>2, RowDoes DEF PlacesTell
<1>4. ASSUME NEW r \in RunIds, run'[r].won
      PROVE  /\ run'[r].kind = run[r].kind /\ run'[r].alert = run[r].alert
             /\ run[r].won \/ Wins(r)
  <2>1. ~Starts(r)
    <3>1. ASSUME NEW kind \in {"alert_flow", "close_flow"}, NEW a \in Alerts PROVE ~Fresh(kind, a).won
      BY DEF Fresh, NoRun
    <3> QED BY <1>4, <3>1 DEF Starts
  <2> QED BY <1>3, <1>4, <2>1 DEF RowGoes
<1>5. ASSUME NEW r \in RunIds, run'[r].won, run'[r].kind = "alert_flow", run'[r].alert \notin cleared'
      PROVE  VerdictOf(db', run'[r].alert) # None
  <2>1. CASE run[r].won
    <3>1. VerdictOf(db, run[r].alert) # None
      BY <1>1, <1>2, <1>4, <1>5, <2>1 DEF WinnerHolds, VerdictOf
    <3>2. run[r].alert \in Alerts
      BY <1>3, <1>4, <1>5 DEF PlaceTells, None
    <3> QED BY <1>2, <1>4, <1>5, <3>1, <3>2 DEF Stands
  <2>2. CASE Wins(r)
    <3>1. VerdictOf(db', run[r].alert) = "in-progress"
      BY <2>2 DEF Wins
    <3> QED BY <1>4, <1>5, <3>1 DEF None
  <2> QED BY <1>4, <1>5, <2>1, <2>2
<1>6. ASSUME NEW a \in Alerts \ cleared', NEW r \in RunIds, NEW s \in RunIds, run'[r].won, run'[s].won,
             run'[r].kind = "alert_flow", run'[s].kind = "alert_flow", run'[r].alert = a, run'[s].alert = a
      PROVE  r = s
  <2>1. a \notin cleared /\ run[r].alert = a /\ run[s].alert = a /\ run[r].kind = "alert_flow" /\ run[s].kind = "alert_flow"
    BY <1>2, <1>4, <1>6
  <2>2. CASE run[r].won /\ run[s].won
    BY <1>1, <2>1, <2>2 DEF SoleTriager, TriagesOf
  <2>3. ASSUME NEW x \in RunIds, NEW y \in RunIds, Wins(x), x # y, run'[y].won, run[x].alert = a,
               run[y].alert = a, run[y].kind = "alert_flow"
        PROVE  FALSE
    <3>1. run[y].won
      BY <2>3 DEF Wins, Alone
    <3>2. VerdictOf(db, a) # None
      BY <1>1, <2>1, <2>3, <3>1 DEF WinnerHolds, VerdictOf
    <3> QED BY <2>3, <3>2 DEF Wins
  <2> QED BY <1>4, <1>6, <2>1, <2>2, <2>3
<1>7. WinnerHolds'
  BY <1>5 DEF WinnerHolds, VerdictOf
<1>8. SoleTriager'
  BY <1>6 DEF SoleTriager, TriagesOf
<1> QED BY <1>7, <1>8

LEMMA RemembersHolds ==
  ASSUME AlertInv, [Next]_vars PROVE CloseRemembers'
<1>1. TypeOK /\ PlacesTell /\ Numbered /\ CloseRemembers
  BY DEF AlertInv, TriageInv
<1>2. Stands(db, db', overruled', cleared') /\ overruled \subseteq overruled' /\ \A r \in RunIds : Moves(r)
  BY <1>1, StepStands, StepMoves
<1>3. ASSUME NEW r \in RunIds, run'[r].at \in {"pickup_close", "close"}, run'[r].alert \notin overruled'
      PROVE  VerdictOf(db', run'[r].alert) = run'[r].verdict
  <2>1. RowGoes(r) /\ PlaceTells(run[r])
    BY <1>1, <1>2, RowDoes DEF PlacesTell
  <2>2. ~Starts(r)
    <3>1. ASSUME NEW kind \in {"alert_flow", "close_flow"}, NEW a \in Alerts PROVE Fresh(kind, a).at = "queued"
      BY DEF Fresh, NoRun
    <3> QED BY <1>3, <3>1 DEF Starts
  <2>3. run'[r].alert = run[r].alert
    BY <2>1, <2>2 DEF RowGoes
  <2>4. CASE db' = db /\ run'[r].verdict = VerdictOf(db, run[r].alert)
    BY <2>3, <2>4
  <2>5. CASE run[r].at \in {"pickup_close", "close"} /\ run'[r].verdict = run[r].verdict
    <3>1. VerdictOf(db, run[r].alert) = run[r].verdict
      BY <1>1, <1>2, <1>3, <2>3, <2>5 DEF CloseRemembers, VerdictOf
    <3>2. run[r].alert \in Alerts /\ run[r].verdict \in Final
      BY <2>1, <2>5 DEF PlaceTells, NoRun, None, ClosePath
    <3> QED BY <1>2, <1>3, <2>3, <2>5, <3>1, <3>2 DEF Stands
  <2> QED BY <1>1, <1>2, <1>3, <2>4, <2>5, RowArrives
<1> QED BY <1>3 DEF CloseRemembers, VerdictOf

LEMMA LinkedHolds ==
  ASSUME AlertInv, [Next]_vars PROVE LinkedLate' /\ OneCasePerAlert'
<1> SUFFICES ASSUME touches' = 0 PROVE LinkedLate' /\ OneCasePerAlert'
  BY DEF LinkedLate, OneCasePerAlert
<1>1. TypeOK /\ PlacesTell /\ Numbered /\ CloseRemembers /\ WinnerHolds /\ SoleTriager /\ LinkedLate /\ OneCasePerAlert
  BY DEF AlertInv, TriageInv, CasesStayWhole
<1>2. Stands(db, db', overruled', cleared') /\ cleared' \subseteq overruled' /\ \A r \in RunIds : Moves(r)
  BY <1>1, StepStands, StepMoves
<1>3. /\ touches = 0 /\ overruled' = overruled
      /\ \/ LinksNothing(db, db')
         \/ \E r \in RunIds : /\ run[r].at \in {"merge", "create"} /\ run'[r].at \notin Unlinked
                              /\ OnlyLinks(db, db', run[r].alert)
  BY <1>1, StepLinks
<1>4. /\ overruled = {} /\ overruled' = {} /\ cleared' = {} /\ cleared = {}
      /\ \A a \in Alerts : Linked(a) => VerdictOf(db, a) # None
      /\ \A r \in RunIds : run[r].at \in Unlinked => ~Linked(run[r].alert)
  BY <1>1, <1>2, <1>3 DEF LinkedLate, VerdictOf, TypeOK
<1>5. \A d \in {db, db'} : DOMAIN d.kase = 1 .. Len(d.kase)
  BY <1>1, <1>2, RunParts, DbParts DEF Stands
<1>6. \A a \in Alerts : VerdictOf(db, a) # None => VerdictOf(db', a) # None
  BY <1>2, <1>4 DEF Stands
<1>7. \A r \in RunIds : RowGoes(r) /\ PlaceTells(run[r]) /\ PlaceTells(run'[r])
  BY <1>1, <1>2, RowDoes DEF PlacesTell, RowGoes
<1>8. ASSUME NEW r \in RunIds, run[r].at \in {"merge", "create"}
      PROVE  /\ run[r].alert \in Alerts /\ VerdictOf(db, run[r].alert) # None /\ ~Linked(run[r].alert)
             /\ run[r].won /\ run[r].kind = "alert_flow"
  <2>1. PlaceTells(run[r])
    BY <1>7
  <2>2. run[r].won /\ run[r].kind = "alert_flow" /\ run[r].alert \in Alerts
    BY <1>8, <2>1 DEF PlaceTells, Judging, TriagePath, None
  <2>3. VerdictOf(db, run[r].alert) # None
    BY <1>1, <1>4, <2>2 DEF WinnerHolds, VerdictOf
  <2> QED BY <1>4, <1>8, <2>2, <2>3 DEF Unlinked
<1>9. ASSUME NEW r \in RunIds, run'[r].at \in Unlinked
      PROVE  /\ ~Linked(run'[r].alert) /\ run'[r].won /\ run'[r].kind = "alert_flow" /\ run'[r].alert \in Alerts
             /\ run'[r].alert = run[r].alert /\ run[r].kind = "alert_flow"
             /\ run[r].won \/ VerdictOf(db, run[r].alert) = None
  <2>1. PlaceTells(run'[r]) /\ RowGoes(r)
    BY <1>7
  <2>2. run'[r].won /\ run'[r].kind = "alert_flow" /\ run'[r].alert \in Alerts
    BY <1>9, <2>1 DEF PlaceTells, Judging, Unlinked, TriagePath, None
  <2>3. ~Starts(r)
    <3>1. ASSUME NEW kind \in {"alert_flow", "close_flow"}, NEW a \in Alerts PROVE Fresh(kind, a).at = "queued"
      BY DEF Fresh, NoRun
    <3> QED BY <1>9, <3>1 DEF Starts, Unlinked
  <2>4. run'[r].alert = run[r].alert /\ run[r].kind = "alert_flow"
    BY <2>1, <2>2, <2>3 DEF RowGoes
  <2>5. run[r].at \in Unlinked \/ Wins(r)
    BY <1>1, <1>2, <1>9, RowArrives
  <2>6. CASE run[r].at \in Unlinked
    <3>1. PlaceTells(run[r]) /\ ~Linked(run[r].alert)
      BY <1>4, <1>7, <2>6
    <3> QED BY <2>2, <2>4, <2>6, <3>1 DEF PlaceTells, Judging, Unlinked
  <2>7. CASE Wins(r)
    <3>1. VerdictOf(db, run[r].alert) = None
      BY <2>7 DEF Wins
    <3> QED BY <1>4, <2>2, <2>4, <3>1
  <2> QED BY <2>5, <2>6, <2>7
<1>10. CASE LinksNothing(db, db')
  <2>1. \A a \in Alerts : Linked(a)' => Linked(a)
    BY <1>5, <1>10 DEF LinksNothing, Linked
  <2>2. OneCasePerAlert'
    BY <1>1, <1>3, <1>5, <1>10 DEF LinksNothing, OneCasePerAlert
  <2>3. LinkedLate'
    BY <1>4, <1>6, <1>9, <2>1 DEF LinkedLate, VerdictOf
  <2> QED BY <2>2, <2>3
<1>11. ASSUME NEW r \in RunIds, run[r].at \in {"merge", "create"}, run'[r].at \notin Unlinked,
              OnlyLinks(db, db', run[r].alert)
       PROVE  LinkedLate' /\ OneCasePerAlert'
  <2> DEFINE a == run[r].alert
  <2>1. a \in Alerts /\ VerdictOf(db, a) # None /\ ~Linked(a) /\ run[r].won /\ run[r].kind = "alert_flow"
    BY <1>8, <1>11
  <2>2. PICK p \in Nat, n \in Nat :
          \A c \in 1 .. Len(db'.kase) : \A i \in DOMAIN db'.kase[c].linked :
            \/ c = p /\ i = n /\ db'.kase[c].linked[i] = a
            \/ /\ c \in 1 .. Len(db.kase) /\ i \in DOMAIN db.kase[c].linked
               /\ db'.kase[c].linked[i] = db.kase[c].linked[i]
    BY <1>11 DEF OnlyLinks
  <2> HIDE DEF a
  <2>3. \A b \in Alerts : Linked(b)' => Linked(b) \/ b = a
    BY <1>5, <2>2 DEF Linked
  <2>4. OneCasePerAlert'
    <3>1. ASSUME NEW c \in 1 .. Len(db'.kase), NEW d \in 1 .. Len(db'.kase),
                 NEW i \in DOMAIN db'.kase[c].linked, NEW j \in DOMAIN db'.kase[d].linked,
                 db'.kase[c].linked[i] = db'.kase[d].linked[j]
          PROVE  c = d /\ i = j
      <4>1. CASE c = p /\ i = n /\ d = p /\ j = n
        BY <4>1
      <4>2. CASE /\ c \in 1 .. Len(db.kase) /\ i \in DOMAIN db.kase[c].linked
                 /\ db'.kase[c].linked[i] = db.kase[c].linked[i]
                 /\ d \in 1 .. Len(db.kase) /\ j \in DOMAIN db.kase[d].linked
                 /\ db'.kase[d].linked[j] = db.kase[d].linked[j]
        <5>1. db.kase[c].linked[i] = db.kase[d].linked[j]
          BY <3>1, <4>2
        <5>2. c \in DOMAIN db.kase /\ d \in DOMAIN db.kase
          BY <1>5, <4>2
        <5>3. touches = 0 /\ OneCasePerAlert
          BY <1>1, <1>3
        <5> QED BY <4>2, <5>1, <5>2, <5>3 DEF OneCasePerAlert
      <4>3. \A x \in 1 .. Len(db.kase) : \A k \in DOMAIN db.kase[x].linked : db.kase[x].linked[k] # a
        BY <1>5, <2>1 DEF Linked
      <4> QED BY <2>2, <3>1, <4>1, <4>2, <4>3
    <3> QED BY <1>5, <3>1 DEF OneCasePerAlert
  <2>5. LinkedLate'
    <3>1. \A b \in Alerts : Linked(b)' => VerdictOf(db', b) # None
      BY <1>4, <1>6, <2>1, <2>3
    <3>2. ASSUME NEW s \in RunIds, run'[s].at \in Unlinked, NEW b \in Alerts, b = run'[s].alert PROVE ~Linked(b)'
      <4>1. /\ ~Linked(run'[s].alert) /\ run'[s].won /\ run'[s].alert \in Alerts /\ run'[s].alert = run[s].alert
            /\ run[s].kind = "alert_flow"
            /\ run[s].won \/ VerdictOf(db, run[s].alert) = None
        BY <1>9, <3>2
      <4>2. run'[s].alert # a
        <5>1. SUFFICES ASSUME run[s].alert = a PROVE FALSE
          BY <4>1
        <5>2. run[s].won
          BY <2>1, <4>1, <5>1
        <5>3. r = s
          BY <1>1, <1>4, <2>1, <4>1, <5>1, <5>2 DEF SoleTriager, TriagesOf, a
        <5> QED BY <1>11, <3>2, <5>3
      <4>3. ~Linked(b) /\ b # a
        BY <3>2, <4>1, <4>2 DEF Linked
      <4> QED BY <2>3, <4>3
    <3>3. \A s \in RunIds : run'[s].at \in Unlinked => run'[s].alert \in Alerts
      BY <1>9
    <3>4. \A s \in RunIds : run'[s].at \in Unlinked => ~Linked(run[s].alert)'
      BY <3>2, <3>3 DEF Linked
    <3> QED BY <1>4, <3>1, <3>4 DEF LinkedLate, VerdictOf
  <2> QED BY <2>4, <2>5
<1> QED BY <1>3, <1>10, <1>11

LEMMA HistoryHolds ==
  ASSUME AlertInv, [Next]_vars PROVE CaseHistory' /\ SplitOnlyByRace'
<1>1. TypeOK /\ PlacesTell /\ Numbered /\ CloseRemembers /\ CaseHistory /\ SplitOnlyByRace
  BY DEF AlertInv, TriageInv, CasesStayWhole
<1>2. db \in Db /\ db' \in Db /\ Grows(db, db') /\ \A r \in RunIds : Moves(r)
  BY <1>1, RunParts, StepStands, StepMoves DEF Stands
<1>3. /\ Len(db.kase) \in Nat /\ Len(db'.kase) \in Nat /\ Len(db.kase) <= Len(db'.kase)
      /\ \A c \in 1 .. Len(db.kase) : db.kase[c].status = "Closed" => db'.kase[c].status = "Closed"
      /\ \A a \in Alerts : db'.alert[a].home \in {db.alert[a].home, Len(db.kase) + 1}
  BY <1>2, DbParts DEF Grows
<1>4. ASSUME NEW r \in RunIds
      PROVE  /\ run[r].made \in Nat /\ run[r].made <= Len(db.kase) /\ run[r].seen \in Nat /\ run[r].seen <= Len(db.kase)
             /\ run'[r].made \in Nat /\ run'[r].seen \in {0, run[r].seen, Len(db.kase)}
             /\ \/ run'[r].made = 0
                \/ /\ run'[r].made = run[r].made \/ Creates(r)
                   /\ run'[r].seen = run[r].seen /\ run'[r].blind = run[r].blind
  <2>1. run[r] \in Runs /\ RowGoes(r)
    BY <1>1, <1>2, RunParts, RowDoes
  <2>2. run[r].made <= Len(db.kase) /\ run[r].seen <= Len(db.kase)
    BY <1>1 DEF CaseHistory
  <2>3. run[r].made \in Nat /\ run[r].seen \in Nat /\ run'[r].made \in Nat
    BY <2>1 DEF Runs, RowGoes
  <2>4. run'[r].seen \in {0, run[r].seen, Len(db.kase)}
    BY <1>1, <1>2, RowArrives
  <2> QED BY <2>1, <2>2, <2>3, <2>4 DEF RowGoes
<1>5. \A r \in RunIds : Creates(r) => /\ run'[r].made = Len(db.kase) + 1 /\ Len(db'.kase) = Len(db.kase) + 1
                                      /\ run[r].at = "create" /\ \A s \in RunIds \ {r} : run'[s] = run[s]
  BY DEF Creates, Alone, At
<1>6. CaseHistory'
  <2>1. ASSUME NEW r \in RunIds PROVE run'[r].made <= Len(db'.kase) /\ run'[r].seen <= Len(db'.kase)
    BY <1>3, <1>4, <1>5
  <2>2. ASSUME NEW r \in RunIds, run'[r].at = "create", ~run'[r].blind, NEW c \in 1 .. run'[r].seen
        PROVE  db'.kase[c].status = "Closed" \/ \A a \in Alerts : db'.alert[a].home # c
    <3>1. CASE run'[r] = run[r]
      <4>1. run[r].at = "create" /\ ~run[r].blind /\ c \in 1 .. run[r].seen
        BY <2>2, <3>1
      <4>2. db.kase[c].status = "Closed" \/ \A a \in Alerts : db.alert[a].home # c
        BY <1>1, <4>1 DEF CaseHistory
      <4>3. c \in 1 .. Len(db.kase)
        BY <1>3, <1>4, <4>1
      <4> QED BY <1>3, <4>2, <4>3
    <3>2. CASE db' = db /\ ActiveCases(db) = {} /\ run'[r].seen = Len(db.kase)
      <4>1. c \in 1 .. Len(db.kase)
        BY <2>2, <3>2
      <4>2. db.kase[c] \in Cases /\ c \in DOMAIN db.kase
        BY <1>2, <4>1, DbParts
      <4>3. DOMAIN db.alert = Alerts
        BY <1>2, DbParts
      <4>4. db.kase[c].status \notin {"New", "InProgress"} \/ \A a \in Alerts : db.alert[a].home # c
        BY <3>2, <4>2, <4>3 DEF ActiveCases, HasHost
      <4> QED BY <3>2, <4>2, <4>4 DEF Cases
    <3> QED BY <1>1, <1>2, <2>2, <3>1, <3>2, RowArrives
  <2> QED BY <2>1, <2>2 DEF CaseHistory
<1>7. SplitOnlyByRace'
  <2> SUFFICES ASSUME NEW r \in RunIds, NEW s \in RunIds, run'[r].made # 0, run'[s].made > run'[r].made,
                      db'.kase[run'[r].made].status # "Closed", db'.alert[run'[r].alert].home = run'[r].made
               PROVE  run'[s].seen < run'[r].made \/ run'[s].blind
    BY DEF SplitOnlyByRace, Launched
  <2>1. run'[s].made # 0 /\ r # s
    BY <1>4
  <2>2. run'[s].seen = run[s].seen /\ run'[s].blind = run[s].blind /\ (run'[s].made = run[s].made \/ Creates(s))
    BY <1>4, <2>1
  <2>3. run'[r].made = run[r].made
    <3>1. CASE Creates(r)
      BY <1>3, <1>4, <1>5, <2>1, <3>1
    <3> QED BY <1>4, <3>1
  <2> DEFINE m == run[r].made
  <2>4. m \in 1 .. Len(db.kase) /\ db.kase[m].status # "Closed"
    BY <1>3, <1>4, <2>3
  <2>7. run'[r].alert = run[r].alert /\ run[r].alert \in Alerts /\ run[r].kind # None
    <3>1. RowGoes(r) /\ PlaceTells(run[r])
      BY <1>1, <1>2, RowDoes DEF PlacesTell
    <3>2. run[r].kind # None
      BY <2>3, <3>1 DEF PlaceTells, NoRun
    <3>3. ~Starts(r)
      <4>1. ASSUME NEW kind \in {"alert_flow", "close_flow"}, NEW a \in Alerts PROVE Fresh(kind, a).made = 0
        BY DEF Fresh, NoRun
      <4> QED BY <4>1 DEF Starts
    <3> QED BY <3>1, <3>2, <3>3 DEF RowGoes, PlaceTells
  <2>8. db.alert[run[r].alert].home = m
    BY <1>3, <2>3, <2>4, <2>7
  <2>5. CASE Creates(s)
    <3>1. run[s].at = "create"
      BY <1>5, <2>5
    <3>2. \/ run[s].blind
          \/ \A c \in 1 .. run[s].seen : db.kase[c].status = "Closed" \/ \A a \in Alerts : db.alert[a].home # c
      BY <1>1, <3>1 DEF CaseHistory
    <3>3. run[s].blind \/ m \notin 1 .. run[s].seen
      BY <2>4, <2>7, <2>8, <3>2
    <3> QED BY <1>4, <2>2, <2>3, <2>4, <3>3
  <2>6. CASE run'[s].made = run[s].made
    <3>1. m # 0 /\ run[s].made > m
      BY <2>3, <2>6
    <3>3. r \in Launched /\ s \in Launched
      <4>1. PlaceTells(run[r]) /\ PlaceTells(run[s])
        BY <1>1 DEF PlacesTell
      <4>2. run[s].made # 0
        BY <2>1, <2>6
      <4> QED BY <3>1, <4>1, <4>2 DEF PlaceTells, NoRun, Launched
    <3>4. run[s].seen < m \/ run[s].blind
      BY <1>1, <2>4, <2>8, <3>1, <3>3 DEF SplitOnlyByRace
    <3> QED BY <2>2, <2>3, <3>4
  <2> QED BY <2>2, <2>5, <2>6
<1> QED BY <1>6, <1>7

LEMMA PlacesHold ==
  ASSUME TypeOK, PlacesTell, CloseRemembers, \A r \in RunIds : Moves(r) PROVE PlacesTell'
<1>1. \A r \in RunIds : PlaceTells(run'[r])
  BY RowDoes DEF RowGoes
<1> QED BY <1>1 DEF PlacesTell, PlaceTells

LEMMA AlertInvInit == Init => AlertInv
<1> SUFFICES ASSUME Init PROVE AlertInv
  OBVIOUS
<1>1. db = EmptyDb(Alerts) /\ run = [r \in RunIds |-> NoRun] /\ cursor = 0 /\ polling = FALSE
      /\ faults = 0 /\ touches = 0 /\ overruled = {} /\ cleared = {}
  BY DEF Init
<1>2. /\ db.alert = [a \in Alerts |-> Absent] /\ db.kase = <<>> /\ db.outbox = <<>>
      /\ db = [alert |-> [a \in Alerts |-> Absent], kase |-> <<>>, outbox |-> <<>>]
  BY <1>1 DEF EmptyDb
<1>3. Absent \in Rows /\ NoRun \in Runs
  BY DEF Absent, Rows, Verdicts, Hints, NoRun, Runs, Places
<1>4. <<>> \in Seq(Cases) /\ <<>> \in Seq(Events) /\ Len(<<>>) = 0 /\ DOMAIN <<>> = {}
  OBVIOUS
<1>5. \A r \in RunIds : /\ run[r] = NoRun /\ run[r].kind = None /\ run[r].at = None /\ ~run[r].won
                        /\ run[r].made = 0 /\ run[r].seen = 0
  BY <1>1 DEF NoRun
<1>6. TypeOK
  <2>1. db \in [alert : [Alerts -> Rows], kase : Seq(Cases), outbox : Seq(Events)]
    BY <1>2, <1>3, <1>4
  <2>2. run \in [RunIds -> Runs]
    BY <1>1, <1>3
  <2>3. cursor \in 0 .. Len(db.outbox) /\ faults \in 0 .. MaxFaults /\ touches \in 0 .. MaxTouches
    BY <1>1, <1>2, AlertLifeAssumption
  <2> QED BY <1>1, <2>1, <2>2, <2>3 DEF TypeOK
<1>7. PlacesTell
  BY <1>5 DEF PlacesTell, PlaceTells, TriagePath, ClosePath, Judging, Unlinked, None
<1>8. Numbered
  <2>1. Launched = 1 .. 0
    BY <1>5 DEF Launched
  <2> QED BY <2>1 DEF Numbered
<1>9. WinnerHolds /\ SoleTriager /\ CloseRemembers
  BY <1>5 DEF WinnerHolds, SoleTriager, TriagesOf, CloseRemembers, None
<1>10. LinkedLate /\ OneCasePerAlert
  BY <1>1, <1>2, <1>4, <1>5 DEF LinkedLate, OneCasePerAlert, Linked, Unlinked, None
<1>11. CaseHistory /\ SplitOnlyByRace
  BY <1>2, <1>4, <1>5 DEF CaseHistory, SplitOnlyByRace, Launched, None
<1> QED BY <1>6, <1>7, <1>8, <1>9, <1>10, <1>11 DEF AlertInv, TriageInv, CasesStayWhole

LEMMA AlertInvStep == AlertInv /\ [Next]_vars => AlertInv'
<1> SUFFICES ASSUME AlertInv, [Next]_vars PROVE AlertInv'
  OBVIOUS
<1>1. TypeOK /\ PlacesTell /\ Numbered /\ CloseRemembers
  BY DEF AlertInv, TriageInv
<1>2. \A r \in RunIds : Moves(r)
  BY <1>1, StepMoves
<1>3. PlacesTell' /\ Numbered'
  BY <1>1, <1>2, PlacesHold, NumberedHolds
<1> QED BY <1>3, TypeHolds, WinnersHold, RemembersHolds, LinkedHolds, HistoryHolds DEF AlertInv, TriageInv, CasesStayWhole

-----------------------------------------------------------------------------
(* The theorems *)

\* The invariant holds of every instance: the shape of the rows and the tables, one winner
\* per alert, and what the links and the numbers of the cases say of the runs.
THEOREM AlertInvHolds == Spec => []AlertInv
BY AlertInvInit, AlertInvStep, PTL DEF Spec

\* However many runs autorun, analysts and failures launch for an alert, at most one wins
\* its claim, unless an analyst closed it without a verdict (FR-M4.5).
THEOREM SoleTriagerHolds == Spec => []SoleTriager
<1>1. AlertInv => SoleTriager
  BY DEF AlertInv, TriageInv
<1> QED BY <1>1, AlertInvHolds, PTL

\* Unless an analyst lays hands on alerts an alert belongs to one case.  Two runs open two
\* cases of the host, the first open still, only if they raced, the question for active
\* cases got an error (triage/flow.ts:188, 313), or the first case's alert took its
\* observables to a later case (store.ts:430, 739).
THEOREM CasesStayWholeHolds == Spec => []CasesStayWhole
<1>1. AlertInv => CasesStayWhole
  BY DEF AlertInv
<1> QED BY <1>1, AlertInvHolds, PTL

\* No step of any run or analyst moves a final verdict that no analyst closed over, nor
\* touches a closed case (store.ts:571, INV-10).
THEOREM FinalStaysHolds == Spec => FinalStays
<1> DEFINE Kept ==
      /\ \A a \in Alerts : db.alert[a].verdict \in Final /\ a \notin overruled' =>
           db'.alert[a].verdict = db.alert[a].verdict
      /\ \A c \in DOMAIN db.kase : db.kase[c].status = "Closed" => db'.kase[c] = db.kase[c]
<1>1. AlertInv /\ [Next]_vars => Kept
  <2> SUFFICES ASSUME AlertInv, [Next]_vars PROVE Kept
    OBVIOUS
  <2>1. TypeOK /\ PlacesTell /\ CloseRemembers
    BY DEF AlertInv, TriageInv
  <2>2. db \in Db /\ Stands(db, db', overruled', cleared')
    BY <2>1, RunParts, StepStands
  <2>3. DOMAIN db.kase = 1 .. Len(db.kase)
    BY <2>2, DbParts
  <2> QED BY <2>2, <2>3 DEF Stands, Grows, VerdictOf
<1>2. Spec => [][\A a \in Alerts : db.alert[a].verdict \in Final /\ a \notin overruled' =>
                   db'.alert[a].verdict = db.alert[a].verdict]_vars
  BY <1>1, AlertInvHolds, PTL DEF Spec
<1>3. Spec => [][\A c \in DOMAIN db.kase : db.kase[c].status = "Closed" => db'.kase[c] = db.kase[c]]_vars
  BY <1>1, AlertInvHolds, PTL DEF Spec
<1> QED BY <1>2, <1>3 DEF FinalStays, FinalVerdictStands, ClosedCaseFrozen

=============================================================================
