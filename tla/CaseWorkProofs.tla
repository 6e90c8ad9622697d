---------------------------- MODULE CaseWorkProofs ----------------------------
(***************************************************************************)
(* What TLAPS proves of CaseWork, for any alerts, runs, artifacts and      *)
(* marks, any number of steps, and any number of runs at once.             *)
(***************************************************************************)
EXTENDS CaseWorkProps, FiniteSetTheorems, TLAPS

-----------------------------------------------------------------------------
(* Marks, sequences, counting *)

LEMMA MaxOfMarks ==
  ASSUME NEW S \in SUBSET (0..4), S # {}
  PROVE  Max(S) \in S /\ \A y \in S : y <= Max(S)
<1>1. \E x \in S : \A y \in S : x >= y
  <2>1. CASE 4 \in S
    BY <2>1
  <2>2. CASE 4 \notin S /\ 3 \in S
    BY <2>2
  <2>3. CASE 4 \notin S /\ 3 \notin S /\ 2 \in S
    BY <2>3
  <2>4. CASE 4 \notin S /\ 3 \notin S /\ 2 \notin S /\ 1 \in S
    BY <2>4
  <2>5. CASE 4 \notin S /\ 3 \notin S /\ 2 \notin S /\ 1 \notin S
    <3>1. \A y \in S : y = 0
      BY <2>5
    <3>2. PICK x \in S : TRUE
      OBVIOUS
    <3>3. x = 0 /\ \A y \in S : x >= y
      BY <3>1
    <3> QED BY <3>3
  <2> QED BY <2>1, <2>2, <2>3, <2>4, <2>5
<1>2. Max(S) \in S /\ \A y \in S : Max(S) >= y
  BY <1>1 DEF Max
<1> QED BY <1>2

LEMMA MarkOfAlert ==
  ASSUME NEW a \in Alerts
  PROVE  /\ TlpFromAlert(a) \in Nat
         /\ TlpFromAlert(a) <= 2 => (a.stamp = {} => a.words \subseteq 0..2)
<1>1. Marks(a) \subseteq 0..4 /\ Marks(a) # {}
  BY CaseWorkAssumption DEF Marks
<1>2. TlpFromAlert(a) \in Marks(a) /\ \A y \in Marks(a) : y <= TlpFromAlert(a)
  BY <1>1, MaxOfMarks DEF TlpFromAlert
<1>3. TlpFromAlert(a) \in Nat
  BY <1>1, <1>2
<1>4. ASSUME TlpFromAlert(a) <= 2, a.stamp = {}
      PROVE  a.words \subseteq 0..2
  <2>1. CASE a.words = {}
    BY <2>1
  <2>2. CASE a.words # {}
    <3>1. Marks(a) = a.words
      BY <1>4, <2>2 DEF Marks
    <3> QED BY <3>1, <1>1, <1>2, <1>3, <1>4
  <2> QED BY <2>1, <2>2
<1> QED BY <1>3, <1>4

\* the library's enumeration of a finite set is a sequence over it
LEMMA SetToSeqIsSeq ==
  ASSUME NEW S, IsFiniteSet(S)
  PROVE  SetToSeq(S) \in Seq(S)
<1>1. Cardinality(S) \in Nat /\ ExistsBijection(1..Cardinality(S), S)
  BY FS_CardinalityType
<1>2. \E f \in [1..Cardinality(S) -> S] : IsInjective(f)
  <2>1. PICK f : f \in Bijection(1..Cardinality(S), S)
    BY <1>1 DEF ExistsBijection
  <2>2. f \in [1..Cardinality(S) -> S] /\ IsInjective(f)
    BY <2>1 DEF Bijection, Injection, IsInjective
  <2> QED BY <2>2
<1>3. SetToSeq(S) \in [1..Cardinality(S) -> S]
  BY <1>2 DEF SetToSeq
<1> QED BY <1>1, <1>3

\* the rows an alert brings carry its values and its mark
LEMMA RowsOfAlert ==
  ASSUME NEW a \in Alerts
  PROVE  /\ AlertRows(a) \in Seq(Row)
         /\ \A i \in DOMAIN AlertRows(a) :
              /\ AlertRows(a)[i].from = "alert" /\ AlertRows(a)[i].data \in a.data
              /\ AlertRows(a)[i].tlp = TlpFromAlert(a)
<1> DEFINE mark == TlpFromAlert(a)
<1> DEFINE RowOf(d) == [data |-> d, tlp |-> mark, pap |-> 2, from |-> "alert"]
<1> DEFINE S == {RowOf(d) : d \in a.data}
<1>1. IsFiniteSet(a.data) /\ a.data \subseteq Values
  BY CaseWorkAssumption
<1>2. IsFiniteSet(S)
  <2> DEFINE f == [d \in a.data |-> RowOf(d)]
  <2>1. f \in Surjection(a.data, S)
    BY DEF Surjection
  <2> QED BY <2>1, <1>1, FS_Surjection
<1>3. AlertRows(a) \in Seq(S)
  <2>1. AlertRows(a) = SetToSeq(S)
    BY DEF AlertRows
  <2> QED BY <2>1, <1>2, SetToSeqIsSeq
<1>4. \A x \in S : x \in Row /\ x.from = "alert" /\ x.data \in a.data /\ x.tlp = TlpFromAlert(a)
  <2>1. mark \in Nat
    BY MarkOfAlert
  <2> QED BY <2>1, <1>1 DEF Row
<1> HIDE DEF S
<1> QED BY <1>3, <1>4

-----------------------------------------------------------------------------
(* How a run moves *)

\* what Move makes of the locals w
Upd(w, fields) == [f \in DOMAIN w |-> IF f \in DOMAIN fields THEN fields[f] ELSE w[f]]

\* the run r has the locals w now, and the others have what they had
Becomes(r, w) == work' = [work EXCEPT ![r] = w]

\* rows are only added, at the end
Grows == Len(rows) <= Len(rows') /\ \A i \in DOMAIN rows : rows'[i] = rows[i]

LEMMA Moved ==
  ASSUME NEW r \in Runs, NEW fields, Move(r, fields)
  PROVE  Becomes(r, Upd(work[r], fields))
BY DEF Move, Upd, Becomes

LEMMA Moving ==
  ASSUME work \in [Runs -> Locals], NEW r \in Runs, NEW w \in Locals, Becomes(r, w)
  PROVE  /\ work' \in [Runs -> Locals] /\ work'[r] = w
         /\ \A s \in Runs : s # r => work'[s] = work[s]
BY DEF Becomes

LEMMA FreshIsLocal ==
  ASSUME NEW place \in Places, NEW w \in Locals
  PROVE  /\ Fresh \in Locals
         /\ [Fresh EXCEPT !.at = place, !.ticket = w.ticket] \in Locals
         /\ [Fresh EXCEPT !.at = place] \in Locals
<1>1. Fresh \in Locals
  BY DEF Locals, Fresh, NoReport, NoTally, Tallies, Reports, NoCall, Places
<1>2. w.ticket \in BOOLEAN
  BY DEF Locals
<1> QED BY <1>1, <1>2 DEF Locals

\* a run that begins a node anew, or fails
LEMMA BeginsAnew ==
  ASSUME NEW r \in Runs, work \in [Runs -> Locals], NEW place \in Places, Leave(r, place)
  PROVE  \E w \in Locals : Becomes(r, w) /\ w.at = place /\ w.executed = {} /\ w.next = 1
<1>1. [Fresh EXCEPT !.at = place, !.ticket = work[r].ticket] \in Locals
  BY FreshIsLocal
<1> QED BY <1>1 DEF Leave, Becomes, Fresh

LEMMA Failing ==
  ASSUME NEW r \in Runs, work \in [Runs -> Locals], Fails(r)
  PROVE  \E w \in Locals : Becomes(r, w) /\ w.at = "failed" /\ w.executed = {} /\ w.next = 1
<1>1. [Fresh EXCEPT !.at = "failed"] \in Locals
  BY FreshIsLocal DEF Places
<1> QED BY <1>1 DEF Fails, Becomes, Fresh

LEMMA GoingTo ==
  ASSUME NEW r \in Runs, work \in [Runs -> Locals], NEW place \in Places, Goto(r, place)
  PROVE  LET w == Upd(work[r], [at |-> place]) IN
           /\ w \in Locals /\ Becomes(r, w)
           /\ w.at = place /\ w.executed = work[r].executed /\ w.call = work[r].call
           /\ w.next = work[r].next /\ w.tally = work[r].tally
<1>1. Becomes(r, Upd(work[r], [at |-> place]))
  BY Moved DEF Goto
<1> QED BY <1>1 DEF Upd, Locals

-----------------------------------------------------------------------------
(* What stands still *)

LEMMA AnalyzersStand ==
  ASSUME TypeOK, Grows, NEW i \in DOMAIN rows
  PROVE  HasAnalyzer(i)' <=> HasAnalyzer(i)
BY DEF HasAnalyzer, Grows

LEMMA TallyStands ==
  ASSUME TypeOK, TypeOK', Grows, NEW r \in Runs, TallyTells(work[r], lookedUp[r]),
         work'[r].at = work[r].at, work'[r].next = work[r].next, work'[r].tally = work[r].tally,
         lookedUp'[r] = lookedUp[r]
  PROVE  TallyTells(work[r], lookedUp[r])'
<1> DEFINE w == work[r]
<1> DEFINE t == w.tally
<1> DEFINE Done == {i \in 1 .. DoneWith(w) : HasAnalyzer(i)}
<1> DEFINE Skip == {i \in 1 .. t.rows : ~HasAnalyzer(i)}
<1>1. SUFFICES ASSUME w.at \in {"enrich", "lookup", "artifact"}
      PROVE  TallyTells(work[r], lookedUp[r])'
  BY DEF TallyTells
<1>2. w.next \in Nat /\ t.rows \in Nat /\ w.next >= 1 /\ DoneWith(w) <= t.rows /\ t.rows <= Len(rows)
      /\ (w.at = "lookup" => w.next <= t.rows)
  BY <1>1 DEF TallyTells, TypeOK, Locals, Tallies
<1>3. Len(rows) \in Nat /\ DOMAIN rows = 1 .. Len(rows) /\ Len(rows') \in Nat /\ Len(rows) <= Len(rows')
  BY DEF TypeOK, Grows
<1>4. DoneWith(w) \in Int /\ DoneWith(work'[r]) = DoneWith(w)
  BY <1>2 DEF DoneWith
<1>5. \A i \in 1 .. t.rows : HasAnalyzer(i)' <=> HasAnalyzer(i)
  BY <1>2, <1>3, AnalyzersStand
<1>6. Done' = Done
  BY <1>2, <1>4, <1>5 DEF DoneWith
<1>7. Skip' = Skip
  BY <1>2, <1>5
<1>8. {x.row : x \in t.items} = Done /\ t.skipped = Cardinality(Skip)
  BY <1>1 DEF TallyTells
<1>9. {x.row : x \in t'.items} = Done' /\ t'.skipped = Cardinality(Skip')
  BY <1>6, <1>7, <1>8
<1>10. /\ IsFiniteSet(t.items)
       /\ \A x, y \in t.items : x.row = y.row => x = y
       /\ \A x \in t.items : x.ok => x.row \in lookedUp[r]
       /\ t.refused = Cardinality({x \in t.items : ~x.ok})
  BY <1>1 DEF TallyTells
<1>11. w.at = "lookup" => w.next <= t.rows /\ HasAnalyzer(w.next) /\ w.next \in lookedUp[r]
  BY <1>1 DEF TallyTells
<1>12. w'.at = "lookup" => w'.next <= t'.rows /\ HasAnalyzer(w.next)' /\ w'.next \in lookedUp'[r]
  BY <1>2, <1>5, <1>11
<1>13. DoneWith(w)' = DoneWith(w)
  BY DEF DoneWith
<1> QED BY <1>2, <1>3, <1>9, <1>10, <1>12, <1>13 DEF TallyTells

LEMMA CitesStand ==
  ASSUME NEW r \in Runs, CitesServed(work[r], served[r]), served[r] \subseteq served'[r],
         work'[r].at = work[r].at, work'[r].executed = work[r].executed,
         work'[r].report = work[r].report, work'[r].cut = work[r].cut
  PROVE  CitesServed(work[r], served[r])'
BY DEF CitesServed

\* rows and what was sent out are as they were
LEMMA RowsStand ==
  ASSUME CaseInv, UNCHANGED <<rows, linked>>
  PROVE  Grows /\ RowsTell'
<1>1. Grows
  BY DEF CaseInv, TypeOK, Grows
<1>2. RowsTell'
  BY DEF CaseInv, RowsTell
<1> QED BY <1>1, <1>2

LEMMA SentStands ==
  ASSUME CaseInv, TypeOK', Grows, UNCHANGED lookedUp
  PROVE  SentLoose'
<1> SUFFICES ASSUME NEW r \in Runs, NEW l \in lookedUp[r] PROVE l \in DOMAIN rows' /\ Loose(l)'
  BY DEF SentLoose
<1>1. l \in DOMAIN rows /\ Loose(l)
  BY DEF CaseInv, SentLoose
<1>2. l \in DOMAIN rows' /\ rows'[l] = rows[l]
  BY <1>1 DEF CaseInv, TypeOK, Grows
<1> QED BY <1>1, <1>2 DEF Loose

\* a run that moves leaves the others' books alone
LEMMA OneMoves ==
  ASSUME CaseInv, TypeOK', Grows, NEW r \in Runs,
         \A s \in Runs : s # r => /\ work'[s] = work[s] /\ served'[s] = served[s]
                                  /\ lookedUp'[s] = lookedUp[s],
         CitesServed(work[r], served[r])', StartsAtOne(work[r])', TallyTells(work[r], lookedUp[r])'
  PROVE  RunsTell'
<1> SUFFICES ASSUME NEW s \in Runs
             PROVE  /\ CitesServed(work[s], served[s])' /\ StartsAtOne(work[s])'
                    /\ TallyTells(work[s], lookedUp[s])'
  BY DEF RunsTell
<1>1. CASE s = r
  BY <1>1
<1>2. CASE s # r
  <2>1. /\ TypeOK /\ CitesServed(work[s], served[s]) /\ StartsAtOne(work[s])
        /\ TallyTells(work[s], lookedUp[s])
    BY DEF CaseInv, RunsTell
  <2>2. /\ work'[s] = work[s] /\ served'[s] = served[s] /\ lookedUp'[s] = lookedUp[s]
    BY <1>2
  <2>3. TallyTells(work[s], lookedUp[s])'
    BY <2>1, <2>2, TallyStands
  <2>4. CitesServed(work[s], served[s])'
    BY <2>1, <2>2, CitesStand
  <2>5. StartsAtOne(work[s])'
    BY <2>1, <2>2 DEF StartsAtOne
  <2> QED BY <2>3, <2>4, <2>5
<1> QED BY <1>1, <1>2

\* nobody moves
LEMMA NobodyMoves ==
  ASSUME CaseInv, TypeOK', Grows, UNCHANGED <<work, served, lookedUp>>
  PROVE  RunsTell'
<1> SUFFICES ASSUME NEW s \in Runs
             PROVE  /\ CitesServed(work[s], served[s])' /\ StartsAtOne(work[s])'
                    /\ TallyTells(work[s], lookedUp[s])'
  BY DEF RunsTell
<1>1. /\ TypeOK /\ CitesServed(work[s], served[s]) /\ StartsAtOne(work[s])
      /\ TallyTells(work[s], lookedUp[s])
  BY DEF CaseInv, RunsTell
<1>2. TallyTells(work[s], lookedUp[s])'
  BY <1>1, TallyStands
<1>3. CitesServed(work[s], served[s])'
  BY <1>1, CitesStand
<1>4. StartsAtOne(work[s])'
  BY <1>1 DEF StartsAtOne
<1> QED BY <1>2, <1>3, <1>4

-----------------------------------------------------------------------------
(* Steps that leave the rows alone *)

\* A step of one run outside the enrichment.
LEMMA QuietStep ==
  ASSUME CaseInv, NEW r \in Runs, NEW w \in Locals, Becomes(r, w),
         UNCHANGED <<case, rows, linked, manual, lookedUp>>,
         served' \in [Runs -> SUBSET ToolNames], \A s \in Runs : s # r => served'[s] = served[s],
         CitesServed(w, served'[r]), w.next = 1,
         w.at \notin {"enrich", "lookup", "artifact"}
  PROVE  CaseInv'
<1>1. TypeOK
  BY DEF CaseInv
<1>2. /\ work' \in [Runs -> Locals] /\ work'[r] = w
      /\ \A s \in Runs : s # r => work'[s] = work[s]
  BY <1>1, Moving DEF TypeOK
<1>3. TypeOK'
  BY <1>1, <1>2 DEF TypeOK
<1>4. Grows /\ RowsTell'
  BY RowsStand
<1>5. SentLoose'
  BY <1>3, <1>4, SentStands
<1>6. CitesServed(work[r], served[r])'
  BY <1>2 DEF CitesServed
<1>7. TallyTells(work[r], lookedUp[r])' /\ StartsAtOne(work[r])'
  BY <1>2 DEF TallyTells, StartsAtOne
<1>8. RunsTell'
  BY <1>2, <1>3, <1>4, <1>6, <1>7, OneMoves
<1> QED BY <1>3, <1>4, <1>5, <1>8 DEF CaseInv

NotEnriching(r) == work[r].at \notin {"enrich", "lookup", "artifact"}

\* the same when nothing is served and no report is under way
LEMMA PlainStep ==
  ASSUME CaseInv, NEW r \in Runs, NEW w \in Locals, Becomes(r, w),
         UNCHANGED <<case, rows, linked, manual, served, lookedUp>>,
         w.executed \subseteq work[r].executed, w.next = 1 \/ (NotEnriching(r) /\ w.next = work[r].next),
         w.at \notin {"write", "enrich", "lookup", "artifact"}
  PROVE  CaseInv'
<1>1. TypeOK /\ CitesServed(work[r], served[r]) /\ (NotEnriching(r) => work[r].next = 1)
  BY DEF CaseInv, RunsTell, StartsAtOne, NotEnriching
<1>2. CitesServed(w, served'[r]) /\ w.next = 1
  BY <1>1 DEF CitesServed
<1>3. served' \in [Runs -> SUBSET ToolNames] /\ \A s \in Runs : s # r => served'[s] = served[s]
  BY <1>1 DEF TypeOK
<1> QED BY <1>2, <1>3, QuietStep

LEMMA FailingStep ==
  ASSUME CaseInv, NEW r \in Runs, Fails(r),
         UNCHANGED <<case, rows, linked, manual, lookedUp>>,
         served' = served
  PROVE  CaseInv'
<1>1. work \in [Runs -> Locals]
  BY DEF CaseInv, TypeOK
<1>2. PICK w \in Locals : Becomes(r, w) /\ w.at = "failed" /\ w.executed = {} /\ w.next = 1
  BY <1>1, Failing
<1> QED BY <1>2, PlainStep

LEMMA GoingStep ==
  ASSUME CaseInv, NEW r \in Runs, NEW place \in Places, Goto(r, place), NotEnriching(r),
         UNCHANGED <<case, rows, linked, manual, served, lookedUp>>,
         place \notin {"write", "enrich", "lookup", "artifact"}
  PROVE  CaseInv'
<1>1. work \in [Runs -> Locals]
  BY DEF CaseInv, TypeOK
<1>2. PICK w \in Locals : /\ Becomes(r, w) /\ w.at = place
                           /\ w.executed = work[r].executed /\ w.next = work[r].next
  BY <1>1, GoingTo
<1> QED BY <1>2, PlainStep

LEMMA LeavingStep ==
  ASSUME CaseInv, NEW r \in Runs, NEW place \in Places, Leave(r, place),
         UNCHANGED <<case, rows, linked, manual, served, lookedUp>>,
         place \notin {"write", "enrich", "lookup", "artifact"}
  PROVE  CaseInv'
<1>1. work \in [Runs -> Locals]
  BY DEF CaseInv, TypeOK
<1>2. PICK w \in Locals : Becomes(r, w) /\ w.at = place /\ w.executed = {} /\ w.next = 1
  BY <1>1, BeginsAnew
<1> QED BY <1>2, PlainStep

LEMMA StartKeeps == ASSUME CaseInv, NEW r \in Runs, Start(r) PROVE CaseInv'
<1>1. CASE Goto(r, "done")
  BY <1>1, GoingStep DEF Start, store, Places, NotEnriching, At
<1>2. CASE Goto(r, "load_case")
  BY <1>2, GoingStep DEF Start, store, Places, NotEnriching, At
<1> QED BY <1>1, <1>2 DEF Start

LEMMA LoadCaseKeeps == ASSUME CaseInv, NEW r \in Runs, LoadCase(r) PROVE CaseInv'
<1>1. CASE Goto(r, "plan")
  BY <1>1, GoingStep DEF LoadCase, store, Places, NotEnriching, At
<1>2. CASE Fails(r)
  BY <1>2, FailingStep DEF LoadCase, store
<1> QED BY <1>1, <1>2 DEF LoadCase

LEMMA PlanKeeps == ASSUME CaseInv, NEW r \in Runs, Plan(r) PROVE CaseInv'
<1>1. CASE Goto(r, "decide")
  BY <1>1, GoingStep DEF Plan, store, Places, NotEnriching, At
<1>2. CASE Fails(r)
  BY <1>2, FailingStep DEF Plan, store
<1> QED BY <1>1, <1>2 DEF Plan

LEMMA DecideKeeps == ASSUME CaseInv, NEW r \in Runs, Decide(r) PROVE CaseInv'
<1>1. CASE Goto(r, "report")
  BY <1>1, GoingStep DEF Decide, store, Places, NotEnriching, At
<1>2. ASSUME NEW c \in Calls, NEW at \in {"tool", "decide"},
             Move(r, [at |-> at, steps |-> StepsAfter(r, c), seen |-> work[r].seen \cup {c}, call |-> c])
      PROVE  CaseInv'
  <2> DEFINE w == Upd(work[r], [at |-> at, steps |-> StepsAfter(r, c),
                                seen |-> work[r].seen \cup {c}, call |-> c])
  <2>1. work[r] \in Locals
    BY DEF CaseInv, TypeOK
  <2>2. Becomes(r, w)
    BY <1>2, Moved
  <2>3. w \in Locals
    BY <2>1 DEF Upd, Locals, Places, StepsAfter
  <2>4. w.at = at /\ w.executed = work[r].executed /\ w.next = work[r].next
    BY <2>1 DEF Upd, Locals
  <2>5. NotEnriching(r)
    BY DEF Decide, At, NotEnriching
  <2> HIDE DEF w
  <2> QED BY <2>2, <2>3, <2>4, <2>5, PlainStep DEF Decide, store
<1>3. CASE Fails(r)
  BY <1>3, FailingStep DEF Decide, store
<1> QED BY <1>1, <1>2, <1>3 DEF Decide

LEMMA TruncateKeeps == ASSUME CaseInv, NEW r \in Runs, Truncate(r) PROVE CaseInv'
<1> DEFINE w == Upd(work[r], [at |-> "report", cut |-> TRUE])
<1>1. work[r] \in Locals
  BY DEF CaseInv, TypeOK
<1>2. Becomes(r, w)
  BY Moved DEF Truncate
<1>3. w \in Locals
  BY <1>1 DEF Upd, Locals, Places
<1>4. w.at = "report" /\ w.executed = work[r].executed /\ w.next = work[r].next
  BY <1>1 DEF Upd, Locals
<1>5. NotEnriching(r)
  BY DEF Truncate, At, NotEnriching
<1> HIDE DEF w
<1> QED BY <1>2, <1>3, <1>4, <1>5, PlainStep DEF Truncate, store

LEMMA ObserveKeeps == ASSUME CaseInv, NEW r \in Runs, Observe(r) PROVE CaseInv'
<1>1. work[r] \in Locals
  BY DEF CaseInv, TypeOK
<1>2. PICK passed \in BOOLEAN : Move(r, [at |-> "decide", overspent |-> work[r].overspent \/ passed])
  BY DEF Observe
<1> DEFINE w == Upd(work[r], [at |-> "decide", overspent |-> work[r].overspent \/ passed])
<1>3. Becomes(r, w)
  BY <1>2, Moved
<1>4. w \in Locals
  BY <1>1 DEF Upd, Locals, Places
<1>5. w.at = "decide" /\ w.executed = work[r].executed /\ w.next = work[r].next
  BY <1>1 DEF Upd, Locals
<1>6. NotEnriching(r)
  BY DEF Observe, At, NotEnriching
<1> HIDE DEF w
<1> QED BY <1>3, <1>4, <1>5, <1>6, PlainStep DEF Observe, store

\* a tool counts as executed only after its service has executed it
LEMMA CallToolKeeps == ASSUME CaseInv, NEW r \in Runs, CallTool(r) PROVE CaseInv'
<1>1. /\ work[r] \in Locals /\ served \in [Runs -> SUBSET ToolNames]
      /\ CitesServed(work[r], served[r]) /\ work[r].next = 1
  BY DEF CaseInv, TypeOK, RunsTell, StartsAtOne, CallTool, At
<1>2. ASSUME NEW answered \in BOOLEAN,
             Serve(r, work[r].call) \/ (~answered /\ UNCHANGED <<served, timeline>>),
             Move(r, [at |-> IF answered THEN "observe" ELSE "decide",
                      executed |-> ExecutedAfter(r, answered)])
      PROVE  CaseInv'
  <2> DEFINE at == IF answered THEN "observe" ELSE "decide"
  <2> DEFINE w == Upd(work[r], [at |-> at, executed |-> ExecutedAfter(r, answered)])
  <2>1. work[r].call.tool \in ToolNames
    BY <1>1 DEF Locals, ToolNames, CalledTools, NoCall
  <2>2. ExecutedAfter(r, answered) \subseteq ToolNames
    BY <1>1, <2>1 DEF ExecutedAfter, Locals
  <2>3. at \in Places /\ at \notin {"write", "enrich", "lookup", "artifact"}
    BY DEF Places
  <2> HIDE DEF at
  <2>4. Becomes(r, w)
    BY <1>2, Moved DEF at
  <2>5. w \in Locals
    BY <1>1, <2>2, <2>3 DEF Upd, Locals
  <2>6. w.at = at /\ w.executed = ExecutedAfter(r, answered) /\ w.next = 1
    BY <1>1 DEF Upd, Locals
  <2> HIDE DEF w
  <2>7. /\ served' \in [Runs -> SUBSET ToolNames]
        /\ \A s \in Runs : s # r => served'[s] = served[s]
        /\ served[r] \subseteq served'[r]
        /\ answered => work[r].call.tool \in served'[r]
    <3>1. CASE Serve(r, work[r].call)
      BY <3>1, <1>1, <2>1 DEF Serve
    <3>2. CASE ~answered /\ UNCHANGED <<served, timeline>>
      BY <3>2, <1>1
    <3> QED BY <1>2, <3>1, <3>2
  <2>8. CitesServed(w, served'[r])
    BY <1>1, <2>3, <2>6, <2>7 DEF CitesServed, ExecutedAfter
  <2> QED BY <2>3, <2>4, <2>5, <2>6, <2>7, <2>8, QuietStep DEF CallTool
<1>3. CASE Denied(r) /\ Fails(r) /\ UNCHANGED <<served, timeline>>
  BY <1>3, FailingStep DEF CallTool
<1> QED BY <1>2, <1>3 DEF CallTool

\* a report that is kept cites executed tools, and says so if the loop was cut
LEMMA ReportKeeps == ASSUME CaseInv, NEW r \in Runs, Report(r) PROVE CaseInv'
<1>1. work[r] \in Locals /\ CitesServed(work[r], served[r]) /\ work[r].next = 1
  BY DEF CaseInv, TypeOK, RunsTell, StartsAtOne, Report, At
<1>2. CASE Fails(r)
  BY <1>2, FailingStep DEF Report, store
<1>3. ASSUME NEW doc \in Reports, doc.cites \subseteq work[r].executed, work[r].cut => doc.incomplete,
             Move(r, [at |-> "write", report |-> doc])
      PROVE  CaseInv'
  <2> DEFINE w == Upd(work[r], [at |-> "write", report |-> doc])
  <2>1. Becomes(r, w)
    BY <1>3, Moved
  <2>2. w \in Locals
    BY <1>1 DEF Upd, Locals, Places
  <2>3. /\ w.at = "write" /\ w.executed = work[r].executed /\ w.next = 1
        /\ w.report = doc /\ w.cut = work[r].cut
    BY <1>1 DEF Upd, Locals
  <2> HIDE DEF w
  <2>4. served' \in [Runs -> SUBSET ToolNames] /\ served' = served
    BY DEF Report, CaseInv, TypeOK
  <2>5. CitesServed(w, served'[r])
    BY <1>1, <1>3, <2>3, <2>4 DEF CitesServed
  <2> QED BY <2>1, <2>2, <2>3, <2>4, <2>5, QuietStep DEF Report, store
<1>4. ASSUME NEW cites \in SUBSET CalledTools, NEW claims \in BOOLEAN, EvidenceOk(cites, work[r].executed),
             Move(r, [at |-> "write",
                      report |-> [degraded |-> FALSE, cites |-> cites, incomplete |-> work[r].cut \/ claims]])
      PROVE  CaseInv'
  <2> DEFINE doc == [degraded |-> FALSE, cites |-> cites, incomplete |-> work[r].cut \/ claims]
  <2>1. doc \in Reports /\ doc.cites = cites /\ (work[r].cut => doc.incomplete)
    BY DEF Reports
  <2> QED BY <1>4, <2>1, <1>3 DEF EvidenceOk
<1>5. CASE Move(r, [retried |-> TRUE]) /\ At(r, "report")
  <2> DEFINE w == Upd(work[r], [retried |-> TRUE])
  <2>1. Becomes(r, w)
    BY <1>5, Moved
  <2>2. w \in Locals
    BY <1>1 DEF Upd, Locals
  <2>3. w.at = "report" /\ w.executed = work[r].executed /\ w.next = 1
    BY <1>1, <1>5 DEF Upd, Locals, At
  <2> HIDE DEF w
  <2> QED BY <2>1, <2>2, <2>3, PlainStep DEF Report, store
<1>6. ASSUME Move(r, [at |-> "write", report |-> [degraded |-> TRUE, cites |-> {}, incomplete |-> work[r].cut]])
      PROVE  CaseInv'
  <2> DEFINE doc == [degraded |-> TRUE, cites |-> {}, incomplete |-> work[r].cut]
  <2>1. work[r].cut \in BOOLEAN
    BY <1>1 DEF Locals
  <2>2. doc \in Reports /\ doc.cites = {} /\ (work[r].cut => doc.incomplete)
    BY <2>1 DEF Reports
  <2> QED BY <1>6, <2>2, <1>3
<1> QED BY <1>2, <1>4, <1>5, <1>6 DEF Report

LEMMA FlowWritesKeeps ==
  ASSUME CaseInv, NEW r \in Runs, NEW kind, NEW place \in {"load_enrich", "done"}, FlowWrites(r, kind, place)
  PROVE  CaseInv'
<1>1. CASE Leave(r, place)
  BY <1>1, LeavingStep DEF FlowWrites, Places
<1>2. CASE Fails(r)
  BY <1>2, FailingStep DEF FlowWrites
<1> QED BY <1>1, <1>2 DEF FlowWrites

LEMMA KilledKeeps == ASSUME CaseInv, NEW r \in Runs, Killed(r) PROVE CaseInv'
BY FailingStep DEF Killed, store

-----------------------------------------------------------------------------
(* Steps that add rows *)

\* rows with these ends tell where they came from
LEMMA AddedRows ==
  ASSUME CaseInv, NEW new \in Seq(Row), rows' = rows \o new, linked \subseteq linked',
         \A i \in DOMAIN new : new[i].from = "alert" =>
            \E a \in linked' : new[i].data \in a.data /\ new[i].tlp = TlpFromAlert(a),
         \A i \in DOMAIN new : new[i].from = "analyzer" => i = 1 /\ ~Known(new[i].data)
  PROVE  rows' \in Seq(Row) /\ Grows /\ RowsTell'
<1>1. rows \in Seq(Row) /\ DOMAIN rows = 1 .. Len(rows) /\ Len(rows) \in Nat
      /\ DOMAIN new = 1 .. Len(new) /\ Len(new) \in Nat
  BY DEF CaseInv, TypeOK
<1>2. rows' \in Seq(Row) /\ Len(rows') = Len(rows) + Len(new) /\ DOMAIN rows' = 1 .. Len(rows')
  BY <1>1
<1>3. /\ \A i \in 1 .. Len(rows) : rows'[i] = rows[i]
      /\ \A i \in 1 .. Len(new) : rows'[Len(rows) + i] = new[i]
  BY <1>1
<1>4. Grows
  BY <1>1, <1>2, <1>3 DEF Grows
<1>5. ASSUME NEW i \in DOMAIN rows', rows'[i].from = "alert"
      PROVE  \E a \in linked' : rows'[i].data \in a.data /\ rows'[i].tlp = TlpFromAlert(a)
  <2>1. CASE i \in 1 .. Len(rows)
    <3>1. \E a \in linked : rows[i].data \in a.data /\ rows[i].tlp = TlpFromAlert(a)
      BY <2>1, <1>1, <1>3, <1>5 DEF CaseInv, RowsTell
    <3> QED BY <3>1, <2>1, <1>3
  <2>2. CASE i \notin 1 .. Len(rows)
    <3>1. PICK k \in 1 .. Len(new) : i = Len(rows) + k
      <4>1. i - Len(rows) \in 1 .. Len(new) /\ i = Len(rows) + (i - Len(rows))
        BY <1>1, <1>2, <2>2
      <4> QED BY <4>1
    <3>2. rows'[i] = new[k]
      BY <3>1, <1>3
    <3> QED BY <3>1, <3>2, <1>1, <1>5
  <2> QED BY <2>1, <2>2
<1>6. ASSUME NEW i \in DOMAIN rows', rows'[i].from = "analyzer", NEW j \in 1 .. (i - 1)
      PROVE  rows'[j].data # rows'[i].data
  <2>1. CASE i \in 1 .. Len(rows)
    <3>1. i \in DOMAIN rows /\ j \in 1 .. Len(rows)
      BY <2>1, <1>1
    <3>2. rows[i].from = "analyzer"
      BY <2>1, <1>3, <1>6
    <3>3. rows[j].data # rows[i].data
      BY <3>1, <3>2 DEF CaseInv, RowsTell
    <3> QED BY <3>1, <3>3, <2>1, <1>3
  <2>2. CASE i \notin 1 .. Len(rows)
    <3>1. PICK k \in 1 .. Len(new) : i = Len(rows) + k
      <4>1. i - Len(rows) \in 1 .. Len(new) /\ i = Len(rows) + (i - Len(rows))
        BY <1>1, <1>2, <2>2
      <4> QED BY <4>1
    <3>2. rows'[i] = new[k]
      BY <3>1, <1>3
    <3>3. k = 1 /\ ~Known(new[k].data)
      BY <3>2, <1>1, <1>6
    <3>4. j \in DOMAIN rows /\ rows'[j] = rows[j]
      BY <3>1, <3>3, <1>1, <1>3
    <3> QED BY <3>2, <3>3, <3>4 DEF Known
  <2> QED BY <2>1, <2>2
<1> QED BY <1>2, <1>4, <1>5, <1>6 DEF RowsTell

\* a value the case knows changes nothing; a new one is a row at the end
LEMMA AddedObservable ==
  ASSUME CaseInv, NEW d \in Values, NEW tlp \in Nat, NEW from \in {"analyst", "analyzer"},
         AddCaseObservable(d, tlp, from), linked' = linked
  PROVE  rows' \in Seq(Row) /\ Grows /\ RowsTell'
<1>1. CASE Known(d)
  <2>1. rows' = rows
    BY <1>1 DEF AddCaseObservable
  <2> QED BY <2>1, RowsStand DEF CaseInv, TypeOK
<1>2. CASE ~Known(d)
  <2> DEFINE new == <<[data |-> d, tlp |-> tlp, pap |-> 2, from |-> from]>>
  <2>1. rows \in Seq(Row)
    BY DEF CaseInv, TypeOK
  <2>2. new \in Seq(Row) /\ new[1].from = from /\ new[1].data = d /\ DOMAIN new = {1}
    BY DEF Row
  <2>3. rows' = rows \o new
    BY <1>2, <2>1 DEF AddCaseObservable, Row
  <2> HIDE DEF new
  <2>4. \A i \in DOMAIN new : new[i].from # "alert"
    BY <2>2
  <2>5. \A i \in DOMAIN new : i = 1 /\ ~Known(new[i].data)
    BY <2>2, <1>2
  <2> QED BY <2>2, <2>3, <2>4, <2>5, AddedRows
<1> QED BY <1>1, <1>2

\* a step of the backend alone
LEMMA BackendStep ==
  ASSUME CaseInv, case' \in {"none", "open", "closed"}, linked' \subseteq Alerts, manual' \in Nat,
         rows' \in Seq(Row), Grows, RowsTell', UNCHANGED <<work, served, lookedUp>>
  PROVE  CaseInv'
<1>1. TypeOK'
  BY DEF CaseInv, TypeOK
<1>2. SentLoose'
  BY <1>1, SentStands
<1>3. RunsTell'
  BY <1>1, NobodyMoves
<1> QED BY <1>1, <1>2, <1>3 DEF CaseInv

LEMMA LinkAlertKeeps == ASSUME CaseInv, NEW a \in Alerts, LinkAlert(a) PROVE CaseInv'
<1>1. /\ AlertRows(a) \in Seq(Row)
      /\ \A i \in DOMAIN AlertRows(a) :
           /\ AlertRows(a)[i].from = "alert" /\ AlertRows(a)[i].data \in a.data
           /\ AlertRows(a)[i].tlp = TlpFromAlert(a)
  BY RowsOfAlert
<1>2. rows' = rows \o AlertRows(a) /\ linked' = linked \cup {a}
  BY DEF LinkAlert
<1>3. rows' \in Seq(Row) /\ Grows /\ RowsTell'
  BY <1>1, <1>2, AddedRows
<1> QED BY <1>3, BackendStep DEF LinkAlert, CaseInv, TypeOK

LEMMA CloseCaseKeeps == ASSUME CaseInv, CloseCase PROVE CaseInv'
<1>1. Grows /\ RowsTell'
  BY RowsStand DEF CloseCase
<1> QED BY <1>1, BackendStep DEF CloseCase, CaseInv, TypeOK

LEMMA AnalystAddsKeeps ==
  ASSUME CaseInv, NEW d \in Values, NEW tlp \in ManualMarks, AnalystAdds(d, tlp) PROVE CaseInv'
<1>1. rows' \in Seq(Row) /\ Grows /\ RowsTell'
  BY CaseWorkAssumption, AddedObservable DEF AnalystAdds
<1> QED BY <1>1, BackendStep DEF AnalystAdds, CaseInv, TypeOK

-----------------------------------------------------------------------------
(* Enrichment *)

\* A step of a run that enriches, over rows that only grow.
LEMMA EnrichStep ==
  ASSUME CaseInv, NEW r \in Runs, NEW w \in Locals, Becomes(r, w),
         UNCHANGED <<case, linked, manual, served>>, rows' \in Seq(Row), Grows, RowsTell',
         lookedUp' \in [Runs -> SUBSET Nat], \A s \in Runs : s # r => lookedUp'[s] = lookedUp[s],
         SentLoose',
         w.executed = work[r].executed, w.at # "write", StartsAtOne(w),
         TallyTells(work[r], lookedUp[r])'
  PROVE  CaseInv'
<1>1. TypeOK /\ CitesServed(work[r], served[r])
  BY DEF CaseInv, RunsTell
<1>2. /\ work' \in [Runs -> Locals] /\ work'[r] = w
      /\ \A s \in Runs : s # r => work'[s] = work[s]
  BY <1>1, Moving DEF TypeOK
<1>3. TypeOK'
  BY <1>1, <1>2 DEF TypeOK
<1>4. CitesServed(work[r], served[r])' /\ StartsAtOne(work[r])'
  BY <1>1, <1>2 DEF CitesServed, StartsAtOne
<1>5. RunsTell'
  BY <1>2, <1>3, <1>4, OneMoves
<1> QED BY <1>3, <1>5 DEF CaseInv

\* a lapsed ticket changes nothing else
LEMMA ExpireKeeps == ASSUME CaseInv, NEW r \in Runs, Expire(r) PROVE CaseInv'
<1> DEFINE w == Upd(work[r], [ticket |-> FALSE])
<1>1. /\ TypeOK /\ work[r] \in Locals /\ CitesServed(work[r], served[r])
      /\ StartsAtOne(work[r]) /\ TallyTells(work[r], lookedUp[r])
  BY DEF CaseInv, TypeOK, RunsTell
<1>2. Becomes(r, w)
  BY Moved DEF Expire
<1>3. w \in Locals
  BY <1>1 DEF Upd, Locals
<1>4. /\ w.at = work[r].at /\ w.executed = work[r].executed /\ w.next = work[r].next
      /\ w.tally = work[r].tally /\ w.report = work[r].report /\ w.cut = work[r].cut
  BY <1>1 DEF Upd, Locals
<1> HIDE DEF w
<1>5. /\ work' \in [Runs -> Locals] /\ work'[r] = w
      /\ \A s \in Runs : s # r => work'[s] = work[s]
  BY <1>1, <1>2, <1>3, Moving DEF TypeOK
<1>6. TypeOK'
  BY <1>1, <1>5 DEF TypeOK, Expire, store
<1>7. Grows /\ RowsTell'
  BY RowsStand DEF Expire, store
<1>8. SentLoose'
  BY <1>6, <1>7, SentStands DEF Expire
<1>9. TallyTells(work[r], lookedUp[r])'
  BY <1>1, <1>4, <1>5, <1>6, <1>7, TallyStands DEF Expire
<1>10. CitesServed(work[r], served[r])' /\ StartsAtOne(work[r])'
  BY <1>1, <1>4, <1>5 DEF CitesServed, StartsAtOne, Expire
<1>11. RunsTell'
  BY <1>5, <1>6, <1>7, <1>9, <1>10, OneMoves DEF Expire
<1> QED BY <1>6, <1>7, <1>8, <1>11 DEF CaseInv

\* an enriching run that leaves the rows alone
LEMMA EnrichQuietly ==
  ASSUME CaseInv, NEW r \in Runs, NEW w \in Locals, Becomes(r, w),
         UNCHANGED <<store, served>>,
         NEW sent \in SUBSET Nat, lookedUp' = [lookedUp EXCEPT ![r] = sent],
         \A l \in sent : l \in DOMAIN rows /\ Loose(l),
         w.executed = work[r].executed, w.at # "write", StartsAtOne(w), TallyTells(w, sent)
  PROVE  CaseInv'
<1>1. TypeOK /\ SentLoose
  BY DEF CaseInv
<1>2. rows' = rows /\ rows' \in Seq(Row) /\ linked' = linked
  BY <1>1 DEF TypeOK, store
<1>3. Grows /\ RowsTell'
  BY <1>2, RowsStand
<1>4. /\ lookedUp' \in [Runs -> SUBSET Nat] /\ lookedUp'[r] = sent
      /\ \A s \in Runs : s # r => lookedUp'[s] = lookedUp[s]
  BY <1>1 DEF TypeOK
<1>5. SentLoose'
  BY <1>1, <1>2, <1>4 DEF SentLoose, Loose
<1>6. work'[r] = w
  BY <1>1, Moving DEF TypeOK
<1>7. TallyTells(work[r], lookedUp[r])'
  BY <1>2, <1>4, <1>6 DEF TallyTells, HasAnalyzer, DoneWith
<1> QED BY <1>2, <1>3, <1>4, <1>5, <1>7, EnrichStep DEF store

LEMMA LoadEnrichKeeps == ASSUME CaseInv, NEW r \in Runs, LoadEnrich(r) PROVE CaseInv'
<1>1. TypeOK /\ work[r] \in Locals /\ work[r].next = 1
  BY DEF CaseInv, TypeOK, RunsTell, StartsAtOne, LoadEnrich, At
<1>2. CASE Fails(r)
  BY <1>2, FailingStep DEF LoadEnrich, store
<1> DEFINE Skip == {i \in DOMAIN rows : ~HasAnalyzer(i)}
<1> DEFINE t == [NoTally EXCEPT !.rows = Len(rows), !.skipped = Cardinality(Skip)]
<1>3. CASE Move(r, [at |-> "enrich", tally |-> t])
  <2> DEFINE w == Upd(work[r], [at |-> "enrich", tally |-> t])
  <2>1. DOMAIN rows = 1 .. Len(rows) /\ Len(rows) \in Nat
    BY <1>1 DEF TypeOK
  <2>2. Cardinality(Skip) \in Nat
    <3>1. IsFiniteSet(1 .. Len(rows))
      BY <2>1, FS_Interval
    <3>2. IsFiniteSet(Skip)
      BY <2>1, <3>1, FS_Subset
    <3> QED BY <3>2, FS_CardinalityType
  <2> HIDE DEF Skip
  <2>3. /\ t \in Tallies /\ t.rows = Len(rows) /\ t.items = {} /\ t.skipped = Cardinality(Skip)
        /\ t.refused = 0
    BY <2>1, <2>2 DEF NoTally, Tallies
  <2> HIDE DEF t
  <2>4. Becomes(r, w)
    BY <1>3, Moved
  <2>5. w \in Locals
    BY <1>1, <2>3 DEF Upd, Locals, Places
  <2>6. w.at = "enrich" /\ w.executed = work[r].executed /\ w.next = 1 /\ w.tally = t
    BY <1>1 DEF Upd, Locals
  <2> HIDE DEF w
  <2>7. DoneWith(w) = 0
    BY <2>6 DEF DoneWith
  <2>8. /\ {x.row : x \in t.items} = {i \in 1 .. DoneWith(w) : HasAnalyzer(i)}
        /\ {x \in t.items : ~x.ok} = {}
    BY <2>3, <2>7
  <2>9. Skip = {i \in 1 .. t.rows : ~HasAnalyzer(i)}
    BY <2>1, <2>3 DEF Skip
  <2>10. t.refused = Cardinality({x \in t.items : ~x.ok}) /\ IsFiniteSet(t.items)
    BY <2>3, <2>8, FS_EmptySet
  <2>11. TallyTells(w, lookedUp[r])
    <3>1. \A x \in t.items : FALSE
      BY <2>3
    <3>2. \A x, y \in t.items : x.row = y.row => x = y
      BY <3>1
    <3>3. \A x \in t.items : x.ok => x.row \in lookedUp[r]
      BY <3>1
    <3>4. t.skipped = Cardinality({i \in 1 .. t.rows : ~HasAnalyzer(i)})
      BY <2>3, <2>9
    <3>5. w.next >= 1 /\ DoneWith(w) <= t.rows /\ t.rows <= Len(rows) /\ w.at # "lookup"
      BY <2>1, <2>3, <2>6, <2>7
    <3> QED BY <2>6, <2>8, <2>10, <3>2, <3>3, <3>4, <3>5 DEF TallyTells
  <2>12. lookedUp' = [lookedUp EXCEPT ![r] = lookedUp[r]] /\ lookedUp[r] \in SUBSET Nat
    BY <1>1 DEF TypeOK, LoadEnrich
  <2>13. \A l \in lookedUp[r] : l \in DOMAIN rows /\ Loose(l)
    BY DEF CaseInv, SentLoose
  <2> QED BY <2>4, <2>5, <2>6, <2>11, <2>12, <2>13, EnrichQuietly DEF LoadEnrich, StartsAtOne
<1> QED BY <1>2, <1>3 DEF LoadEnrich

\* one more item, for the observable that is next
LEMMA OneMoreItem ==
  ASSUME NEW r \in Runs, NEW w, w = work[r], w \in Locals, NEW sent, TallyTells(w, sent),
         w.at \in {"enrich", "lookup"},
         w.next <= w.tally.rows, HasAnalyzer(w.next), NEW ok \in BOOLEAN, ok => w.next \in sent,
         NEW t, t = Tallied(r, ok), NEW v \in Locals, v.at \in {"enrich", "artifact"}, v.tally = t, DoneWith(v) = w.next,
         v.next >= 1
  PROVE  TallyTells(v, sent)
<1> DEFINE n == w.next
<1> DEFINE new == [row |-> n, ok |-> ok]
<1> DEFINE old == w.tally.items
<1> DEFINE Bad(items) == {x \in items : ~x.ok}
<1>1. n \in Nat /\ n >= 1 /\ DoneWith(w) = n - 1 /\ w.tally \in Tallies
  BY DEF Locals, DoneWith, TallyTells
<1>2. /\ IsFiniteSet(old) /\ {x.row : x \in old} = {i \in 1 .. (n - 1) : HasAnalyzer(i)}
      /\ \A x, y \in old : x.row = y.row => x = y
      /\ \A x \in old : x.ok => x.row \in sent
      /\ w.tally.skipped = Cardinality({i \in 1 .. w.tally.rows : ~HasAnalyzer(i)})
      /\ w.tally.refused = Cardinality(Bad(old)) /\ w.tally.rows <= Len(rows)
  BY <1>1 DEF TallyTells
<1>3. /\ t.rows = w.tally.rows /\ t.items = old \cup {new} /\ t.skipped = w.tally.skipped
      /\ t.refused = w.tally.refused + (IF ok THEN 0 ELSE 1)
  BY <1>1 DEF Tallies, Tallied
<1>4. new.row = n /\ new.ok = ok
  OBVIOUS
<1>5. \A x \in old : x.row \in 1 .. (n - 1)
  BY <1>2
<1>6. \A x \in old : x.row # n
  BY <1>1, <1>5
<1> HIDE DEF new, old
<1>7. new \notin old
  BY <1>4, <1>6
<1>8. \A x, y \in t.items : x.row = y.row => x = y
  BY <1>2, <1>3, <1>4, <1>6
<1>9. \A x \in t.items : x.ok => x.row \in sent
  BY <1>2, <1>3, <1>4
<1>10. {x.row : x \in t.items} = {i \in 1 .. n : HasAnalyzer(i)}
  <2>1. {x.row : x \in t.items} = {x.row : x \in old} \cup {n}
    BY <1>3, <1>4
  <2>2. 1 .. n = (1 .. (n - 1)) \cup {n}
    BY <1>1
  <2>3. {i \in 1 .. n : HasAnalyzer(i)} = {i \in 1 .. (n - 1) : HasAnalyzer(i)} \cup {n}
    BY <2>2
  <2> QED BY <2>1, <2>3, <1>2
<1>11. IsFiniteSet(t.items)
  BY <1>2, <1>3, FS_AddElement
<1>12. t.refused = Cardinality(Bad(t.items))
  <2>1. IsFiniteSet(Bad(old)) /\ Cardinality(Bad(old)) \in Nat
    BY <1>2, FS_Subset, FS_CardinalityType
  <2>2. CASE ok
    <3>1. Bad(t.items) = Bad(old)
      BY <1>3, <1>4, <2>2
    <3>2. t.refused = w.tally.refused + 0 /\ w.tally.refused \in Nat
      BY <1>1, <1>3, <2>2 DEF Tallies
    <3>3. t.refused = w.tally.refused
      BY <3>2
    <3>4. w.tally.refused = Cardinality(Bad(old))
      BY <1>2
    <3> HIDE DEF Bad
    <3> QED BY <3>1, <3>3, <3>4
  <2>3. CASE ~ok
    <3>1. Bad(t.items) = Bad(old) \cup {new} /\ new \notin Bad(old)
      BY <1>3, <1>4, <1>7, <2>3
    <3>2. Cardinality(Bad(t.items)) = Cardinality(Bad(old)) + 1
      BY <3>1, <2>1, FS_AddElement
    <3> QED BY <3>2, <2>3, <1>2, <1>3
  <2> QED BY <2>2, <2>3
<1> QED BY <1>1, <1>2, <1>3, <1>8, <1>9, <1>10, <1>11, <1>12 DEF TallyTells

LEMMA UpdIsLocal ==
  ASSUME NEW w \in Locals
  PROVE  /\ \A n \in Nat : Upd(w, [next |-> n]) \in Locals
         /\ \A n \in Nat, t \in Tallies : Upd(w, [next |-> n, tally |-> t]) \in Locals
         /\ \A place \in Places, n \in Nat : Upd(w, [at |-> place, next |-> n]) \in Locals
         /\ \A place \in Places, n \in Nat, t \in Tallies : Upd(w, [at |-> place, next |-> n, tally |-> t]) \in Locals
         /\ \A place \in Places, t \in Tallies, finds \in Seq(Values) : Upd(w, [at |-> place, tally |-> t, finds |-> finds]) \in Locals
         /\ \A finds \in Seq(Values) : Upd(w, [finds |-> finds]) \in Locals
<1>1. \A n \in Nat : Upd(w, [next |-> n]) \in Locals
  BY DEF Upd, Locals
<1>2. \A n \in Nat, t \in Tallies : Upd(w, [next |-> n, tally |-> t]) \in Locals
  BY DEF Upd, Locals
<1>3. \A place \in Places, n \in Nat : Upd(w, [at |-> place, next |-> n]) \in Locals
  BY DEF Upd, Locals
<1>4. \A place \in Places, n \in Nat, t \in Tallies : Upd(w, [at |-> place, next |-> n, tally |-> t]) \in Locals
  BY DEF Upd, Locals
<1>5. \A place \in Places, t \in Tallies, finds \in Seq(Values) : Upd(w, [at |-> place, tally |-> t, finds |-> finds]) \in Locals
  BY DEF Upd, Locals
<1>6. \A finds \in Seq(Values) : Upd(w, [finds |-> finds]) \in Locals
  BY DEF Upd, Locals
<1> QED BY <1>1, <1>2, <1>3, <1>4, <1>5, <1>6

LEMMA TalliedIsTally ==
  ASSUME NEW r \in Runs, work[r] \in Locals, NEW ok \in BOOLEAN
  PROVE  Tallied(r, ok) \in Tallies
<1> DEFINE t == work[r].tally
<1> DEFINE new == [row |-> work[r].next, ok |-> ok]
<1>1. t \in Tallies /\ work[r].next \in Nat
  BY DEF Locals
<1>2. new \in [row : Nat, ok : BOOLEAN]
  BY <1>1
<1>3. t.items \cup {new} \in SUBSET [row : Nat, ok : BOOLEAN]
  BY <1>1, <1>2 DEF Tallies
<1>4. t.refused + (IF ok THEN 0 ELSE 1) \in Nat
  BY <1>1 DEF Tallies
<1>5. Tallied(r, ok) = [t EXCEPT !.items = t.items \cup {new}, !.refused = t.refused + (IF ok THEN 0 ELSE 1)]
  BY <1>1 DEF Tallied, Tallies
<1> HIDE DEF new, t
<1> QED BY <1>1, <1>3, <1>4, <1>5 DEF Tallies

LEMMA SameItems ==
  ASSUME NEW w \in Locals, NEW sent, TallyTells(w, sent), w.at \in {"enrich", "lookup", "artifact"},
         NEW v \in Locals, v.at \in {"enrich", "lookup", "artifact"}, v.tally = w.tally,
         NEW sent2, sent \subseteq sent2, v.next >= 1, DoneWith(v) <= w.tally.rows,
         v.at = "lookup" => (v.next <= w.tally.rows /\ HasAnalyzer(v.next) /\ v.next \in sent2),
         {i \in 1 .. DoneWith(v) : HasAnalyzer(i)} = {i \in 1 .. DoneWith(w) : HasAnalyzer(i)}
  PROVE  TallyTells(v, sent2)
<1> DEFINE t == w.tally
<1>1. /\ IsFiniteSet(t.items) /\ {x.row : x \in t.items} = {i \in 1 .. DoneWith(v) : HasAnalyzer(i)}
      /\ \A x, y \in t.items : x.row = y.row => x = y
      /\ t.skipped = Cardinality({i \in 1 .. t.rows : ~HasAnalyzer(i)})
      /\ t.refused = Cardinality({x \in t.items : ~x.ok}) /\ t.rows <= Len(rows)
  BY DEF TallyTells
<1>2. \A x \in t.items : x.ok => x.row \in sent2
  BY DEF TallyTells
<1> HIDE DEF t
<1>3. v.tally = t
  BY DEF t
<1> QED BY <1>1, <1>2, <1>3 DEF TallyTells, t

LEMMA AnalyzeKeeps == ASSUME CaseInv, NEW r \in Runs, Analyze(r) PROVE CaseInv'
<1> DEFINE i == work[r].next
<1>1. /\ TypeOK /\ work[r] \in Locals /\ work[r].at = "enrich"
      /\ TallyTells(work[r], lookedUp[r]) /\ work[r].executed \subseteq ToolNames
      /\ \A l \in lookedUp[r] : l \in DOMAIN rows /\ Loose(l)
  BY DEF CaseInv, TypeOK, RunsTell, SentLoose, Analyze, At, Locals
<1>2. /\ work[r].tally \in Tallies /\ i \in Nat /\ i >= 1 /\ i <= work[r].tally.rows
      /\ work[r].tally.rows \in Nat /\ work[r].tally.rows <= Len(rows) /\ i \in DOMAIN rows
      /\ DoneWith(work[r]) = i - 1
  BY <1>1 DEF TallyTells, Locals, Tallies, Analyze, Pending, TypeOK, DoneWith
<1>3. /\ lookedUp[r] \in SUBSET Nat /\ UNCHANGED <<store, served>>
      /\ (UNCHANGED lookedUp => lookedUp' = [lookedUp EXCEPT ![r] = lookedUp[r]])
  BY <1>1 DEF TypeOK, Analyze
<1>4. CASE ~HasAnalyzer(i) /\ Move(r, [next |-> i + 1]) /\ UNCHANGED lookedUp
  <2> DEFINE w == Upd(work[r], [next |-> i + 1])
  <2>1. Becomes(r, w)
    BY <1>4, Moved
  <2>2. w \in Locals
    <3>1. i + 1 \in Nat
      BY <1>2
    <3> QED BY <1>1, <3>1, UpdIsLocal
  <2>3. w.at = "enrich" /\ w.executed = work[r].executed /\ w.next = i + 1 /\ w.tally = work[r].tally
    BY <1>1 DEF Upd, Locals
  <2> HIDE DEF w
  <2>4. DoneWith(w) = i
    BY <1>2, <2>3 DEF DoneWith
  <2>5. {j \in 1 .. DoneWith(w) : HasAnalyzer(j)} = {j \in 1 .. DoneWith(work[r]) : HasAnalyzer(j)}
    <3>1. 1 .. i = (1 .. (i - 1)) \cup {i}
      BY <1>2
    <3> QED BY <3>1, <2>4, <1>2, <1>4
  <2>6. TallyTells(w, lookedUp[r])
    BY <1>1, <1>2, <2>2, <2>3, <2>4, <2>5, SameItems
  <2> QED BY <1>1, <1>3, <1>4, <2>1, <2>2, <2>3, <2>6, EnrichQuietly DEF StartsAtOne
<1>5. CASE Fails(r) /\ UNCHANGED lookedUp
  BY <1>3, <1>5, FailingStep DEF store
<1>6. CASE HasAnalyzer(i) /\ Move(r, [next |-> i + 1, tally |-> Tallied(r, FALSE)]) /\ UNCHANGED lookedUp
  <2> DEFINE t == Tallied(r, FALSE)
  <2> DEFINE w == Upd(work[r], [next |-> i + 1, tally |-> t])
  <2>1. Becomes(r, w)
    BY <1>6, Moved
  <2>2. t \in Tallies
    BY <1>1, <1>2, TalliedIsTally
  <2>3. w \in Locals
    <3>1. i + 1 \in Nat
      BY <1>2
    <3> HIDE DEF t
    <3> QED BY <1>1, <2>2, <3>1, UpdIsLocal
  <2>4. w.at = "enrich" /\ w.executed = work[r].executed /\ w.next = i + 1 /\ w.tally = t
    BY <1>1 DEF Upd, Locals
  <2>5. t = Tallied(r, FALSE)
    OBVIOUS
  <2> HIDE DEF w, t
  <2>6. DoneWith(w) = i /\ w.next >= 1
    BY <1>2, <2>4 DEF DoneWith
  <2>7. TallyTells(w, lookedUp[r])
    BY <1>1, <1>2, <1>6, <2>3, <2>4, <2>5, <2>6, OneMoreItem
  <2> QED BY <1>1, <1>3, <1>6, <2>1, <2>3, <2>4, <2>7, EnrichQuietly DEF StartsAtOne
<1>7. CASE /\ HasAnalyzer(i) /\ TlpPapGate(i) /\ Goto(r, "lookup")
           /\ lookedUp' = [lookedUp EXCEPT ![r] = @ \cup {i}]
  <2> DEFINE sent == lookedUp[r] \cup {i}
  <2> DEFINE w == Upd(work[r], [at |-> "lookup"])
  <2>1. /\ w \in Locals /\ Becomes(r, w) /\ w.at = "lookup" /\ w.executed = work[r].executed
        /\ w.next = i /\ w.tally = work[r].tally
    <3>1. "lookup" \in Places /\ work \in [Runs -> Locals]
      BY <1>1 DEF Places, TypeOK
    <3> QED BY <3>1, <1>7, GoingTo
  <2> HIDE DEF w
  <2>2. DoneWith(w) = DoneWith(work[r]) /\ DoneWith(w) <= work[r].tally.rows
    BY <1>1, <1>2, <2>1 DEF DoneWith
  <2>3. TallyTells(w, sent)
    BY <1>1, <1>2, <1>7, <2>1, <2>2, SameItems
  <2>4. sent \in SUBSET Nat /\ \A l \in sent : l \in DOMAIN rows /\ Loose(l)
    BY <1>1, <1>2, <1>3, <1>7 DEF Loose, TlpPapGate
  <2>5. lookedUp' = [lookedUp EXCEPT ![r] = sent]
    BY <1>7
  <2> HIDE DEF sent
  <2> QED BY <1>3, <2>1, <2>3, <2>4, <2>5, EnrichQuietly DEF StartsAtOne
<1> QED BY <1>4, <1>5, <1>6, <1>7 DEF Analyze

LEMMA AnalyzerAnswersKeeps == ASSUME CaseInv, NEW r \in Runs, AnalyzerAnswers(r) PROVE CaseInv'
<1> DEFINE i == work[r].next
<1> DEFINE found == SetToSeq(Artifacts[rows[i].data])
<1>1. /\ TypeOK /\ work[r] \in Locals /\ work[r].at = "lookup"
      /\ TallyTells(work[r], lookedUp[r])
      /\ \A l \in lookedUp[r] : l \in DOMAIN rows /\ Loose(l)
  BY DEF CaseInv, TypeOK, RunsTell, SentLoose, AnalyzerAnswers, At
<1>2. /\ i \in Nat /\ i >= 1 /\ i <= work[r].tally.rows /\ work[r].tally.rows \in Nat
      /\ work[r].tally.rows <= Len(rows) /\ i \in DOMAIN rows /\ HasAnalyzer(i) /\ i \in lookedUp[r]
  BY <1>1 DEF TallyTells, Locals, Tallies, TypeOK
<1>3. /\ lookedUp[r] \in SUBSET Nat /\ UNCHANGED <<store, served>>
      /\ lookedUp' = [lookedUp EXCEPT ![r] = lookedUp[r]]
  BY <1>1 DEF TypeOK, AnalyzerAnswers
<1>4. found \in Seq(Values)
  <2>1. rows[i] \in Row
    BY <1>1, <1>2 DEF TypeOK
  <2>2. Artifacts[rows[i].data] \subseteq Values /\ IsFiniteSet(Artifacts[rows[i].data])
    BY <2>1, CaseWorkAssumption DEF Row
  <2> QED BY <2>2, SetToSeqIsSeq
<1> HIDE DEF found
<1>5. ASSUME NEW ok \in BOOLEAN, NEW w \in Locals, Becomes(r, w), w.tally = Tallied(r, ok),
             w.at \in {"enrich", "artifact"}, DoneWith(w) = i, w.next >= 1,
             w.executed = work[r].executed
      PROVE  CaseInv'
  <2>1. TallyTells(w, lookedUp[r])
    BY <1>1, <1>2, <1>5, OneMoreItem
  <2> QED BY <1>1, <1>3, <1>5, <2>1, EnrichQuietly DEF StartsAtOne
<1>6. \A ok \in BOOLEAN : Tallied(r, ok) \in Tallies
  BY <1>1, TalliedIsTally
<1>7. CASE Move(r, [at |-> "artifact", tally |-> Tallied(r, TRUE), finds |-> found])
  <2> DEFINE t == Tallied(r, TRUE)
  <2> DEFINE w == Upd(work[r], [at |-> "artifact", tally |-> t, finds |-> found])
  <2>1. Becomes(r, w)
    BY <1>7, Moved
  <2>2. w \in Locals
    <3>1. "artifact" \in Places /\ t \in Tallies
      BY <1>6 DEF Places
    <3> HIDE DEF t
    <3> QED BY <1>1, <1>4, <3>1, UpdIsLocal
  <2>3. w.at = "artifact" /\ w.executed = work[r].executed /\ w.next = i /\ w.tally = t
    BY <1>1 DEF Upd, Locals
  <2> HIDE DEF w
  <2>4. DoneWith(w) = i /\ w.next >= 1
    BY <1>2, <2>3 DEF DoneWith
  <2> QED BY <1>5, <2>1, <2>2, <2>3, <2>4
<1>8. ASSUME NEW ok \in BOOLEAN, Move(r, [at |-> "enrich", next |-> i + 1, tally |-> Tallied(r, ok)])
      PROVE  CaseInv'
  <2> DEFINE t == Tallied(r, ok)
  <2> DEFINE w == Upd(work[r], [at |-> "enrich", next |-> i + 1, tally |-> t])
  <2>1. Becomes(r, w)
    BY <1>8, Moved
  <2>2. w \in Locals
    <3>1. "enrich" \in Places /\ t \in Tallies /\ i + 1 \in Nat
      BY <1>2, <1>6 DEF Places
    <3> HIDE DEF t
    <3> QED BY <1>1, <3>1, UpdIsLocal
  <2>3. w.at = "enrich" /\ w.executed = work[r].executed /\ w.next = i + 1 /\ w.tally = t
    BY <1>1 DEF Upd, Locals
  <2> HIDE DEF w
  <2>4. DoneWith(w) = i /\ w.next >= 1
    BY <1>2, <2>3 DEF DoneWith
  <2> QED BY <1>5, <2>1, <2>2, <2>3, <2>4
<1> QED BY <1>7, <1>8 DEF AnalyzerAnswers, found

\* a run that fails after the row was written
LEMMA FailsOverRows ==
  ASSUME CaseInv, NEW r \in Runs, Fails(r), UNCHANGED <<case, linked, manual, served, lookedUp>>,
         rows' \in Seq(Row), Grows, RowsTell'
  PROVE  CaseInv'
<1>1. TypeOK /\ CitesServed(work[r], served[r])
  BY DEF CaseInv, RunsTell
<1>2. PICK w \in Locals : Becomes(r, w) /\ w.at = "failed" /\ w.executed = {} /\ w.next = 1
  BY <1>1, Failing DEF TypeOK
<1>3. /\ work' \in [Runs -> Locals] /\ work'[r] = w
      /\ \A s \in Runs : s # r => work'[s] = work[s]
  BY <1>1, <1>2, Moving DEF TypeOK
<1>4. TypeOK'
  BY <1>1, <1>3 DEF TypeOK
<1>5. SentLoose'
  BY <1>4, SentStands
<1>6. CitesServed(work[r], served[r])' /\ StartsAtOne(work[r])' /\ TallyTells(work[r], lookedUp[r])'
  BY <1>2, <1>3 DEF CitesServed, StartsAtOne, TallyTells
<1>7. RunsTell'
  BY <1>3, <1>4, <1>6, OneMoves
<1> QED BY <1>4, <1>5, <1>7 DEF CaseInv

LEMMA WriteArtifactKeeps == ASSUME CaseInv, NEW r \in Runs, WriteArtifact(r) PROVE CaseInv'
<1>1. /\ TypeOK /\ work[r] \in Locals /\ work[r].at = "artifact" /\ work[r].finds \in Seq(Values)
      /\ TallyTells(work[r], lookedUp[r])
      /\ \A l \in lookedUp[r] : l \in DOMAIN rows /\ Loose(l)
  BY DEF CaseInv, TypeOK, RunsTell, SentLoose, WriteArtifact, At, Locals
<1>2. /\ lookedUp[r] \in SUBSET Nat /\ UNCHANGED <<case, timeline, linked, manual, served, lookedUp>>
      /\ lookedUp' = [lookedUp EXCEPT ![r] = lookedUp[r]]
  BY <1>1 DEF TypeOK, WriteArtifact
<1>3. CASE Move(r, [at |-> "enrich", next |-> work[r].next + 1]) /\ UNCHANGED rows
  <2> DEFINE i == work[r].next
  <2> DEFINE w == Upd(work[r], [at |-> "enrich", next |-> i + 1])
  <2>1. Becomes(r, w)
    BY <1>3, Moved
  <2>2. i \in Nat /\ i >= 1 /\ DoneWith(work[r]) = i /\ i <= work[r].tally.rows
    BY <1>1 DEF TallyTells, Locals, DoneWith
  <2>3. w \in Locals
    <3>1. "enrich" \in Places /\ i + 1 \in Nat
      BY <2>2 DEF Places
    <3> QED BY <1>1, <3>1, UpdIsLocal
  <2>4. w.at = "enrich" /\ w.executed = work[r].executed /\ w.next = i + 1 /\ w.tally = work[r].tally
    BY <1>1 DEF Upd, Locals
  <2> HIDE DEF w
  <2>5. DoneWith(w) = i /\ w.next >= 1
    BY <2>2, <2>4 DEF DoneWith
  <2>6. TallyTells(w, lookedUp[r])
    BY <1>1, <2>2, <2>3, <2>4, <2>5, SameItems
  <2>7. UNCHANGED <<store, served>>
    BY <1>2, <1>3 DEF store
  <2> QED BY <1>1, <1>2, <2>1, <2>3, <2>4, <2>6, <2>7, EnrichQuietly DEF StartsAtOne
<1>4. CASE Fails(r) /\ UNCHANGED rows
  BY <1>2, <1>4, FailingStep
<1>5. CASE work[r].finds # <<>> /\ AddCaseObservable(Head(work[r].finds), 2, "analyzer")
  <2>1. Head(work[r].finds) \in Values /\ Tail(work[r].finds) \in Seq(Values)
    BY <1>1, <1>5
  <2>2. rows' \in Seq(Row) /\ Grows /\ RowsTell'
    BY <1>2, <1>5, <2>1, AddedObservable
  <2>3. CASE Fails(r)
    BY <1>2, <2>2, <2>3, FailsOverRows
  <2>4. CASE Move(r, [finds |-> Tail(work[r].finds)])
    <3> DEFINE w == Upd(work[r], [finds |-> Tail(work[r].finds)])
    <3>1. Becomes(r, w)
      BY <2>4, Moved
    <3>2. w \in Locals
      BY <1>1, <2>1, UpdIsLocal
    <3>3. /\ w.at = "artifact" /\ w.executed = work[r].executed /\ w.next = work[r].next
          /\ w.tally = work[r].tally
      BY <1>1 DEF Upd, Locals
    <3> HIDE DEF w
    <3>4. /\ work' \in [Runs -> Locals] /\ work'[r] = w
          /\ \A s \in Runs : s # r => work'[s] = work[s]
      BY <1>1, <3>1, <3>2, Moving DEF TypeOK
    <3>5. TypeOK'
      BY <1>1, <1>2, <2>2, <3>4 DEF TypeOK
    <3>6. TallyTells(work[r], lookedUp[r])'
      BY <1>1, <1>2, <2>2, <3>3, <3>4, <3>5, TallyStands
    <3>7. SentLoose'
      BY <1>2, <2>2, <3>5, SentStands
    <3>8. /\ lookedUp' \in [Runs -> SUBSET Nat]
          /\ \A s \in Runs : s # r => lookedUp'[s] = lookedUp[s]
      BY <1>1, <1>2 DEF TypeOK
    <3> QED BY <1>1, <1>2, <2>2, <3>1, <3>2, <3>3, <3>6, <3>7, <3>8, EnrichStep DEF StartsAtOne
  <2> QED BY <2>3, <2>4, <1>3, <1>5 DEF WriteArtifact
<1> QED BY <1>3, <1>4, <1>5 DEF WriteArtifact

-----------------------------------------------------------------------------
(* The theorems *)

LEMMA CaseInvInit == Init => CaseInv
<1> SUFFICES ASSUME Init PROVE CaseInv
  OBVIOUS
<1>1. Fresh \in Locals
  BY DEF Locals, Fresh, NoReport, NoTally, Tallies, Reports, NoCall, Places
<1>2. TypeOK
  BY <1>1, CaseWorkAssumption DEF Init, TypeOK
<1>3. RowsTell /\ SentLoose
  BY DEF Init, RowsTell, SentLoose
<1>4. RunsTell
  BY DEF Init, RunsTell, CitesServed, StartsAtOne, TallyTells, Fresh
<1> QED BY <1>2, <1>3, <1>4 DEF CaseInv

LEMMA CaseInvStep == CaseInv /\ [Next]_vars => CaseInv'
<1> SUFFICES ASSUME CaseInv, [Next]_vars PROVE CaseInv'
  OBVIOUS
<1>1. ASSUME NEW a \in Alerts, LinkAlert(a) PROVE CaseInv'
  BY <1>1, LinkAlertKeeps
<1>2. CASE CloseCase
  BY <1>2, CloseCaseKeeps
<1>3. ASSUME NEW d \in Values, NEW tlp \in ManualMarks, AnalystAdds(d, tlp) PROVE CaseInv'
  BY <1>3, AnalystAddsKeeps
<1>4. ASSUME NEW r \in Runs, Chain(r) PROVE CaseInv'
  <2>1. CASE Start(r) \/ LoadCase(r) \/ Plan(r) \/ Decide(r) \/ Truncate(r) \/ CallTool(r)
    BY <2>1, StartKeeps, LoadCaseKeeps, PlanKeeps, DecideKeeps, TruncateKeeps, CallToolKeeps
  <2>2. CASE Observe(r) \/ Report(r)
    BY <2>2, ObserveKeeps, ReportKeeps
  <2>3. CASE WriteTimeline(r)
    BY <2>3, FlowWritesKeeps DEF WriteTimeline
  <2>4. CASE LoadEnrich(r) \/ Analyze(r) \/ AnalyzerAnswers(r) \/ WriteArtifact(r)
    BY <2>4, LoadEnrichKeeps, AnalyzeKeeps, AnalyzerAnswersKeeps, WriteArtifactKeeps
  <2>5. CASE WriteReport(r)
    BY <2>5, FlowWritesKeeps DEF WriteReport
  <2> QED BY <1>4, <2>1, <2>2, <2>3, <2>4, <2>5 DEF Chain
<1>5. ASSUME NEW r \in Runs, Expire(r) \/ Killed(r) PROVE CaseInv'
  BY <1>5, ExpireKeeps, KilledKeeps
<1>6. CASE UNCHANGED vars
  <2>1. UNCHANGED <<rows, linked, work, served, lookedUp, case, manual>>
    BY <1>6 DEF vars, store
  <2>2. Grows /\ RowsTell'
    BY <2>1, RowsStand
  <2> QED BY <2>1, <2>2, BackendStep DEF CaseInv, TypeOK
<1> QED BY <1>1, <1>2, <1>3, <1>4, <1>5, <1>6 DEF Next

\* The invariant of the case and its runs holds of every behaviour.
THEOREM CaseInvHolds == Spec => []CaseInv
BY CaseInvInit, CaseInvStep, PTL DEF Spec

LEMMA InsideByInv == CaseInv => StrictStaysInside
<1> SUFFICES ASSUME CaseInv, NEW r \in Runs, NEW l \in lookedUp[r]
             PROVE  \E i \in DOMAIN rows :
                      /\ rows[i].data = rows[l].data /\ Loose(i)
                      /\ \/ rows[i].from = "analyst"
                         \/ /\ rows[i].from = "alert"
                            /\ \E a \in linked : rows[i].data \in a.data /\ (a.stamp = {} => a.words \subseteq 0..2)
                         \/ /\ rows[i].from = "analyzer"
                            /\ \A j \in 1..(i - 1) : rows[j].data # rows[i].data
  BY DEF StrictStaysInside
<1>1. l \in DOMAIN rows /\ Loose(l)
  BY DEF CaseInv, SentLoose
<1>2. rows[l].from \in {"alert", "analyst", "analyzer"}
  <2>1. rows[l] \in Row
    BY <1>1 DEF CaseInv, TypeOK
  <2> QED BY <2>1 DEF Row
<1>3. CASE rows[l].from = "alert"
  <2>1. PICK a \in linked : rows[l].data \in a.data /\ rows[l].tlp = TlpFromAlert(a)
    BY <1>1, <1>3 DEF CaseInv, RowsTell
  <2>2. a \in Alerts /\ TlpFromAlert(a) <= 2
    BY <1>1, <2>1 DEF CaseInv, TypeOK, Loose
  <2>3. a.stamp = {} => a.words \subseteq 0..2
    BY <2>2, MarkOfAlert
  <2> QED BY <1>1, <1>3, <2>1, <2>3
<1>4. CASE rows[l].from = "analyzer"
  BY <1>1, <1>4 DEF CaseInv, RowsTell
<1>5. CASE rows[l].from = "analyst"
  BY <1>1, <1>5
<1> QED BY <1>2, <1>3, <1>4, <1>5

\* Whatever alerts, artifacts and marks there are, and however many runs enrich at
\* once, a value goes to an analyzer only when an alert or an analyst brought it in
\* under marks that allow it, or an analyzer found it first.
THEOREM StrictStaysInsideHolds == Spec => []StrictStaysInside
BY CaseInvHolds, InsideByInv, PTL

\* items with different rows are as many as their rows
LEMMA AsManyRows ==
  ASSUME NEW items, IsFiniteSet(items), \A x, y \in items : x.row = y.row => x = y
  PROVE  Cardinality({x.row : x \in items}) = Cardinality(items)
<1> DEFINE R == {x.row : x \in items}
<1> DEFINE f == [x \in items |-> x.row]
<1>1. f \in Bijection(items, R)
  <2>1. f \in [items -> R] /\ \A x \in items : f[x] = x.row
    OBVIOUS
  <2>2. \A x, y \in items : f[x] = f[y] => x = y
    BY <2>1
  <2>3. \A y \in R : \E x \in items : f[x] = y
    BY <2>1
  <2> HIDE DEF f, R
  <2> QED BY <2>1, <2>2, <2>3 DEF Bijection, Injection, Surjection, IsInjective
<1> HIDE DEF f
<1>2. ExistsBijection(items, R)
  BY <1>1 DEF ExistsBijection
<1> HIDE DEF R
<1>3. Cardinality(R) = Cardinality(items)
  BY <1>2, FS_Bijection
<1> QED BY <1>3 DEF R

LEMMA TallyAddsUp ==
  ASSUME NEW w \in Locals, NEW sent, TallyTells(w, sent), w.at = "enrich", ~(w.next <= w.tally.rows)
  PROVE  LET t == w.tally IN
           /\ {x.row : x \in t.items} = {i \in 1..t.rows : HasAnalyzer(i)}
           /\ Cardinality(t.items) + t.skipped = t.rows
           /\ t.refused = Cardinality({x \in t.items : ~x.ok})
           /\ \A x \in t.items : x.ok => x.row \in sent
<1> DEFINE t == w.tally
<1> DEFINE Sent == {i \in 1..t.rows : HasAnalyzer(i)}
<1> DEFINE Kept == {i \in 1..t.rows : ~HasAnalyzer(i)}
<1>1. w.next \in Nat /\ t.rows \in Nat /\ DoneWith(w) = w.next - 1 /\ DoneWith(w) <= t.rows
  BY DEF Locals, Tallies, DoneWith, TallyTells
<1>2. DoneWith(w) = t.rows
  BY <1>1
<1>3. /\ {x.row : x \in t.items} = Sent /\ IsFiniteSet(t.items) /\ t.skipped = Cardinality(Kept)
      /\ \A x, y \in t.items : x.row = y.row => x = y
      /\ t.refused = Cardinality({x \in t.items : ~x.ok})
      /\ \A x \in t.items : x.ok => x.row \in sent
  BY <1>2 DEF TallyTells
<1>4. Cardinality(Sent) = Cardinality(t.items)
  <2>1. Cardinality({x.row : x \in t.items}) = Cardinality(t.items)
    BY <1>3, AsManyRows
  <2> QED BY <2>1, <1>3
<1>5. IsFiniteSet(1 .. t.rows) /\ Cardinality(1 .. t.rows) = t.rows
  <2>1. ASSUME NEW n \in Nat PROVE IsFiniteSet(1 .. n) /\ Cardinality(1 .. n) = n
    <3>1. 1 \in Int /\ n \in Int
      OBVIOUS
    <3>2. IsFiniteSet(1 .. n) /\ Cardinality(1 .. n) = (IF 1 > n THEN 0 ELSE n - 1 + 1)
      BY ONLY <3>1, FS_Interval
    <3> QED BY <3>2
  <2> QED BY <1>1, <2>1
<1>6. Sent \subseteq 1 .. t.rows /\ Kept = (1 .. t.rows) \ Sent
  OBVIOUS
<1>7. IsFiniteSet(Sent) /\ Cardinality(Sent) \in Nat
  BY <1>5, <1>6, FS_Subset, FS_CardinalityType
<1> HIDE DEF Sent, Kept
<1>8. Cardinality(Kept) = t.rows - Cardinality(Sent)
  <2>1. (1 .. t.rows) \cap Sent = Sent
    BY <1>6
  <2>2. Cardinality((1 .. t.rows) \ Sent) = Cardinality(1 .. t.rows) - Cardinality((1 .. t.rows) \cap Sent)
    BY <1>5, FS_Difference
  <2> QED BY <2>1, <2>2, <1>5, <1>6
<1>9. Cardinality(t.items) + t.skipped = t.rows
  BY <1>1, <1>3, <1>4, <1>7, <1>8
<1> QED BY <1>3, <1>9 DEF Sent

LEMMA ReportsByInv == CaseInv => ReportsAreTrue
<1> SUFFICES ASSUME CaseInv, NEW r \in Runs
             PROVE  /\ At(r, "write") =>
                         /\ work[r].report.cites \subseteq served[r]
                         /\ work[r].cut => work[r].report.incomplete
                    /\ At(r, "enrich") /\ ~Pending(r) =>
                         LET t == work[r].tally IN
                           /\ {x.row : x \in t.items} = {i \in 1..t.rows : HasAnalyzer(i)}
                           /\ Cardinality(t.items) + t.skipped = t.rows
                           /\ t.refused = Cardinality({x \in t.items : ~x.ok})
                           /\ \A x \in t.items : x.ok => x.row \in lookedUp[r]
  BY DEF ReportsAreTrue
<1>1. /\ work[r] \in Locals /\ CitesServed(work[r], served[r]) /\ TallyTells(work[r], lookedUp[r])
  BY DEF CaseInv, TypeOK, RunsTell
<1>2. At(r, "write") => /\ work[r].report.cites \subseteq served[r]
                        /\ work[r].cut => work[r].report.incomplete
  BY <1>1 DEF At, CitesServed
<1> QED BY <1>1, <1>2, TallyAddsUp DEF At, Pending

\* Whatever the model answers and however the backend changes meanwhile, a report
\* cites only what served the run and says when it was cut, and the numbers of an
\* enrichment report add up.
THEOREM ReportsAreTrueHolds == Spec => []ReportsAreTrue
BY CaseInvHolds, ReportsByInv, PTL

=============================================================================
