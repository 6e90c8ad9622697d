---------------------------- MODULE HuntLoopProofs ----------------------------
(***************************************************************************)
(* What TLAPS proves of HuntLoop, for every number of rounds, tasks, runs  *)
(* and crashes and whatever fails.                                         *)
(***************************************************************************)
EXTENDS HuntLoopProps, FiniteSetTheorems, SequenceTheorems, WellFoundedInduction, TLAPS

-----------------------------------------------------------------------------
(* The inductive invariant *)

RoundKinds == {"none", "blank", "insufficient", "sufficient"}
Plans == {"none", "planned", "planner_failed", "spin"}
Verdicts == {"none", "insufficient", "hit", "miss"}
Reasons == {"none", "user_cancelled", "planner_broken", "spin", "budget", "time", "budget_rounds"}
Overs == {"token_budget", "llm_timeout", "round_timeout"}
Whys == {"none", "parent_cancelled", "node_error", "rounds", "mint_failed", "orphaned_by_restart"} \cup Overs
RoundPlaces == {"queued", "minting", "lost", "completed", "failed"} \cup RoundPath
TaskPlaces == {"queued", "completed", "failed"} \cup TaskPath
Places == RoundPlaces \cup TaskPlaces

Rows ==
  [kind : {"hunt_flow", "hunt_task"}, asked : 0 .. MaxRounds + 1, parent : Nat, linked : BOOLEAN,
   at : Places, fail : Whys, no : 0 .. MaxRounds, prev : RoundKinds, plan : Plans, judged : Verdicts]

Statuses == {"proposed", "hunting", "cancelled", "concluded", "refuted"}

TypeOK ==
  /\ hyp \in [status : Statuses, reason : Reasons]
  /\ rounds \in [RoundNos -> RoundKinds]
  /\ cases \in Nat /\ events \in Nat /\ cursor \in Nat /\ crashes \in Nat
  /\ run \in Seq(Rows)
  /\ autorun \in {"idle", "launching", "launched", "cancelling"}
  /\ relays \subseteq RoundNos /\ posted \subseteq Ids /\ heard \subseteq Nat
  /\ board \in BOOLEAN /\ stopped \in BOOLEAN /\ faulty \in BOOLEAN
  /\ stopping \in Reasons

\* a run is where its kind of run goes, and a task's round was there before it
RowsTell ==
  \A r \in Ids :
    /\ run[r].kind = "hunt_flow" => run[r].at \in RoundPlaces
    /\ run[r].kind = "hunt_task" => run[r].at \in TaskPlaces
    /\ run[r].parent < r

\* where a round is before it posts a task, and from then on until it has been woken
Before == {"queued", "minting", "lost", "intake", "starting", "planner", "dispatch", "spinning"}
Parenting == {"posting", "await", "waiting"}

\* a round's tasks exist from its posting on, and those that have ended were heard
ChildrenTold ==
  \A r \in RoundRuns :
    /\ run[r].at \in Before => Children(r) = {}
    /\ run[r].at \in Parenting =>
         \A c \in Children(r) : run[c].at \in {"queued"} \cup TaskPath \/ c \in heard

LivePlaces == {"queued", "minting"} \cup RoundPath
Live(r) == run[r].at \in LivePlaces

\* at most one round is or is to be under way: of those that have neither ended nor
\* lost their job, and those the relay is about to post
OneRoundLives ==
  /\ \A r, s \in RoundRuns : Live(r) /\ Live(s) => r = s
  /\ \A j, k \in relays : j = k
  /\ relays # {} => \A r \in RoundRuns : ~Live(r)
  /\ relays # {} => \E r \in RoundRuns : run[r].at = "completed"

HuntInv == TypeOK /\ RowsTell /\ ChildrenTold /\ OneRoundLives

-----------------------------------------------------------------------------
(* What a step does to the table of runs *)

\* the rows but r's stay
OneRow(r) ==
  /\ run' \in Seq(Rows) /\ Len(run') = Len(run)
  /\ \A q \in Ids : q # r => run'[q] = run[q]

\* r keeps what it was launched as and with
SameRun(r) ==
  /\ run'[r].kind = run[r].kind /\ run'[r].asked = run[r].asked
  /\ run'[r].parent = run[r].parent

LEMMA IdsAre ==
  ASSUME TypeOK
  PROVE  Len(run) \in Nat /\ Ids = 1 .. Len(run) /\ \A r \in Ids : run[r] \in Rows
BY LenProperties, ElementOfSeq DEF TypeOK, Ids

\* A row of a table is replaced.
LEMMA RowReplaced ==
  ASSUME TypeOK, NEW r \in Ids, NEW row \in Rows, run' = [run EXCEPT ![r] = row]
  PROVE  OneRow(r) /\ run'[r] = row
<1>1. r \in 1 .. Len(run) /\ run \in Seq(Rows) /\ DOMAIN run = 1 .. Len(run)
  BY IdsAre DEF TypeOK, Ids
<1>2. run' \in Seq(Rows) /\ Len(run') = Len(run)
  BY <1>1, ExceptSeq
<1> QED BY <1>1, <1>2 DEF OneRow, Ids

\* A run goes to another place.
LEMMA RunGoes ==
  ASSUME TypeOK, NEW r \in Ids, NEW at \in Places, Goto(r, at)
  PROVE  /\ OneRow(r) /\ SameRun(r) /\ run'[r].at = at
         /\ run'[r].linked = run[r].linked /\ run'[r].no = run[r].no /\ run'[r].prev = run[r].prev
         /\ run'[r].plan = run[r].plan /\ run'[r].judged = run[r].judged
<1> DEFINE row == [run[r] EXCEPT !.at = at]
<1>1. run[r] \in Rows
  BY IdsAre
<1>2. /\ row \in Rows /\ row.at = at /\ row.kind = run[r].kind /\ row.asked = run[r].asked
      /\ row.parent = run[r].parent /\ row.linked = run[r].linked /\ row.no = run[r].no
      /\ row.prev = run[r].prev /\ row.plan = run[r].plan /\ row.judged = run[r].judged
  BY <1>1 DEF Rows
<1>3. run' = [run EXCEPT ![r] = row]
  BY DEF Goto
<1> HIDE DEF row
<1>4. OneRow(r) /\ run'[r] = row
  BY <1>2, <1>3, RowReplaced
<1> QED BY <1>2, <1>4 DEF SameRun

\* A run fails.
Fails(r, why) == run' = [run EXCEPT ![r].at = "failed", ![r].fail = why]

LEMMA RunFails ==
  ASSUME TypeOK, NEW r \in Ids, NEW why \in Whys, Fails(r, why)
  PROVE  OneRow(r) /\ SameRun(r) /\ run'[r].at = "failed" /\ run'[r].linked = run[r].linked
<1> DEFINE row == [run[r] EXCEPT !.at = "failed", !.fail = why]
<1>1. run[r] \in Rows
  BY IdsAre
<1>2. /\ row \in Rows /\ row.at = "failed" /\ row.kind = run[r].kind /\ row.asked = run[r].asked
      /\ row.parent = run[r].parent /\ row.linked = run[r].linked
  BY <1>1 DEF Rows, Places, RoundPlaces
<1>3. run' = [run EXCEPT ![r] = row]
  BY DEF Fails
<1> HIDE DEF row
<1>4. OneRow(r) /\ run'[r] = row
  BY <1>2, <1>3, RowReplaced
<1> QED BY <1>2, <1>4 DEF SameRun

\* The launcher links a run.
LEMMA RunLinked ==
  ASSUME TypeOK, NEW r \in posted, Link(r)
  PROVE  /\ r \in Ids /\ OneRow(r) /\ SameRun(r) /\ run'[r].at = run[r].at
         /\ run'[r].linked = TRUE /\ run'[r].no = run[r].no /\ run'[r].prev = run[r].prev
         /\ run'[r].plan = run[r].plan /\ run'[r].judged = run[r].judged
         /\ posted' = posted \ {r}
<1> DEFINE row == [run[r] EXCEPT !.linked = TRUE]
<1>1. r \in Ids /\ run[r] \in Rows
  BY IdsAre DEF TypeOK
<1>2. /\ row \in Rows /\ row.at = run[r].at /\ row.kind = run[r].kind /\ row.asked = run[r].asked
      /\ row.parent = run[r].parent /\ row.linked = TRUE /\ row.no = run[r].no
      /\ row.prev = run[r].prev /\ row.plan = run[r].plan /\ row.judged = run[r].judged
  BY <1>1 DEF Rows
<1>3. run' = [run EXCEPT ![r] = row]
  BY DEF Link
<1> HIDE DEF row
<1>4. OneRow(r) /\ run'[r] = row
  BY <1>1, <1>2, <1>3, RowReplaced
<1> QED BY <1>1, <1>2, <1>4 DEF SameRun, Link

\* A new row comes last; the others stay.
Arrives(row) ==
  /\ run' \in Seq(Rows) /\ Len(run') = Len(run) + 1
  /\ \A q \in Ids : run'[q] = run[q]
  /\ run'[Len(run) + 1] = row

LEMMA RowArrives ==
  ASSUME TypeOK, NEW kind \in {"hunt_flow", "hunt_task"}, NEW no \in 0 .. MaxRounds + 1,
         NEW parent \in Nat, Post(kind, no, parent)
  PROVE  /\ Row(kind, no, parent) \in Rows /\ Arrives(Row(kind, no, parent))
         /\ posted' = posted \cup {Len(run) + 1}
<1> DEFINE row == Row(kind, no, parent)
<1>1. row \in Rows
  BY HuntAssumption DEF Row, Rows, Places, RoundPlaces, Whys, RoundKinds, Plans, Verdicts
<1>2. run' = Append(run, row) /\ run \in Seq(Rows)
  BY DEF Post, TypeOK
<1> HIDE DEF row
<1> QED BY <1>1, <1>2, AppendProperties, IdsAre DEF Arrives, Post, row

-----------------------------------------------------------------------------
(* The shapes of a step: what it does to places, relays and what was heard *)

Stays(q) == SameRun(q) /\ run'[q].at = run[q].at

Quiet ==
  /\ Len(run') = Len(run) /\ \A q \in Ids : Stays(q)
  /\ relays' \subseteq relays /\ heard' = heard

\* only r moves
Alone(r) ==
  /\ r \in Ids /\ Len(run') = Len(run) /\ SameRun(r)
  /\ \A q \in Ids : q # r => Stays(q)
  /\ heard \subseteq heard'

\* a round goes on: forward, as far as its tasks are concerned
RoundMoves(r) ==
  /\ Alone(r) /\ r \in RoundRuns /\ Live(r)
  /\ run'[r].at \in LivePlaces \cup {"completed", "failed"}
  /\ run[r].at \notin Before => run'[r].at \notin Before
  /\ run[r].at \notin Before \cup Parenting => run'[r].at \notin Parenting
  /\ \/ relays' = relays
     \/ run'[r].at = "completed" /\ \E k \in RoundNos : relays' = relays \cup {k}

TaskMoves(c) ==
  /\ Alone(c) /\ c \in TaskRuns /\ relays' = relays
  /\ run[c].at \in {"queued"} \cup TaskPath
  /\ \/ run'[c].at \in TaskPath
     \/ run'[c].at \in {"completed", "failed"} /\ c \in heard'

RoundArrives ==
  /\ Len(run') = Len(run) + 1 /\ \A q \in Ids : Stays(q)
  /\ run'[Len(run) + 1].kind = "hunt_flow" /\ run'[Len(run) + 1].at = "queued"
  /\ run'[Len(run) + 1].parent = 0 /\ heard' = heard
  /\ \/ \E k \in relays : relays' = relays \ {k}
     \/ relays' = relays /\ \A r \in RoundRuns : run[r].at = "failed"

TaskArrives(r) ==
  /\ Len(run') = Len(run) + 1 /\ r \in RoundRuns /\ run[r].at = "posting" /\ SameRun(r)
  /\ \A q \in Ids : q # r => Stays(q)
  /\ run'[r].at \in {"posting", "failed"}
  /\ run'[Len(run) + 1].kind = "hunt_task" /\ run'[Len(run) + 1].parent = r
  /\ \/ run'[Len(run) + 1].at = "queued"
     \/ run'[Len(run) + 1].at = "failed" /\ Len(run) + 1 \in heard'
  /\ heard \subseteq heard' /\ relays' = relays

Crashes ==
  /\ Len(run') = Len(run) /\ relays' = {}
  /\ \A q \in Ids :
       /\ SameRun(q)
       /\ run'[q].at = IF Running(q) THEN "failed" ELSE IF run[q].at = "minting" THEN "lost" ELSE run[q].at

Shape ==
  \/ Quiet \/ RoundArrives \/ Crashes
  \/ \E r \in Ids : RoundMoves(r) \/ TaskMoves(r) \/ TaskArrives(r)

LEMMA OthersStay ==
  ASSUME NEW r \in Ids, OneRow(r), SameRun(r), heard \subseteq heard'
  PROVE  Alone(r)
BY DEF OneRow, Alone, Stays, SameRun

\* a round goes on, with or without more in its row
LEMMA RoundGoesOn ==
  ASSUME TypeOK, NEW r \in RoundRuns, NEW at \in LivePlaces \cup {"completed", "failed"},
         OneRow(r), SameRun(r), run'[r].at = at, Live(r),
         heard \subseteq heard', relays' = relays,
         run[r].at \notin Before => at \notin Before,
         run[r].at \notin Before \cup Parenting => at \notin Parenting
  PROVE  Shape
<1>1. RoundMoves(r)
  BY OthersStay DEF RoundMoves, RoundRuns
<1> QED BY <1>1 DEF Shape, RoundRuns

\* nothing but the table of runs moves, which stays well typed
LEMMA TypeStays ==
  ASSUME TypeOK, run' \in Seq(Rows), Len(run') = Len(run), UNCHANGED Own
  PROVE  TypeOK'
<1>1. DOMAIN run' = 1 .. Len(run') /\ Ids = 1 .. Len(run)
  BY LenProperties, IdsAre
<1> QED BY <1>1 DEF TypeOK, Own, backend, process, history, Ids

LEMMA KillDoes ==
  ASSUME TypeOK, RowsTell, NEW r \in Ids, NEW why \in Whys, KillOnly(r, why),
         run[r].at \in {"minting"} \cup RoundPath \cup TaskPath
  PROVE  TypeOK' /\ Shape
<1>1. Fails(r, why) /\ heard' = heard \cup {r} /\ relays' = relays /\ posted' = posted
  BY DEF KillOnly, Kill, Fails
<1>2. OneRow(r) /\ SameRun(r) /\ run'[r].at = "failed"
  BY <1>1, RunFails
<1>3. TypeOK'
  <2>1. run' \in Seq(Rows) /\ Ids' = Ids
    BY <1>2, LenProperties, IdsAre DEF OneRow, Ids
  <2>2. board' \in BOOLEAN /\ stopped' \in BOOLEAN /\ stopping' \in Reasons
    BY DEF TypeOK, KillOnly, Kill, WriteBoard, CancelReasonOf, Reasons
  <2>3. heard' \subseteq Nat /\ posted' \subseteq Ids'
    <3>1. r \in Nat /\ heard \subseteq Nat /\ posted \subseteq Ids
      BY IdsAre DEF TypeOK
    <3> QED BY <1>1, <2>1, <3>1
  <2> QED BY <2>1, <2>2, <2>3 DEF TypeOK, KillOnly, Kill, backend
<1>4. Shape
  <2>1. Alone(r) /\ r \in heard'
    BY <1>1, <1>2, OthersStay
  <2>2. run[r].kind \in {"hunt_flow", "hunt_task"}
    BY IdsAre DEF Rows
  <2>3. CASE run[r].kind = "hunt_flow"
    <3>1. run[r].at \in RoundPlaces
      BY <2>3 DEF RowsTell
    <3>2. Live(r)
      BY <3>1 DEF RoundPlaces, Live, LivePlaces, RoundPath, TaskPath
    <3>3. RoundMoves(r)
      BY <1>1, <1>2, <2>1, <2>3, <3>2 DEF RoundMoves, RoundRuns, Before, Parenting
    <3> QED BY <3>3 DEF Shape
  <2>4. CASE run[r].kind = "hunt_task"
    <3>1. run[r].at \in TaskPlaces
      BY <2>4 DEF RowsTell
    <3>2. run[r].at \in {"queued"} \cup TaskPath
      BY <3>1 DEF TaskPlaces, RoundPath, TaskPath
    <3>3. TaskMoves(r)
      BY <1>1, <1>2, <2>1, <2>4, <3>2 DEF TaskMoves, TaskRuns
    <3> QED BY <3>3 DEF Shape
  <2> QED BY <2>2, <2>3, <2>4
<1> QED BY <1>3, <1>4

\* a round goes from one node to another
LEMMA NodeToNode ==
  ASSUME TypeOK, NEW r \in RoundRuns, Live(r),
         NEW at \in LivePlaces \cup {"completed", "failed"}, Goto(r, at), UNCHANGED Own,
         run[r].at \notin Before => at \notin Before,
         run[r].at \notin Before \cup Parenting => at \notin Parenting
  PROVE  TypeOK' /\ Shape
<1>1. at \in Places /\ r \in Ids
  BY DEF LivePlaces, Places, RoundPlaces, RoundRuns
<1>2. OneRow(r) /\ SameRun(r) /\ run'[r].at = at
  BY <1>1, RunGoes
<1>3. relays' = relays /\ heard' = heard
  BY DEF Own, process
<1>4. Shape
  BY <1>2, <1>3, RoundGoesOn
<1> QED BY <1>2, <1>4, TypeStays DEF OneRow

Hyps == [status : Statuses, reason : Reasons]

LEMMA BackendTyped ==
  ASSUME TypeOK, run' \in Seq(Rows), Len(run') = Len(run), UNCHANGED <<events, cursor, process, history>>,
         hyp' \in Hyps, rounds' \in [RoundNos -> RoundKinds], cases' \in Nat
  PROVE  TypeOK'
<1>1. DOMAIN run' = 1 .. Len(run') /\ Ids = 1 .. Len(run)
  BY LenProperties, IdsAre
<1> QED BY <1>1 DEF TypeOK, process, history, Ids, Hyps

\* A set of numbers up to n that is not empty has a greatest.
LEMMA Greatest ==
  ASSUME NEW n \in Nat, NEW S \in SUBSET (1 .. n), S # {}
  PROVE  \E c \in S : \A d \in S : d <= c
<1> DEFINE T == {n - c : c \in S}
<1>1. T \subseteq Nat /\ T # {}
  <2>1. \A c \in S : n - c \in Nat
    OBVIOUS
  <2>2. PICK c \in S : TRUE
    OBVIOUS
  <2>3. n - c \in T
    BY <2>2
  <2> QED BY <2>1, <2>3
<1> HIDE DEF T
<1>2. \E x \in T : \A y \in T : ~ (<<y, x>> \in OpToRel(<, Nat))
  BY <1>1, WFMin, NatLessThanWellFounded, Zenon
<1>3. PICK x \in T : \A y \in T : ~ (y < x)
  BY <1>1, <1>2 DEF OpToRel
<1>4. PICK c \in S : x = n - c
  BY <1>3 DEF T
<1>5. \A d \in S : ~ (n - d < n - c)
  BY <1>3, <1>4 DEF T
<1> QED BY <1>5

\* A round knows its number, from the ledger or by counting.
LEMMA RoundNoIs ==
  ASSUME TypeOK, NEW r \in Ids
  PROVE  RoundNo(r) \in Nat
<1> DEFINE S == {q \in RoundRuns \ {r} : run[q].linked}
<1>1. S \subseteq 1 .. Len(run) /\ Len(run) \in Nat
  BY IdsAre DEF RoundRuns
<1>2. Cardinality(S) \in Nat
  <2>1. IsFiniteSet(1 .. Len(run))
    BY <1>1, FS_Interval
  <2> QED BY <1>1, <2>1, FS_Subset, FS_CardinalityType
<1>3. run[r].asked \in Nat
  BY IdsAre, HuntAssumption DEF Rows
<1> QED BY <1>2, <1>3 DEF RoundNo

LEMMA IntakeDoes ==
  ASSUME TypeOK, RowsTell, NEW r \in Ids, Intake(r)
  PROVE  TypeOK' /\ Shape
<1>1. r \in RoundRuns /\ run[r].at = "intake" /\ Live(r) /\ run[r] \in Rows
  BY IdsAre DEF Intake, Enter, AtNode, Live, LivePlaces, RoundPath
<1> DEFINE k == RoundNo(r)
<1>2. CASE KillOnly(r, "rounds") \/ KillOnly(r, "node_error")
  BY <1>1, <1>2, KillDoes DEF Whys, RoundPath
<1>3. ASSUME k <= MaxRounds, UNCHANGED Own, NEW at \in {"starting", "planner"},
             run' = [run EXCEPT ![r].no = k, ![r].prev = LastRecorded, ![r].at = at]
      PROVE  TypeOK' /\ Shape
  <2> DEFINE row == [run[r] EXCEPT !.no = k, !.prev = LastRecorded, !.at = at]
  <2>1. LastRecorded \in RoundKinds
    <3> DEFINE known == {j \in RoundNos : rounds[j] # "none"}
               top == CHOOSE j \in known : \A i \in known : i <= j
    <3>1. CASE known = {}
      BY <3>1 DEF LastRecorded, RoundKinds
    <3>2. CASE known # {}
      <4>1. PICK j \in known : \A i \in known : i <= j
        <5>1. known \in SUBSET (1 .. MaxRounds + 1) /\ MaxRounds + 1 \in Nat
          BY HuntAssumption DEF RoundNos
        <5> HIDE DEF known
        <5> QED BY <3>2, <5>1, Greatest
      <4>2. top \in known
        BY <4>1
      <4> QED BY <3>2, <4>2 DEF LastRecorded, TypeOK
    <3> QED BY <3>1, <3>2
  <2>2. k \in 0 .. MaxRounds
    BY <1>1, <1>3, RoundNoIs, HuntAssumption
  <2> HIDE DEF k
  <2>3. /\ row \in Rows /\ row.at = at /\ row.kind = run[r].kind
        /\ row.asked = run[r].asked /\ row.parent = run[r].parent
    BY <1>1, <2>1, <2>2 DEF Rows, Places, RoundPlaces, RoundPath
  <2>4. run' = [run EXCEPT ![r] = row]
    BY <1>3
  <2> HIDE DEF row
  <2>5. OneRow(r) /\ SameRun(r) /\ run'[r].at = at
    BY <2>3, <2>4, RowReplaced DEF SameRun
  <2>6. at \in LivePlaces /\ (run[r].at \notin Before => at \notin Before)
        /\ (run[r].at \notin Before \cup Parenting => at \notin Parenting)
    BY <1>1 DEF LivePlaces, RoundPath, Before, Parenting
  <2>7. relays' = relays /\ heard' = heard
    BY <1>3 DEF Own, process
  <2>8. Shape
    BY <1>1, <2>5, <2>6, <2>7, RoundGoesOn
  <2> QED BY <1>3, <2>5, <2>8, TypeStays DEF OneRow
<1>4. CASE ~(KillOnly(r, "rounds") \/ KillOnly(r, "node_error"))
  <2>1. k <= MaxRounds /\ UNCHANGED Own
        /\ run' = [run EXCEPT ![r].no = k, ![r].prev = LastRecorded,
                              ![r].at = IF k = 1 THEN "starting" ELSE "planner"]
    BY <1>4 DEF Intake
  <2> HIDE DEF k
  <2>2. (IF k = 1 THEN "starting" ELSE "planner") \in {"starting", "planner"}
    OBVIOUS
  <2> QED BY <1>3, <2>1, <2>2
<1> QED BY <1>2, <1>4

\* A round goes on with its row changed and something written to the case backend.
LEMMA NodeWrites ==
  ASSUME TypeOK, NEW r \in RoundRuns, Live(r), NEW row \in Rows,
         NEW at \in LivePlaces \cup {"completed", "failed"},
         row.at = at, row.kind = run[r].kind, row.asked = run[r].asked, row.parent = run[r].parent,
         run' = [run EXCEPT ![r] = row], UNCHANGED <<events, cursor, process, history>>,
         hyp' \in Hyps, rounds' \in [RoundNos -> RoundKinds], cases' \in Nat,
         run[r].at \notin Before => at \notin Before,
         run[r].at \notin Before \cup Parenting => at \notin Parenting
  PROVE  TypeOK' /\ Shape
<1>1. r \in Ids
  BY DEF RoundRuns
<1>2. OneRow(r) /\ run'[r] = row
  BY <1>1, RowReplaced
<1>3. SameRun(r) /\ run'[r].at = at
  BY <1>2 DEF SameRun
<1>4. relays' = relays /\ heard' = heard
  BY DEF process
<1>5. Shape
  BY <1>2, <1>3, <1>4, RoundGoesOn
<1> QED BY <1>2, <1>5, BackendTyped DEF OneRow

LEMMA GotoWrites ==
  ASSUME TypeOK, NEW r \in RoundRuns, Live(r), NEW at \in LivePlaces \cup {"completed", "failed"},
         Goto(r, at), UNCHANGED <<events, cursor, process, history>>,
         hyp' \in Hyps, rounds' \in [RoundNos -> RoundKinds], cases' \in Nat,
         run[r].at \notin Before => at \notin Before,
         run[r].at \notin Before \cup Parenting => at \notin Parenting
  PROVE  TypeOK' /\ Shape
<1>1. at \in Places /\ r \in Ids
  BY DEF LivePlaces, Places, RoundPlaces, RoundRuns
<1>2. OneRow(r) /\ SameRun(r) /\ run'[r].at = at
  BY <1>1, RunGoes
<1>3. relays' = relays /\ heard' = heard
  BY DEF process
<1>4. Shape
  BY <1>2, <1>3, RoundGoesOn
<1> QED BY <1>2, <1>4, BackendTyped DEF OneRow

\* The backend holds what its tables allow.
LEMMA BackendIs ==
  ASSUME TypeOK
  PROVE  /\ hyp \in Hyps /\ rounds \in [RoundNos -> RoundKinds] /\ cases \in Nat
         /\ \A s \in Statuses : [hyp EXCEPT !.status = s] \in Hyps
         /\ \A w \in Reasons : [status |-> "cancelled", reason |-> w] \in Hyps
BY DEF TypeOK, Hyps, Statuses

\* The steps of a round inside its process.
LEMMA RoundAt ==
  ASSUME TypeOK, NEW r \in Ids, NEW node \in LivePlaces, AtNode(r, node)
  PROVE  r \in RoundRuns /\ Live(r) /\ run[r].at = node /\ run[r] \in Rows
BY IdsAre DEF AtNode, Live

LEMMA StartDoes ==
  ASSUME TypeOK, RowsTell, NEW r \in Ids,
         Claim(r) \/ MintAnswers(r) \/ StartHunting(r) \/ Plan(r) \/ Dispatch(r) \/ CancelSpinning(r)
  PROVE  TypeOK' /\ Shape
<1> USE DEF LivePlaces, RoundPath, Before, Parenting
<1>1. CASE Claim(r)
  <2>1. AtNode(r, "queued") /\ Goto(r, "minting") /\ UNCHANGED Own
    BY <1>1 DEF Claim, Own
  <2> QED BY <2>1, RoundAt, NodeToNode
<1>2. CASE MintAnswers(r)
  <2>1. r \in RoundRuns /\ Live(r) /\ run[r].at = "minting"
    BY <1>2, RoundAt DEF MintAnswers
  <2>2. CASE Goto(r, "intake") /\ UNCHANGED Own
    BY <2>1, <2>2, NodeToNode
  <2>3. CASE KillOnly(r, "mint_failed")
    BY <2>1, <2>3, KillDoes DEF Whys
  <2> QED BY <1>2, <2>2, <2>3 DEF MintAnswers
<1>3. CASE StartHunting(r)
  <2>1. r \in RoundRuns /\ Live(r) /\ run[r].at = "starting"
    BY <1>3, RoundAt DEF StartHunting
  <2>2. CASE KillOnly(r, "node_error")
    BY <2>1, <2>2, KillDoes DEF Whys
  <2>3. CASE ~KillOnly(r, "node_error")
    <3>1. /\ hyp' = [hyp EXCEPT !.status = "hunting"] /\ Goto(r, "planner")
          /\ UNCHANGED <<rounds, cases, events, cursor, process, history>>
      BY <1>3, <2>3 DEF StartHunting
    <3>2. hyp' \in Hyps /\ rounds' \in [RoundNos -> RoundKinds] /\ cases' \in Nat
      BY <3>1, BackendIs DEF Statuses
    <3> QED BY <2>1, <3>1, <3>2, GotoWrites
  <2> QED BY <2>2, <2>3
<1>4. CASE Plan(r)
  <2>1. r \in RoundRuns /\ Live(r) /\ run[r].at = "planner" /\ run[r] \in Rows
    BY <1>4, RoundAt DEF Plan, Enter
  <2>2. PICK plan \in {"planned", "planner_failed"} : run' = [run EXCEPT ![r].at = "dispatch", ![r].plan = plan]
    BY <1>4 DEF Plan
  <2> DEFINE row == [run[r] EXCEPT !.at = "dispatch", !.plan = plan]
  <2>3. /\ row \in Rows /\ row.at = "dispatch" /\ row.kind = run[r].kind
        /\ row.asked = run[r].asked /\ row.parent = run[r].parent
    BY <2>1, <2>2 DEF Rows, Places, RoundPlaces, Plans
  <2>4. run' = [run EXCEPT ![r] = row]
    BY <2>2
  <2> HIDE DEF row
  <2>5. UNCHANGED Own
    BY <1>4 DEF Plan
  <2>6. hyp' \in Hyps /\ rounds' \in [RoundNos -> RoundKinds] /\ cases' \in Nat
        /\ UNCHANGED <<events, cursor, process, history>>
    BY <2>5, BackendIs DEF Own, backend
  <2> QED BY <2>1, <2>3, <2>4, <2>6, NodeWrites
<1>5. CASE Dispatch(r)
  <2>1. r \in RoundRuns /\ Live(r) /\ run[r].at = "dispatch" /\ UNCHANGED Own
    BY <1>5, RoundAt DEF Dispatch, Enter
  <2>2. PICK at \in {"await", "posting", "spinning"} : Goto(r, at)
    BY <1>5 DEF Dispatch
  <2> QED BY <2>1, <2>2, NodeToNode
<1>6. CASE CancelSpinning(r)
  <2>1. r \in RoundRuns /\ Live(r) /\ run[r].at = "spinning" /\ run[r] \in Rows
    BY <1>6, RoundAt DEF CancelSpinning
  <2>2. CASE KillOnly(r, "node_error")
    BY <2>1, <2>2, KillDoes DEF Whys
  <2>3. CASE ~KillOnly(r, "node_error")
    <3>1. /\ hyp' = [status |-> "cancelled", reason |-> "spin"]
          /\ run' = [run EXCEPT ![r].at = "await", ![r].plan = "spin"]
          /\ UNCHANGED <<rounds, cases, events, cursor, process, history>>
      BY <1>6, <2>3 DEF CancelSpinning
    <3> DEFINE row == [run[r] EXCEPT !.at = "await", !.plan = "spin"]
    <3>2. /\ row \in Rows /\ row.at = "await" /\ row.kind = run[r].kind
          /\ row.asked = run[r].asked /\ row.parent = run[r].parent
      BY <2>1 DEF Rows, Places, RoundPlaces, Plans
    <3>3. run' = [run EXCEPT ![r] = row]
      BY <3>1
    <3> HIDE DEF row
    <3>4. hyp' \in Hyps /\ rounds' \in [RoundNos -> RoundKinds] /\ cases' \in Nat
      BY <3>1, BackendIs DEF Reasons
    <3> QED BY <2>1, <3>1, <3>2, <3>3, <3>4, NodeWrites
  <2> QED BY <2>2, <2>3
<1> QED BY <1>1, <1>2, <1>3, <1>4, <1>5, <1>6

LEMMA JudgeDoes ==
  ASSUME TypeOK, RowsTell, NEW r \in Ids,
         Dispatched(r) \/ Await(r) \/ Wake(r) \/ Judge(r) \/ Outcome(r)
  PROVE  TypeOK' /\ Shape
<1> USE DEF LivePlaces, RoundPath, Before, Parenting
<1>1. CASE Dispatched(r)
  <2>1. AtNode(r, "posting") /\ Goto(r, "await") /\ UNCHANGED Own
    BY <1>1 DEF Dispatched
  <2> QED BY <2>1, RoundAt, NodeToNode
<1>2. CASE Await(r)
  <2>1. AtNode(r, "await") /\ Goto(r, "waiting") /\ UNCHANGED Own
    BY <1>2 DEF Await, Enter
  <2> QED BY <2>1, RoundAt, NodeToNode
<1>3. CASE Wake(r)
  <2>1. AtNode(r, "waiting") /\ Goto(r, "judge") /\ UNCHANGED Own
    BY <1>3 DEF Wake
  <2> QED BY <2>1, RoundAt, NodeToNode
<1>4. CASE Judge(r)
  <2>1. r \in RoundRuns /\ Live(r) /\ run[r].at = "judge" /\ run[r] \in Rows
    BY <1>4, RoundAt DEF Judge, Enter
  <2>2. PICK v \in Verdicts : run' = [run EXCEPT ![r].at = "outcome", ![r].judged = v]
    BY <1>4 DEF Judge, Verdicts
  <2> DEFINE row == [run[r] EXCEPT !.at = "outcome", !.judged = v]
  <2>3. /\ row \in Rows /\ row.at = "outcome" /\ row.kind = run[r].kind
        /\ row.asked = run[r].asked /\ row.parent = run[r].parent
    BY <2>1, <2>2 DEF Rows, Places, RoundPlaces
  <2>4. run' = [run EXCEPT ![r] = row]
    BY <2>2
  <2> HIDE DEF row
  <2>5. UNCHANGED Own
    BY <1>4 DEF Judge
  <2>6. hyp' \in Hyps /\ rounds' \in [RoundNos -> RoundKinds] /\ cases' \in Nat
        /\ UNCHANGED <<events, cursor, process, history>>
    BY <2>5, BackendIs DEF Own, backend
  <2> QED BY <2>1, <2>3, <2>4, <2>6, NodeWrites
<1>5. CASE Outcome(r)
  <2>1. AtNode(r, "outcome") /\ Goto(r, "recording") /\ UNCHANGED Own
    BY <1>5 DEF Outcome, Enter
  <2> QED BY <2>1, RoundAt, NodeToNode
<1> QED BY <1>1, <1>2, <1>3, <1>4, <1>5

LEMMA CloseDoes ==
  ASSUME TypeOK, RowsTell, NEW r \in Ids,
         RecordRound(r) \/ CloseSpun(r) \/ CloseBroken(r) \/ Converge(r)
  PROVE  TypeOK' /\ Shape
<1> USE DEF LivePlaces, RoundPath, Before, Parenting
<1>1. CASE RecordRound(r)
  <2>1. AtNode(r, "recording") /\ Goto(r, "closing")
        /\ rounds' = [rounds EXCEPT ![run[r].no] = RecordAs(r)]
        /\ UNCHANGED <<hyp, cases, events, cursor, process, history>>
    BY <1>1 DEF RecordRound
  <2>2. RecordAs(r) \in RoundKinds
    BY DEF RecordAs, RoundKinds
  <2>3. hyp' \in Hyps /\ rounds' \in [RoundNos -> RoundKinds] /\ cases' \in Nat
    BY <2>1, <2>2, BackendIs
  <2> QED BY <2>1, <2>3, RoundAt, GotoWrites
<1>2. CASE CloseSpun(r)
  <2>1. AtNode(r, "closing") /\ Goto(r, "completed") /\ UNCHANGED Own
    BY <1>2 DEF CloseSpun
  <2> QED BY <2>1, RoundAt, NodeToNode
<1>3. CASE CloseBroken(r)
  <2>1. r \in RoundRuns /\ Live(r) /\ run[r].at = "closing"
    BY <1>3, RoundAt DEF CloseBroken
  <2>2. CASE KillOnly(r, "node_error")
    BY <2>1, <2>2, KillDoes DEF Whys
  <2>3. CASE ~KillOnly(r, "node_error")
    <3>1. /\ hyp' = [status |-> "cancelled", reason |-> "planner_broken"] /\ Goto(r, "completed")
          /\ UNCHANGED <<rounds, cases, events, cursor, process, history>>
      BY <1>3, <2>3 DEF CloseBroken
    <3>2. hyp' \in Hyps /\ rounds' \in [RoundNos -> RoundKinds] /\ cases' \in Nat
      BY <3>1, BackendIs DEF Reasons
    <3> QED BY <2>1, <3>1, <3>2, GotoWrites
  <2> QED BY <2>2, <2>3
<1>4. CASE Converge(r)
  <2>1. r \in RoundRuns /\ Live(r) /\ run[r].at = "closing"
    BY <1>4, RoundAt DEF Converge
  <2>2. CASE KillOnly(r, "node_error")
    BY <2>1, <2>2, KillDoes DEF Whys
  <2>3. CASE ~KillOnly(r, "node_error")
    <3>1. PICK s \in {"concluded", "refuted"} : hyp' = [hyp EXCEPT !.status = s]
      BY <1>4, <2>3 DEF Converge
    <3>2. Goto(r, "filing") /\ UNCHANGED <<rounds, cases, events, cursor, process, history>>
      BY <1>4, <2>3 DEF Converge
    <3>3. hyp' \in Hyps /\ rounds' \in [RoundNos -> RoundKinds] /\ cases' \in Nat
      BY <3>1, <3>2, BackendIs DEF Statuses
    <3> QED BY <2>1, <3>2, <3>3, GotoWrites
  <2> QED BY <2>2, <2>3
<1> QED BY <1>1, <1>2, <1>3, <1>4

\* The process alone moves, with a table of as many rows.
LEMMA ProcessTyped ==
  ASSUME TypeOK, run' \in Seq(Rows), Len(run') = Len(run), UNCHANGED <<hyp, rounds, events, history>>,
         cases' \in Nat, cursor' \in Nat,
         autorun' \in {"idle", "launching", "launched", "cancelling"}, relays' \subseteq RoundNos,
         posted' \subseteq Ids, heard' \subseteq Nat, board' \in BOOLEAN, stopping' \in Reasons
  PROVE  TypeOK'
<1>1. DOMAIN run' = 1 .. Len(run') /\ Ids = 1 .. Len(run)
  BY LenProperties, IdsAre
<1> QED BY <1>1 DEF TypeOK, history, Ids

LEMMA EndDoes ==
  ASSUME TypeOK, RowsTell, NEW r \in Ids, Relay(r) \/ FileCase(r)
  PROVE  TypeOK' /\ Shape
<1> USE DEF LivePlaces, RoundPath, Before, Parenting
<1>0. UNCHANGED <<cursor, autorun, posted, board, stopping>> =>
        /\ cursor' \in Nat /\ autorun' \in {"idle", "launching", "launched", "cancelling"}
        /\ posted' \subseteq Ids /\ board' \in BOOLEAN /\ stopping' \in Reasons
  BY DEF TypeOK
<1>1. CASE Relay(r)
  <2> DEFINE next == run[r].no + 1
  <2>1. r \in RoundRuns /\ Live(r) /\ run[r].at = "closing" /\ run[r] \in Rows
    BY <1>1, RoundAt DEF Relay
  <2>2. Goto(r, "completed") /\ UNCHANGED <<backend, cursor, autorun, posted, heard, board, stopping, history>>
        /\ (relays' = relays \/ relays' = relays \cup {next})
    BY <1>1 DEF Relay
  <2>3. next \in RoundNos
    BY <2>1, HuntAssumption DEF Rows, RoundNos
  <2> HIDE DEF next
  <2>4. OneRow(r) /\ SameRun(r) /\ run'[r].at = "completed"
    BY <2>1, <2>2, RunGoes DEF Places, RoundPlaces
  <2>5. RoundMoves(r)
    BY <2>1, <2>2, <2>3, <2>4, OthersStay DEF RoundMoves
  <2>6. Shape
    BY <2>5 DEF Shape, RoundRuns
  <2>7. relays' \subseteq RoundNos /\ heard' \subseteq Nat /\ cases' \in Nat
        /\ UNCHANGED <<hyp, rounds, events, history>>
    BY <2>2, <2>3 DEF TypeOK, backend
  <2> QED BY <1>0, <2>2, <2>4, <2>6, <2>7, ProcessTyped DEF OneRow
<1>2. CASE FileCase(r)
  <2>1. r \in RoundRuns /\ Live(r) /\ run[r].at = "filing" /\ r \in Nat
    BY <1>2, RoundAt, IdsAre DEF FileCase
  <2>2. UNCHANGED <<hyp, rounds, events, cursor, autorun, relays, posted, board, stopping, history>>
        /\ cases' = cases + 1
    BY <1>2 DEF FileCase
  <2>3. PICK at \in {"completed", "failed"} : OneRow(r) /\ SameRun(r) /\ run'[r].at = at
    <3>1. CASE Goto(r, "completed")
      BY <3>1, RunGoes DEF Places, RoundPlaces
    <3>2. CASE Fails(r, "node_error")
      BY <3>2, RunFails DEF Whys
    <3> QED BY <1>2, <3>1, <3>2 DEF FileCase, Fails
  <2>4. heard' = heard \/ heard' = heard \cup {r}
    BY <1>2 DEF FileCase
  <2>5. Shape
    BY <2>1, <2>2, <2>3, <2>4, RoundGoesOn
  <2>6. relays' \subseteq RoundNos /\ heard' \subseteq Nat /\ cases' \in Nat
    <3>1. relays \subseteq RoundNos /\ heard \subseteq Nat /\ cases \in Nat
      BY DEF TypeOK
    <3>2. heard' \subseteq Nat
      BY <2>1, <2>4, <3>1
    <3> QED BY <2>2, <3>1, <3>2
  <2> QED BY <1>0, <2>2, <2>3, <2>5, <2>6, ProcessTyped DEF OneRow
<1> QED BY <1>1, <1>2

\* A launcher adds or links a row.
LEMMA LaunchTyped ==
  ASSUME TypeOK, run' \in Seq(Rows), UNCHANGED <<backend, heard, board, stopping, history>>,
         Len(run') >= Len(run), cursor' \in Nat,
         autorun' \in {"idle", "launching", "launched", "cancelling"}, relays' \subseteq RoundNos,
         posted' \subseteq 1 .. Len(run')
  PROVE  TypeOK'
<1>1. DOMAIN run' = 1 .. Len(run')
  BY LenProperties
<1> QED BY <1>1 DEF TypeOK, backend, history, Ids

LEMMA RoundPosted ==
  ASSUME TypeOK, NEW k \in 1 .. MaxRounds + 1, Post("hunt_flow", k, 0), heard' = heard,
         (relays' = relays /\ \A q \in RoundRuns : run[q].at = "failed")
           \/ (k \in relays /\ relays' = relays \ {k})
  PROVE  /\ run' \in Seq(Rows) /\ Len(run') = Len(run) + 1 /\ Shape
         /\ posted' \subseteq 1 .. Len(run')
<1>1. Arrives(Row("hunt_flow", k, 0)) /\ posted' = posted \cup {Len(run) + 1}
  BY RowArrives, HuntAssumption
<1>2. run'[Len(run) + 1].kind = "hunt_flow" /\ run'[Len(run) + 1].at = "queued"
      /\ run'[Len(run) + 1].parent = 0
  BY <1>1 DEF Arrives, Row
<1>3. RoundArrives
  BY <1>1, <1>2 DEF RoundArrives, Arrives, Stays, SameRun
<1>4. posted' \subseteq 1 .. Len(run) + 1
  BY <1>1, IdsAre DEF TypeOK
<1> QED BY <1>1, <1>3, <1>4 DEF Arrives, Shape

LEMMA LinkDoes ==
  ASSUME TypeOK, NEW r \in posted, Link(r), relays' = relays, heard' = heard
  PROVE  /\ run' \in Seq(Rows) /\ Len(run') = Len(run) /\ Shape
         /\ posted' \subseteq 1 .. Len(run')
<1>1. r \in Ids /\ OneRow(r) /\ SameRun(r) /\ run'[r].at = run[r].at /\ posted' = posted \ {r}
  BY RunLinked
<1>2. Quiet
  BY <1>1 DEF Quiet, OneRow, Stays, SameRun
<1>3. posted' \subseteq 1 .. Len(run')
  BY <1>1, IdsAre DEF TypeOK, OneRow
<1> QED BY <1>1, <1>2, <1>3 DEF OneRow, Shape

LEMMA LaunchingDoes ==
  ASSUME TypeOK, RowsTell, Launching
  PROVE  TypeOK' /\ Shape
<1>0. TypeOK => cursor \in Nat /\ autorun \in {"idle", "launching", "launched", "cancelling"}
        /\ relays \subseteq RoundNos /\ run \in Seq(Rows) /\ posted \subseteq 1 .. Len(run) /\ Len(run) \in Nat
  BY IdsAre DEF TypeOK
<1>1. ASSUME UNCHANGED run, relays' \subseteq relays, UNCHANGED heard
      PROVE  Shape
  BY <1>1 DEF Shape, Quiet, Stays, SameRun
<1>2. CASE PollCreated
  <2>1. CASE HasActiveRun \/ HasRoundRun(1)
    <3>1. cursor' = 1 /\ UNCHANGED <<run, posted, autorun, relays, heard, backend, board, stopping, history>>
      BY <1>2, <2>1 DEF PollCreated
    <3> QED BY <1>0, <1>1, <3>1, LaunchTyped
  <2>2. CASE ~(HasActiveRun \/ HasRoundRun(1))
    <3>1. Post("hunt_flow", 1, 0) /\ autorun' = "launching"
          /\ UNCHANGED <<cursor, relays, heard, backend, board, stopping, history>>
      BY <1>2, <2>2 DEF PollCreated
    <3>2. \A q \in RoundRuns : run[q].at = "failed"
      BY <2>2 DEF HasActiveRun
    <3>3. 1 \in 1 .. MaxRounds + 1
      BY HuntAssumption
    <3>4. /\ run' \in Seq(Rows) /\ Len(run') = Len(run) + 1 /\ Shape
          /\ posted' \subseteq 1 .. Len(run')
      BY <3>1, <3>2, <3>3, RoundPosted
    <3> QED BY <1>0, <3>1, <3>4, LaunchTyped
  <2> QED BY <2>1, <2>2
<1>3. CASE LinkFirstRound
  <2>1. /\ autorun' = "launched" /\ UNCHANGED <<backend, cursor, relays, heard, board, stopping, history>>
        /\ \E r \in posted : Link(r)
    BY <1>3 DEF LinkFirstRound
  <2>2. /\ run' \in Seq(Rows) /\ Len(run') = Len(run) /\ Shape /\ posted' \subseteq 1 .. Len(run')
    BY <2>1, LinkDoes
  <2> QED BY <1>0, <2>1, <2>2, LaunchTyped
<1>4. CASE AdvanceCursor
  <2>1. cursor' = cursor + 1 /\ autorun' = "idle"
        /\ UNCHANGED <<backend, run, relays, posted, heard, board, stopping, history>>
    BY <1>4 DEF AdvanceCursor
  <2> QED BY <1>0, <1>1, <2>1, LaunchTyped
<1>5. ASSUME NEW k \in RoundNos, RelayPosts(k)
      PROVE  TypeOK' /\ Shape
  <2>1. /\ k \in relays /\ relays' = relays \ {k}
        /\ UNCHANGED <<backend, cursor, autorun, heard, board, stopping, history>>
    BY <1>5 DEF RelayPosts
  <2>2. CASE UNCHANGED <<run, posted>>
    BY <1>0, <1>1, <2>1, <2>2, LaunchTyped
  <2>3. CASE Post("hunt_flow", k, 0)
    <3>1. /\ run' \in Seq(Rows) /\ Len(run') = Len(run) + 1 /\ Shape
          /\ posted' \subseteq 1 .. Len(run')
      BY <2>1, <2>3, RoundPosted DEF RoundNos
    <3> QED BY <1>0, <2>1, <3>1, LaunchTyped
  <2> QED BY <1>5, <2>2, <2>3 DEF RelayPosts
<1>6. ASSUME NEW r \in posted, RelayLinks(r) \/ LinkTask(r)
      PROVE  TypeOK' /\ Shape
  <2>1. Link(r) /\ UNCHANGED <<backend, cursor, autorun, relays, heard, board, stopping, history>>
    BY <1>6 DEF RelayLinks, LinkTask
  <2>2. /\ run' \in Seq(Rows) /\ Len(run') = Len(run) /\ Shape /\ posted' \subseteq 1 .. Len(run')
    BY <2>1, LinkDoes
  <2> QED BY <1>0, <2>1, <2>2, LaunchTyped
<1> QED BY <1>2, <1>3, <1>4, <1>5, <1>6 DEF Launching

LEMMA PostTaskDoes ==
  ASSUME TypeOK, RowsTell, NEW r \in Ids, PostTask(r)
  PROVE  TypeOK' /\ Shape
<1>1. /\ r \in RoundRuns /\ run[r].at = "posting" /\ Post("hunt_task", run[r].no, r)
      /\ UNCHANGED <<backend, cursor, autorun, relays, heard, board, stopping, history>>
  BY DEF PostTask, AtNode
<1>2. run[r].no \in 0 .. MaxRounds + 1 /\ r \in Nat
  BY IdsAre, HuntAssumption DEF Rows
<1>3. Arrives(Row("hunt_task", run[r].no, r)) /\ posted' = posted \cup {Len(run) + 1}
  BY <1>1, <1>2, RowArrives
<1>4. run'[Len(run) + 1].kind = "hunt_task" /\ run'[Len(run) + 1].at = "queued"
      /\ run'[Len(run) + 1].parent = r
  BY <1>3 DEF Arrives, Row
<1>5. TaskArrives(r)
  BY <1>1, <1>3, <1>4 DEF TaskArrives, Arrives, Stays, SameRun
<1>6. Shape
  BY <1>5 DEF Shape
<1>7. cursor \in Nat /\ autorun \in {"idle", "launching", "launched", "cancelling"}
      /\ relays \subseteq RoundNos /\ posted' \subseteq 1 .. Len(run) + 1
  BY <1>3, IdsAre DEF TypeOK
<1> QED BY <1>1, <1>3, <1>6, <1>7, IdsAre, LaunchTyped DEF Arrives

\* Two rows fail at once, the round's and the new task's.
LEMMA TaskRefusedDoes ==
  ASSUME TypeOK, RowsTell, NEW r \in Ids, TaskRefused(r)
  PROVE  TypeOK' /\ Shape
<1> DEFINE killed == [run EXCEPT ![r].at = "failed", ![r].fail = "node_error"]
           mine == [run[r] EXCEPT !.at = "failed", !.fail = "node_error"]
           row == Row("hunt_task", run[r].no, r)
           new == [row EXCEPT !.at = "failed", !.fail = "mint_failed"]
<1>1. /\ r \in RoundRuns /\ run[r].at = "posting" /\ run' = Append(killed, new)
      /\ heard' = heard \cup {r, Len(run) + 1}
      /\ UNCHANGED <<backend, cursor, autorun, relays, posted, board, stopping, history>>
  BY DEF TaskRefused, AtNode
<1>2. run[r] \in Rows /\ r \in Nat /\ Len(run) \in Nat /\ Ids = 1 .. Len(run) /\ run \in Seq(Rows)
      /\ DOMAIN run = 1 .. Len(run)
  BY IdsAre DEF TypeOK, Ids
<1>3. run[r].no \in 0 .. MaxRounds /\ run[r].no \in 0 .. MaxRounds + 1
  BY <1>2, HuntAssumption DEF Rows
<1>4. mine \in Rows /\ mine.kind = run[r].kind /\ mine.asked = run[r].asked
      /\ mine.parent = run[r].parent /\ mine.at = "failed"
  BY <1>2 DEF Rows, Places, RoundPlaces, Whys
<1>5. row \in Rows /\ row.kind = "hunt_task" /\ row.parent = r
  BY <1>2, <1>3, HuntAssumption DEF Row, Rows, Places, RoundPlaces, Whys, RoundKinds, Plans, Verdicts
<1> HIDE DEF row
<1>6. new \in Rows /\ new.at = "failed" /\ new.kind = "hunt_task" /\ new.parent = r
  BY <1>5 DEF Rows, Places, RoundPlaces, Whys
<1>7. killed = [run EXCEPT ![r] = mine]
  OBVIOUS
<1> HIDE DEF killed, mine, new
<1>8. /\ killed \in Seq(Rows) /\ Len(killed) = Len(run) /\ killed[r] = mine
      /\ \A q \in Ids : q # r => killed[q] = run[q]
  BY <1>2, <1>4, <1>7, ExceptSeq
<1>9. /\ run' \in Seq(Rows) /\ Len(run') = Len(run) + 1 /\ run'[Len(run) + 1] = new
      /\ \A q \in Ids : run'[q] = killed[q]
  BY <1>1, <1>2, <1>6, <1>8, AppendProperties
<1>10. TaskArrives(r)
  BY <1>1, <1>2, <1>4, <1>6, <1>8, <1>9 DEF TaskArrives, Stays, SameRun
<1>11. Shape
  BY <1>10 DEF Shape
<1>12. TypeOK'
  <2>1. DOMAIN run' = 1 .. Len(run')
    BY <1>9, LenProperties
  <2>2. heard' \subseteq Nat /\ posted \subseteq 1 .. Len(run) + 1
    <3>1. heard \subseteq Nat /\ posted \subseteq Ids
      BY DEF TypeOK
    <3>2. posted \subseteq 1 .. Len(run) + 1
      BY <1>2, <3>1
    <3>3. {r, Len(run) + 1} \subseteq Nat
      BY <1>2
    <3> QED BY <1>1, <3>1, <3>2, <3>3
  <2> QED BY <1>1, <1>9, <2>1, <2>2 DEF TypeOK, backend, history, Ids
<1> QED BY <1>11, <1>12

LEMMA TaskDoes ==
  ASSUME TypeOK, RowsTell, NEW c \in Ids, TaskStep(c)
  PROVE  TypeOK' /\ Shape
<1>1. ASSUME NEW at \in TaskPath \cup {"completed"}, Goto(c, at), c \in TaskRuns,
             run[c].at \in {"queued"} \cup TaskPath, heard' \in {heard, heard \cup {c}},
             at = "completed" => c \in heard',
             UNCHANGED <<backend, cursor, autorun, relays, posted, board, stopping, history>>
      PROVE  TypeOK' /\ Shape
  <2>1. OneRow(c) /\ SameRun(c) /\ run'[c].at = at
    BY <1>1, RunGoes DEF Places, RoundPlaces, TaskPlaces
  <2>2. TaskMoves(c)
    BY <1>1, <2>1, OthersStay DEF TaskMoves
  <2>3. Shape
    BY <2>2 DEF Shape
  <2>4. c \in Nat /\ heard \subseteq Nat
    BY IdsAre DEF TypeOK
  <2>5. heard' \subseteq Nat
    BY <1>1, <2>4
  <2>6. /\ cases' \in Nat /\ cursor' \in Nat /\ relays' \subseteq RoundNos /\ posted' \subseteq Ids
        /\ autorun' \in {"idle", "launching", "launched", "cancelling"} /\ board' \in BOOLEAN
        /\ stopping' \in Reasons /\ UNCHANGED <<hyp, rounds, events, history>>
    BY <1>1 DEF TypeOK, backend
  <2> QED BY <2>1, <2>3, <2>5, <2>6, ProcessTyped DEF OneRow
<1> USE DEF TaskPath
<1>2. CASE StartTask(c)
  <2>1. c \in TaskRuns /\ run[c].at = "queued" /\ Goto(c, "intake") /\ UNCHANGED Own
    BY <1>2 DEF StartTask, TaskAt
  <2> QED BY <1>1, <2>1 DEF Own, process
<1>3. CASE TaskIntake(c)
  <2>1. c \in TaskRuns /\ run[c].at = "intake"
    BY <1>3 DEF TaskIntake, TaskAt
  <2>2. CASE KillOnly(c, "node_error")
    BY <2>1, <2>2, KillDoes DEF Whys
  <2>3. CASE Goto(c, "plan") /\ UNCHANGED Own
    BY <1>1, <2>1, <2>3 DEF Own, process
  <2> QED BY <1>3, <2>2, <2>3 DEF TaskIntake
<1>4. CASE TaskNode(c)
  <2>1. PICK at \in {"execute", "report"} : Goto(c, at)
    BY <1>4 DEF TaskNode
  <2>2. c \in TaskRuns /\ run[c].at \in TaskPath /\ UNCHANGED Own
    BY <1>4 DEF TaskNode
  <2> QED BY <1>1, <2>1, <2>2 DEF Own, process
<1>5. CASE Report(c)
  <2>1. /\ c \in TaskRuns /\ run[c].at = "report" /\ Goto(c, "completed") /\ heard' = heard \cup {c}
        /\ UNCHANGED <<backend, cursor, autorun, relays, posted, board, stopping, history>>
    BY <1>5 DEF Report, TaskAt
  <2> QED BY <1>1, <2>1
<1> QED BY <1>2, <1>3, <1>4, <1>5 DEF TaskStep

LEMMA FailingDoes ==
  ASSUME TypeOK, RowsTell, NEW r \in Ids, StopAtNode(r) \/ Failing(r)
  PROVE  TypeOK' /\ Shape
<1>1. CASE StopAtNode(r)
  <2>1. run[r].at \in RoundPath \cup TaskPath
    BY <1>1 DEF StopAtNode, RoundPath, TaskPath
  <2> QED BY <1>1, <2>1, KillDoes DEF StopAtNode, Whys
<1>2. CASE NodeThrows(r)
  BY <1>2, KillDoes DEF NodeThrows, Running, Whys
<1>3. ASSUME NEW kind \in Overspends, Overspend(r, kind)
      PROVE  TypeOK' /\ Shape
  <2>1. run[r].at \in RoundPath
    BY <1>3 DEF Overspend, RoundPath
  <2>2. kind \in Whys
    BY HuntAssumption DEF Whys, Overs
  <2> QED BY <1>3, <2>1, <2>2, KillDoes DEF Overspend
<1> QED BY <1>1, <1>2, <1>3, TaskRefusedDoes DEF Failing

LEMMA CancelDoes ==
  ASSUME TypeOK, RowsTell, UserCancels \/ PollCancelled \/ WriteCancelled
  PROVE  TypeOK' /\ Shape
<1>1. UNCHANGED <<run, relays, heard>>
  BY DEF UserCancels, PollCancelled, WriteCancelled, process, backend
<1>2. Shape
  BY <1>1 DEF Shape, Quiet, Stays, SameRun
<1>3. hyp' \in Hyps /\ stopping' \in Reasons
  BY DEF TypeOK, UserCancels, PollCancelled, WriteCancelled, process, backend, Hyps, Reasons, Statuses
<1>4. events' \in Nat /\ cursor' \in Nat
      /\ autorun' \in {"idle", "launching", "launched", "cancelling"} /\ board' \in BOOLEAN
      /\ stopped' \in BOOLEAN /\ UNCHANGED <<rounds, cases, posted, faulty, crashes>>
  <2>1. events \in Nat /\ cursor \in Nat /\ board \in BOOLEAN /\ stopped \in BOOLEAN
        /\ autorun \in {"idle", "launching", "launched", "cancelling"}
    BY DEF TypeOK
  <2>2. CASE UserCancels
    BY <2>1, <2>2 DEF UserCancels, process, history
  <2>3. CASE PollCancelled
    BY <2>1, <2>3 DEF PollCancelled, backend
  <2>4. CASE WriteCancelled
    BY <2>1, <2>4 DEF WriteCancelled, history
  <2> QED BY <2>2, <2>3, <2>4
<1>5. UNCHANGED Ids
  BY <1>1 DEF Ids
<1> QED BY <1>1, <1>2, <1>3, <1>4, <1>5 DEF TypeOK, Hyps

LEMMA CrashDoes ==
  ASSUME TypeOK, RowsTell, Crash
  PROVE  TypeOK' /\ Shape
<1>1. run' = [r \in 1 .. Len(run) |-> Recovered(r)] /\ Len(run) \in Nat
  BY IdsAre DEF Crash
<1>2. ASSUME NEW r \in Ids
      PROVE  /\ Recovered(r) \in Rows
             /\ Recovered(r).kind = run[r].kind /\ Recovered(r).asked = run[r].asked
             /\ Recovered(r).parent = run[r].parent
             /\ Recovered(r).at = IF Running(r) THEN "failed" ELSE IF run[r].at = "minting" THEN "lost" ELSE run[r].at
  <2> USE DEF Recovered
  <2>1. run[r] \in Rows
    BY IdsAre
  <2>2. CASE Running(r)
    BY <2>1, <2>2 DEF Rows, Places, RoundPlaces, Whys
  <2>3. CASE ~Running(r) /\ run[r].at = "minting"
    BY <2>1, <2>3 DEF Rows, Places, RoundPlaces, Whys
  <2> QED BY <2>1, <2>2, <2>3
<1>3. \A r \in 1 .. Len(run) : Recovered(r) \in Rows
  BY <1>2, IdsAre
<1>4. run' \in Seq(Rows) /\ Len(run') = Len(run) /\ \A r \in Ids : run'[r] = Recovered(r)
  BY <1>1, <1>3, IdsAre, SeqDef
<1>5. Shape
  <2>1. relays' = {}
    BY DEF Crash
  <2>2. Crashes
    BY <1>2, <1>4, <2>1 DEF Crashes, SameRun
  <2> QED BY <2>2 DEF Shape
<1>6. TypeOK'
  <2>1. Ids' = Ids
    BY <1>4, LenProperties, IdsAre DEF Ids
  <2>2. crashes' \in Nat /\ UNCHANGED <<backend, cursor, stopped, faulty>>
        /\ autorun' = "idle" /\ relays' = {} /\ posted' = {} /\ heard' = {}
        /\ board' = FALSE /\ stopping' = "none"
    <3>1. crashes \in Nat
      BY DEF TypeOK
    <3> QED BY <3>1 DEF Crash
  <2> QED BY <1>4, <2>1, <2>2 DEF TypeOK, backend, Reasons
<1> QED BY <1>5, <1>6

\* Every step keeps the types and has one of the shapes.
LEMMA StepShape ==
  ASSUME TypeOK, RowsTell, [Next]_vars
  PROVE  TypeOK' /\ Shape
<1>1. ASSUME NEW r \in Ids, RoundStep(r) \/ TaskStep(r) \/ StopAtNode(r) \/ Failing(r)
      PROVE  TypeOK' /\ Shape
  BY <1>1, StartDoes, IntakeDoes, JudgeDoes, PostTaskDoes, CloseDoes, EndDoes, TaskDoes, FailingDoes
     DEF RoundStep
<1>2. CASE UNCHANGED vars
  <2>1. UNCHANGED <<backend, run, cursor, process, history>>
    BY <1>2 DEF vars
  <2>2. Shape
    BY <2>1 DEF Shape, Quiet, Stays, SameRun, process
  <2>3. run' \in Seq(Rows) /\ Len(run') = Len(run)
    BY <2>1 DEF TypeOK
  <2>4. TypeOK'
    BY <2>1, <2>3, TypeStays DEF Own
  <2> QED BY <2>2, <2>4
<1> QED BY <1>1, <1>2, LaunchingDoes, CancelDoes, CrashDoes DEF Next

-----------------------------------------------------------------------------
(* The invariants, shape by shape *)

\* Rows stay what they are and new ones come behind them.
LEMMA RowsAfter ==
  ASSUME TypeOK, TypeOK', Shape
  PROVE  /\ \A q \in Ids : q \in Ids' /\ SameRun(q)
         /\ \A q \in Ids' : q \in Ids \/ (q = Len(run) + 1 /\ Len(run') = Len(run) + 1)
         /\ Ids \subseteq Nat /\ Len(run) \in Nat
         /\ Len(run') = Len(run) => Ids' = Ids
<1>1. Len(run) \in Nat /\ Ids = 1 .. Len(run)
  BY IdsAre
<1>2. Len(run') \in Nat /\ Ids' = 1 .. Len(run')
  <2>1. run' \in Seq(Rows)
    BY DEF TypeOK
  <2> QED BY <2>1, LenProperties DEF Ids
<1>3. Len(run') = Len(run) \/ Len(run') = Len(run) + 1
  BY DEF Shape, Quiet, RoundArrives, Crashes, RoundMoves, TaskMoves, TaskArrives, Alone
<1>4. \A q \in Ids : SameRun(q)
  BY DEF Shape, Quiet, RoundArrives, Crashes, RoundMoves, TaskMoves, TaskArrives, Alone, Stays
<1> QED BY <1>1, <1>2, <1>3, <1>4

LEMMA RowsTellHolds ==
  ASSUME TypeOK, TypeOK', RowsTell, Shape
  PROVE  RowsTell'
<1> SUFFICES ASSUME NEW q \in Ids'
             PROVE  /\ run'[q].kind = "hunt_flow" => run'[q].at \in RoundPlaces
                    /\ run'[q].kind = "hunt_task" => run'[q].at \in TaskPlaces
                    /\ run'[q].parent < q
  BY DEF RowsTell
<1>1. CASE q \in Ids
  <2>1. SameRun(q) /\ run[q].parent < q
    BY <1>1, RowsAfter DEF RowsTell
  <2>2. run'[q].parent < q /\ run'[q].kind = run[q].kind
    BY <2>1 DEF SameRun
  <2>3. CASE run'[q].at = run[q].at
    BY <1>1, <2>2, <2>3 DEF RowsTell
  <2>4. CASE run'[q].at # run[q].at
    <3>1. \/ q \in RoundRuns /\ run'[q].at \in LivePlaces \cup {"completed", "failed", "lost"}
          \/ q \in TaskRuns /\ run'[q].at \in TaskPath \cup {"completed", "failed"}
      <4>1. ASSUME Crashes PROVE run'[q].at = "failed" \/ (run'[q].at = "lost" /\ run[q].at = "minting")
        BY <1>1, <2>4, <4>1 DEF Crashes
      <4>2. run[q].kind \in {"hunt_flow", "hunt_task"}
        BY <1>1, IdsAre DEF Rows
      <4>3. run[q].at = "minting" => run[q].kind = "hunt_flow"
        BY <1>1, <4>2 DEF RowsTell, TaskPlaces, TaskPath
      <4>4. CASE Crashes
        BY <1>1, <4>1, <4>2, <4>3, <4>4 DEF RoundRuns, TaskRuns
      <4>5. CASE ~Crashes
        BY <1>1, <2>4, <4>5
           DEF Shape, Quiet, RoundArrives, RoundMoves, TaskMoves, TaskArrives, Alone, Stays, LivePlaces, RoundPath
      <4> QED BY <4>4, <4>5
    <3> QED BY <2>2, <3>1 DEF RoundRuns, TaskRuns, LivePlaces, RoundPlaces, TaskPlaces
  <2> QED BY <2>2, <2>3, <2>4
<1>2. CASE q \notin Ids
  <2>1. q = Len(run) + 1 /\ Len(run') = Len(run) + 1 /\ Len(run) \in Nat
    BY <1>2, RowsAfter
  <2>2. \/ RoundArrives
        \/ \E r \in Ids : TaskArrives(r)
    BY <2>1 DEF Shape, Quiet, Crashes, RoundMoves, TaskMoves, Alone
  <2>3. CASE RoundArrives
    BY <2>1, <2>3 DEF RoundArrives, RoundPlaces
  <2>4. ASSUME NEW r \in Ids, TaskArrives(r)
        PROVE  run'[q].kind = "hunt_task" /\ run'[q].at \in TaskPlaces /\ run'[q].parent < q
    <3>1. r <= Len(run) /\ r \in Nat
      BY IdsAre
    <3> QED BY <2>1, <2>4, <3>1 DEF TaskArrives, TaskPlaces
  <2> QED BY <2>2, <2>3, <2>4
<1> QED BY <1>1, <1>2

\* At most one round lives.
LEMMA OneRoundKept ==
  ASSUME TypeOK, TypeOK', RowsTell, OneRoundLives, Shape
  PROVE  OneRoundLives'
<1> DEFINE Live1(q) == run'[q].at \in LivePlaces
<1>0. /\ \A q \in Ids : q \in Ids' /\ SameRun(q)
      /\ \A q \in Ids' : q \in Ids \/ (q = Len(run) + 1 /\ Len(run') = Len(run) + 1)
      /\ Len(run') = Len(run) => Ids' = Ids
  BY RowsAfter
<1>1. RoundRuns' = {q \in Ids' : run'[q].kind = "hunt_flow"}
  BY DEF RoundRuns
<1>2. \A q \in Ids : q \in RoundRuns' <=> q \in RoundRuns
  BY <1>0, <1>1 DEF RoundRuns, SameRun
<1>3. (\E q \in RoundRuns : run[q].at = "completed" /\ run'[q].at = "completed")
        => \E q \in RoundRuns' : run'[q].at = "completed"
  BY <1>2 DEF RoundRuns
<1>4. ASSUME \A r, s \in RoundRuns' : Live1(r) /\ Live1(s) => r = s,
             \A j, k \in relays' : j = k,
             relays' # {} => \A r \in RoundRuns' : ~Live1(r),
             relays' # {} => \E r \in RoundRuns' : run'[r].at = "completed"
      PROVE  OneRoundLives'
  BY <1>4 DEF OneRoundLives, Live
<1>5. ASSUME Len(run') = Len(run), relays' \subseteq relays,
             \A q \in RoundRuns : Live1(q) => Live(q),
             \A q \in RoundRuns : run[q].at = "completed" => run'[q].at = "completed"
      PROVE  OneRoundLives'
  <2>1. RoundRuns' = RoundRuns
    BY <1>0, <1>2, <1>5 DEF RoundRuns
  <2>2. /\ \A r, s \in RoundRuns : Live(r) /\ Live(s) => r = s
        /\ \A j, k \in relays : j = k
        /\ relays # {} => \A r \in RoundRuns : ~Live(r)
        /\ relays # {} => \E r \in RoundRuns : run[r].at = "completed"
    BY DEF OneRoundLives
  <2> HIDE DEF Live1
  <2> QED BY <1>4, <1>5, <2>1, <2>2
<1>6. CASE Quiet
  BY <1>5, <1>6 DEF Quiet, Stays, RoundRuns, Live
<1>7. CASE Crashes
  <2>1. \A q \in RoundRuns : Live1(q) => Live(q)
    BY <1>7 DEF Crashes, RoundRuns, Live, LivePlaces, Running, RoundPath, TaskPath
  <2>2. \A q \in RoundRuns : run[q].at = "completed" => run'[q].at = "completed"
    BY <1>7 DEF Crashes, RoundRuns, Running, RoundPath, TaskPath
  <2> QED BY <1>5, <1>7, <2>1, <2>2 DEF Crashes
<1>8. ASSUME NEW c \in Ids, TaskMoves(c)
      PROVE  OneRoundLives'
  <2>1. c \notin RoundRuns
    BY <1>8 DEF TaskMoves, TaskRuns, RoundRuns
  <2>2. \A q \in RoundRuns : run'[q].at = run[q].at
    BY <1>8, <2>1 DEF TaskMoves, Alone, Stays, RoundRuns
  <2> QED BY <1>5, <1>8, <2>2 DEF TaskMoves, Alone, Live
<1>9. ASSUME NEW r \in Ids, RoundMoves(r)
      PROVE  OneRoundLives'
  <2>1. /\ r \in RoundRuns /\ Live(r) /\ Len(run') = Len(run)
        /\ \A q \in Ids : q # r => run'[q].at = run[q].at
    BY <1>9 DEF RoundMoves, Alone, Stays
  <2>2. relays = {} /\ \A q \in RoundRuns : q # r => ~Live(q) /\ ~Live1(q)
    BY <2>1 DEF OneRoundLives, Live, RoundRuns
  <2>3. CASE relays' = relays
    BY <1>5, <2>1, <2>2, <2>3 DEF Live, LivePlaces, RoundPath, RoundRuns
  <2>4. CASE run'[r].at = "completed" /\ \E k \in RoundNos : relays' = relays \cup {k}
    <3>1. RoundRuns' = RoundRuns
      BY <1>0, <1>2, <2>1 DEF RoundRuns
    <3>2. ~Live1(r)
      BY <2>4 DEF LivePlaces, RoundPath
    <3> QED BY <1>4, <2>1, <2>2, <2>4, <3>1, <3>2
  <2> QED BY <1>9, <2>3, <2>4 DEF RoundMoves
<1>10. CASE RoundArrives
  <2>1. \A q \in Ids : run'[q].at = run[q].at
    BY <1>10 DEF RoundArrives, Stays
  <2>2. \A q \in RoundRuns : ~Live(q)
    <3>1. CASE \E k \in relays : relays' = relays \ {k}
      BY <3>1 DEF OneRoundLives
    <3>2. CASE \A q \in RoundRuns : run[q].at = "failed"
      BY <3>2 DEF Live, LivePlaces, RoundPath
    <3> QED BY <1>10, <3>1, <3>2 DEF RoundArrives
  <2>3. relays' = {}
    BY <1>10, <2>2 DEF RoundArrives, OneRoundLives, Live
  <2>4. \A q \in RoundRuns' : Live1(q) => q = Len(run) + 1
    BY <1>0, <1>2, <2>1, <2>2 DEF RoundRuns, Live
  <2> QED BY <1>4, <2>3, <2>4
<1>11. ASSUME NEW r \in Ids, TaskArrives(r)
       PROVE  OneRoundLives'
  <2>1. /\ Len(run') = Len(run) + 1 /\ relays' = relays /\ run'[Len(run) + 1].kind = "hunt_task"
        /\ r \in RoundRuns /\ run[r].at = "posting"
        /\ \A q \in Ids : q # r => run'[q].at = run[q].at
    BY <1>11 DEF TaskArrives, Stays
  <2>2. RoundRuns' = RoundRuns
    BY <1>0, <1>1, <1>2, <2>1 DEF RoundRuns
  <2>3. Live(r)
    BY <2>1 DEF Live, LivePlaces, RoundPath
  <2>4. relays = {} /\ \A q \in RoundRuns : q # r => ~Live(q) /\ ~Live1(q)
    BY <2>1, <2>3 DEF OneRoundLives, Live, RoundRuns
  <2> QED BY <1>4, <2>1, <2>2, <2>4
<1> QED BY <1>6, <1>7, <1>8, <1>9, <1>10, <1>11 DEF Shape

\* A round waits for its own and hears of their ends.
LEMMA ChildrenKept ==
  ASSUME TypeOK, TypeOK', RowsTell, ChildrenTold, Shape
  PROVE  ChildrenTold'
<1> DEFINE Child(c, r) == c \in Ids' /\ run'[c].kind = "hunt_task" /\ run'[c].parent = r
           Told(c) == run'[c].at \in {"queued"} \cup TaskPath \/ c \in heard'
<1>0. /\ \A q \in Ids : q \in Ids' /\ SameRun(q)
      /\ \A q \in Ids' : q \in Ids \/ (q = Len(run) + 1 /\ Len(run') = Len(run) + 1)
      /\ Len(run') = Len(run) => Ids' = Ids
      /\ Len(run) \in Nat /\ Ids = 1 .. Len(run)
  BY RowsAfter, IdsAre
<1>1. SUFFICES ASSUME NEW r \in Ids', run'[r].kind = "hunt_flow"
               PROVE  /\ run'[r].at \in Before => \A c \in Ids' : ~Child(c, r)
                      /\ run'[r].at \in Parenting => \A c \in Ids' : Child(c, r) => Told(c)
  BY DEF ChildrenTold, RoundRuns, TaskRuns, Children
<1>2. ASSUME NEW c \in Ids, NEW q \in Ids, Child(c, q)
      PROVE  c \in Children(q)
  BY <1>0, <1>2 DEF Children, TaskRuns, SameRun
<1>3. CASE r \notin Ids
  <2>1. r = Len(run) + 1 /\ Len(run') = Len(run) + 1
    BY <1>0, <1>3
  <2>2. RoundArrives
    BY <1>1, <2>1 DEF Shape, Quiet, Crashes, RoundMoves, TaskMoves, TaskArrives, Alone
  <2>3. run'[r].at = "queued" /\ run'[r].parent = 0
    BY <2>1, <2>2 DEF RoundArrives
  <2>4. ASSUME NEW c \in Ids', Child(c, r) PROVE FALSE
    <3>1. c \in Ids
      BY <1>0, <1>1, <2>1, <2>4
    <3>2. run[c].parent = r /\ run[c].parent < c
      BY <1>0, <2>4, <3>1 DEF SameRun, RowsTell
    <3> QED BY <1>0, <2>1, <3>1, <3>2
  <2> QED BY <2>3, <2>4 DEF Parenting
<1>4. CASE r \in Ids
  <2>0. r \in RoundRuns
    BY <1>0, <1>1, <1>4 DEF RoundRuns, SameRun
  <2>1. /\ run[r].at \in Before => Children(r) = {}
        /\ run[r].at \in Parenting => \A c \in Children(r) : run[c].at \in {"queued"} \cup TaskPath \/ c \in heard
    BY <2>0 DEF ChildrenTold
  <2>2. ASSUME NEW c \in Ids, Child(c, r), ~Crashes, run[c].at \in {"queued"} \cup TaskPath \/ c \in heard
        PROVE  Told(c)
    <3>1. c \notin RoundRuns
      BY <1>0, <2>2 DEF RoundRuns, SameRun
    <3>2. run'[c].at = run[c].at \/ TaskMoves(c)
      BY <2>2, <3>1 DEF Shape, Quiet, RoundArrives, RoundMoves, TaskMoves, TaskArrives, Alone, Stays
    <3>3. heard \subseteq heard'
      BY <2>2 DEF Shape, Quiet, RoundArrives, RoundMoves, TaskMoves, TaskArrives, Alone
    <3> QED BY <2>2, <3>2, <3>3 DEF TaskMoves
  <2>3. CASE Crashes
    <3>1. /\ Len(run') = Len(run)
          /\ run'[r].at = IF Running(r) THEN "failed" ELSE IF run[r].at = "minting" THEN "lost" ELSE run[r].at
      BY <1>4, <2>3 DEF Crashes
    <3>2. run'[r].at \notin Parenting
      BY <3>1 DEF Parenting, Running, RoundPath
    <3>3. run'[r].at \in Before => run[r].at \in Before
      BY <3>1 DEF Before
    <3>4. Ids' = Ids
      BY <1>0, <3>1
    <3> QED BY <1>2, <1>4, <2>1, <3>2, <3>3, <3>4
  <2>4. CASE ~Crashes /\ (Len(run') = Len(run) \/ RoundArrives)
    <3>1. \A c \in Ids' : Child(c, r) => c \in Children(r)
      BY <1>0, <1>2, <1>4, <2>4 DEF RoundArrives
    <3>2. run'[r].at \in Before => run[r].at \in Before
      BY <1>4, <2>0, <2>4
         DEF Shape, Quiet, RoundArrives, RoundMoves, TaskMoves, TaskArrives, Alone, Stays, RoundRuns, TaskRuns
    <3>3. run'[r].at \in Parenting => run[r].at \in Before \cup Parenting
      BY <1>4, <2>0, <2>4
         DEF Shape, Quiet, RoundArrives, RoundMoves, TaskMoves, TaskArrives, Alone, Stays, RoundRuns, TaskRuns
    <3>4. ASSUME run'[r].at \in Parenting, NEW c \in Ids', Child(c, r)
          PROVE  Told(c)
      BY <2>1, <2>2, <2>4, <3>1, <3>3, <3>4 DEF Children, TaskRuns
    <3> QED BY <2>1, <3>1, <3>2, <3>4
  <2>5. ASSUME NEW p \in Ids, TaskArrives(p)
        PROVE  /\ run'[r].at \in Before => \A c \in Ids' : ~Child(c, r)
               /\ run'[r].at \in Parenting => \A c \in Ids' : Child(c, r) => Told(c)
    <3>1. ~Crashes /\ Len(run') = Len(run) + 1
      BY <1>0, <2>5 DEF Crashes, TaskArrives
    <3>2. run'[r].at \in Before \cup Parenting => run'[r].at = run[r].at
      BY <1>4, <2>5 DEF TaskArrives, Stays, Before, Parenting
    <3>3. run'[r].at \in Before => r # p
      BY <2>5 DEF TaskArrives, Before
    <3>4. Told(Len(run) + 1)
      BY <2>5 DEF TaskArrives
    <3>5. Child(Len(run) + 1, r) => r = p
      BY <2>5 DEF TaskArrives
    <3>6. ASSUME NEW c \in Ids', Child(c, r), run'[r].at \in Before PROVE FALSE
      BY <1>0, <1>2, <1>4, <2>1, <3>2, <3>3, <3>5, <3>6 DEF Before, Parenting
    <3>7. ASSUME NEW c \in Ids', Child(c, r), run'[r].at \in Parenting PROVE Told(c)
      BY <1>0, <1>2, <1>4, <2>1, <2>2, <3>1, <3>2, <3>4, <3>7
    <3> QED BY <3>6, <3>7
  <2> QED BY <2>3, <2>4, <2>5 DEF Shape, Quiet, RoundMoves, TaskMoves, Alone
<1> QED BY <1>3, <1>4

LEMMA HuntInvInit == Init => HuntInv
<1> SUFFICES ASSUME Init
             PROVE  HuntInv
  OBVIOUS
<1>1. run = <<>> /\ run \in Seq(Rows) /\ Ids = {}
  BY EmptySeq DEF Init, Ids
<1>2. TypeOK
  BY <1>1, HuntAssumption DEF Init, TypeOK, Statuses, Reasons, RoundKinds
<1>3. RoundRuns = {} /\ relays = {}
  BY <1>1 DEF RoundRuns, Init
<1> QED BY <1>1, <1>2, <1>3 DEF HuntInv, RowsTell, ChildrenTold, OneRoundLives

LEMMA HuntInvStep == HuntInv /\ [Next]_vars => HuntInv'
BY StepShape, RowsTellHolds, OneRoundKept, ChildrenKept DEF HuntInv

\* The hunt keeps its books: rows are where their kind goes, the tasks of a round exist
\* from its posting on and have been heard when they ended, and at most one round is or
\* is to be under way.
THEOREM HuntInvHolds == Spec => []HuntInv
<1>1. Init => HuntInv
  BY HuntInvInit
<1>2. HuntInv /\ [Next]_vars => HuntInv'
  BY HuntInvStep
<1> QED BY <1>1, <1>2, PTL DEF Spec

\* No two rounds of a hypothesis run at the same time, with any number of crashes and
\* lost links.
THEOREM OneRoundAtATimeHolds == Spec => []OneRoundAtATime
<1>1. HuntInv => OneRoundAtATime
  <2>1. ASSUME RowsTell, NEW r \in RoundRuns, Running(r)
        PROVE  Live(r)
    BY <2>1 DEF RowsTell, RoundRuns, RoundPlaces, Running, TaskPath, RoundPath, Live, LivePlaces
  <2> QED BY <2>1 DEF HuntInv, OneRoundLives, OneRoundAtATime
<1> QED BY <1>1, HuntInvHolds, PTL

\* A waiting round waits for a task that has a job or runs, or is woken.
THEOREM NoVainWaitHolds == Spec => []NoVainWait
<1>1. HuntInv => NoVainWait
  BY DEF HuntInv, ChildrenTold, NoVainWait, Parenting, Children
<1> QED BY <1>1, HuntInvHolds, PTL

-----------------------------------------------------------------------------
(* The promise, while at most one crash loses a link                       *)

\* m rounds have been recorded, and none of them had sufficient evidence
Open(m) ==
  /\ m \in 0 .. MaxRounds
  /\ \A j \in RoundNos : (rounds[j] # "none" <=> j <= m)
  /\ \A j \in RoundNos : j <= m => rounds[j] \in {"blank", "insufficient"}

\* the last of k rounds that have been recorded, the others without sufficient evidence
Last(k) ==
  /\ k \in 1 .. MaxRounds
  /\ \A j \in RoundNos : (rounds[j] # "none" <=> j <= k)
  /\ \A j \in RoundNos : j < k => rounds[j] \in {"blank", "insufficient"}

Waiting == {"queued", "minting", "intake"}
AtWork == {"planner", "dispatch", "posting", "spinning", "await", "waiting", "judge", "outcome", "recording"}

\* the number a round that has yet to read it will read
WillBe(r) == IF r \in posted THEN run[r].asked ELSE RoundNo(r)

Prior(k) == IF k = 1 THEN "none" ELSE rounds[k - 1]

\* what the place of a round says of the case backend
Waits(r) == run[r].at \in Waiting => WillBe(r) = 1 \/ (WillBe(r) > 1 /\ Open(WillBe(r) - 1))
Starts(r) == run[r].at = "starting" => hyp.status = "proposed" /\ run[r].no = 1 /\ run[r].prev = "none"
Works(r) ==
  run[r].at \in AtWork =>
    /\ run[r].no \in 1 .. MaxRounds /\ Open(run[r].no - 1) /\ run[r].prev = Prior(run[r].no)
    /\ hyp.status \in {"hunting", "cancelled"}
Spins(r) == run[r].at = "spinning" => run[r].prev \in {"insufficient", "sufficient"}
Judges(r) ==
  run[r].at \in {"outcome", "recording", "closing"} =>
    (run[r].plan = "planned" <=> run[r].judged # "none")
Closes(r) ==
  run[r].at = "closing" =>
    /\ Last(run[r].no) /\ rounds[run[r].no] = RecordAs(r) /\ run[r].prev = Prior(run[r].no)
    /\ hyp.status \in {"hunting", "cancelled"}
Files(r) == run[r].at = "filing" => hyp.status \in {"concluded", "refuted"} /\ cases = 0

RoundTells(r) == Waits(r) /\ Starts(r) /\ Works(r) /\ Spins(r) /\ Judges(r) /\ Closes(r) /\ Files(r)

RoundsTell == \A r \in RoundRuns : RoundTells(r)

\* what the hypothesis and the reasons under way say of the rounds
HypTells ==
  /\ hyp.status = "proposed" => Open(0)
  /\ hyp.status \in {"proposed", "hunting", "cancelled"} => cases = 0
  /\ stopping \in {"none", "budget", "time", "budget_rounds"}
  /\ stopping = "budget_rounds" => \A j \in RoundNos : (rounds[j] # "none" <=> j <= MaxRounds)

RelaysTell == \A k \in relays : k > 1 /\ Open(k - 1)

\* the launcher's books: who is yet to be linked has not started, and before the first
\* crash rounds are numbered as they were launched
PostedTell ==
  /\ \A r \in RoundRuns : run[r].asked > 0
  /\ \A r \in RoundRuns \cap posted : run[r].at \in {"queued", "minting"}
  /\ crashes <= 1

Numbered ==
  crashes = 0 =>
    /\ \A r \in RoundRuns : run[r].linked \/ r \in posted
    /\ RoundRuns # {} => \E r \in RoundRuns : run[r].asked = 1
    /\ \A r \in RoundRuns : Live(r) => run[r].asked = Cardinality(RoundRuns)
    /\ \A r \in RoundRuns : run[r].at \in AtWork \cup {"starting", "closing"} => run[r].no = run[r].asked
    /\ \A k \in relays : k = Cardinality(RoundRuns) + 1

Books == RoundsTell /\ HypTells /\ RelaysTell /\ PostedTell /\ Numbered
PromiseInv == HuntInv /\ Books

\* The number a round will read depends on the links of the others.
LEMMA SameNo ==
  ASSUME RoundRuns' = RoundRuns, NEW r \in RoundRuns, run'[r].asked = run[r].asked,
         \A q \in RoundRuns : run'[q].linked = run[q].linked,
         r \in posted' <=> r \in posted
  PROVE  RoundNo(r)' = RoundNo(r) /\ WillBe(r)' = WillBe(r)
<1>1. {q \in RoundRuns' \ {r} : run'[q].linked} = {q \in RoundRuns \ {r} : run[q].linked}
  OBVIOUS
<1>2. RoundNo(r)' = RoundNo(r)
  BY <1>1 DEF RoundNo
<1> QED BY <1>2 DEF WillBe

\* What a round tells does not depend on others, and survives a cancellation.
LEMMA TellingStays ==
  ASSUME NEW r \in RoundRuns, RoundTells(r), run'[r] = run[r], WillBe(r)' = WillBe(r),
         rounds' = rounds, cases' = cases,
         hyp'.status = hyp.status \/ (hyp.status = "hunting" /\ hyp'.status = "cancelled")
  PROVE  RoundTells(r)'
<1>1. \A m : Open(m)' = Open(m) /\ Last(m)' = Last(m) /\ Prior(m)' = Prior(m)
  BY DEF Open, Last, Prior
<1>2. RecordAs(r)' = RecordAs(r)
  BY DEF RecordAs
<1>3. Waits(r)' /\ Starts(r)' /\ Spins(r)' /\ Judges(r)' /\ Files(r)'
  BY <1>1 DEF RoundTells, Waits, Starts, Spins, Judges, Files
<1>4. Works(r)'
  BY <1>1 DEF RoundTells, Works
<1>5. Closes(r)'
  BY <1>1, <1>2 DEF RoundTells, Closes
<1> QED BY <1>3, <1>4, <1>5 DEF RoundTells

\* Rounds end at most.
LEMMA BooksStay ==
  ASSUME PromiseInv, RoundRuns' = RoundRuns, relays' \subseteq relays,
         UNCHANGED <<rounds, cases, crashes>>, posted' \cap RoundRuns = posted \cap RoundRuns,
         \A r \in RoundRuns : run'[r].linked = run[r].linked /\ run'[r].asked = run[r].asked,
         \A r \in RoundRuns : run'[r] = run[r] \/ (run'[r].at \in {"completed", "failed"} /\ r \notin posted),
         hyp'.status = hyp.status \/ (hyp.status = "hunting" /\ hyp'.status = "cancelled"),
         \/ stopping' \in {stopping, "none", "budget", "time"}
         \/ stopping' = "budget_rounds" /\ \A j \in RoundNos : (rounds[j] # "none" <=> j <= MaxRounds)
  PROVE  Books'
<1>1. \A r \in RoundRuns : WillBe(r)' = WillBe(r)
  BY SameNo
<1>2. RoundsTell'
  <2> SUFFICES ASSUME NEW r \in RoundRuns
               PROVE  RoundTells(r)'
    BY DEF RoundsTell
  <2>1. CASE run'[r] = run[r]
    BY <1>1, <2>1, TellingStays DEF PromiseInv, Books, RoundsTell
  <2>2. CASE run'[r].at \in {"completed", "failed"}
    BY <2>2 DEF RoundTells, Waits, Starts, Works, Spins, Judges, Closes, Files, Waiting, AtWork
  <2> QED BY <2>1, <2>2
<1>3. \A m : Open(m)' = Open(m)
  BY DEF Open
<1>4. HypTells'
  BY <1>3 DEF PromiseInv, Books, HypTells
<1>5. RelaysTell'
  BY <1>3 DEF PromiseInv, Books, RelaysTell
<1>6. PostedTell'
  BY DEF PromiseInv, Books, PostedTell
<1>7. Numbered'
  <2>1. \A r \in RoundRuns : Live(r)' => Live(r)
    BY DEF Live, LivePlaces, RoundPath
  <2>2. \A r \in RoundRuns : run'[r].at \in AtWork \cup {"starting", "closing"} => run'[r] = run[r]
    BY DEF AtWork
  <2> QED BY <2>1, <2>2 DEF PromiseInv, Books, Numbered
<1> QED BY <1>2, <1>4, <1>5, <1>6, <1>7 DEF Books

\* The round that lives goes on.
LEMMA BooksGoOn ==
  ASSUME PromiseInv, NEW r \in RoundRuns, Live(r), OneRow(r), SameRun(r),
         run'[r].linked = run[r].linked, posted' = posted, crashes' = crashes,
         r \in posted => run'[r].at \in {"queued", "minting"},
         RoundTells(r)', HypTells', RelaysTell',
         run'[r].at \in AtWork \cup {"starting", "closing"} /\ crashes = 0 => run'[r].no = run[r].asked,
         crashes = 0 => \A k \in relays' : k = Cardinality(RoundRuns) + 1
  PROVE  Books' /\ RoundRuns' = RoundRuns
<1>1. RoundRuns' = RoundRuns
  BY IdsAre, LenProperties DEF PromiseInv, HuntInv, TypeOK, OneRow, SameRun, RoundRuns, Ids
<1>2. \A q \in RoundRuns : q # r => ~Live(q) /\ run'[q] = run[q]
  BY DEF PromiseInv, HuntInv, OneRoundLives, OneRow, RoundRuns
<1>3. \A q \in RoundRuns : q # r => RoundTells(q)'
  BY <1>2 DEF RoundTells, Waits, Starts, Works, Spins, Judges, Closes, Files, Waiting, AtWork,
              Live, LivePlaces, RoundPath
<1>4. RoundsTell'
  BY <1>1, <1>3 DEF RoundsTell
<1>5. PostedTell'
  BY <1>1, <1>2 DEF PromiseInv, Books, PostedTell, SameRun
<1>6. Numbered'
  BY <1>1, <1>2 DEF PromiseInv, Books, Numbered, SameRun, Live, LivePlaces, RoundPath, AtWork
<1> QED BY <1>1, <1>4, <1>5, <1>6 DEF Books

\* the case backend's part of the promise
pvars == <<hyp, rounds, cases>>
Promised == Promise!Next \/ UNCHANGED pvars

\* A round goes on while the case backend stays.
LEMMA MovesOn ==
  ASSUME PromiseInv, NEW r \in RoundRuns, Live(r), OneRow(r), SameRun(r),
         run'[r].linked = run[r].linked, UNCHANGED Own,
         r \in posted => run'[r].at \in {"queued", "minting"},
         RoundTells(r)',
         run'[r].at \in AtWork \cup {"starting", "closing"} /\ crashes = 0 => run'[r].no = run[r].asked
  PROVE  Books' /\ Promised
<1>1. /\ UNCHANGED <<hyp, rounds, cases, stopping, posted, crashes, relays>>
  BY DEF Own, backend, process, history
<1>2. relays = {}
  BY DEF PromiseInv, HuntInv, OneRoundLives
<1>3. HypTells' /\ RelaysTell'
  BY <1>1, <1>2 DEF PromiseInv, Books, HypTells, RelaysTell, Open
<1>4. Books'
  BY <1>1, <1>2, <1>3, BooksGoOn
<1> QED BY <1>1, <1>4 DEF Promised, pvars

\* What is told of a round at work, and what the next node needs of it.
LEMMA AtWorkTells ==
  ASSUME PromiseInv, NEW r \in RoundRuns, run[r].at \in AtWork
  PROVE  /\ r \notin posted /\ r \in Ids /\ Live(r)
         /\ run[r].no \in 1 .. MaxRounds /\ Open(run[r].no - 1) /\ run[r].prev = Prior(run[r].no)
         /\ hyp.status \in {"hunting", "cancelled"}
         /\ crashes = 0 => run[r].no = run[r].asked
         /\ RoundTells(r)
<1>1. RoundTells(r) /\ r \in Ids
  BY DEF PromiseInv, Books, RoundsTell, RoundRuns
<1>2. r \notin posted
  BY DEF PromiseInv, Books, PostedTell, AtWork
<1>3. Live(r)
  BY DEF Live, LivePlaces, RoundPath, AtWork
<1>4. crashes = 0 => run[r].no = run[r].asked
  BY DEF PromiseInv, Books, Numbered
<1> QED BY <1>1, <1>2, <1>3, <1>4 DEF RoundTells, Works

\* From node to node, at work.
LEMMA WorksOn ==
  ASSUME PromiseInv, NEW r \in RoundRuns, run[r].at \in AtWork, NEW at \in AtWork,
         OneRow(r), SameRun(r), run'[r].at = at, run'[r].linked = run[r].linked,
         run'[r].no = run[r].no, run'[r].prev = run[r].prev, UNCHANGED Own,
         Spins(r)', Judges(r)'
  PROVE  Books' /\ Promised
<1>1. /\ r \notin posted /\ Live(r)
      /\ run[r].no \in 1 .. MaxRounds /\ Open(run[r].no - 1) /\ run[r].prev = Prior(run[r].no)
      /\ hyp.status \in {"hunting", "cancelled"}
      /\ crashes = 0 => run[r].no = run[r].asked
  BY AtWorkTells
<1>2. UNCHANGED <<hyp, rounds>>
  BY DEF Own, backend
<1>3. \A m : Open(m)' = Open(m) /\ Prior(m)' = Prior(m)
  BY <1>2 DEF Open, Prior
<1>4. Works(r)'
  BY <1>1, <1>2, <1>3 DEF Works
<1>5. Waits(r)' /\ Starts(r)' /\ Closes(r)' /\ Files(r)'
  BY DEF Waits, Starts, Closes, Files, AtWork, Waiting
<1>6. RoundTells(r)'
  BY <1>4, <1>5 DEF RoundTells
<1> QED BY <1>1, <1>6, MovesOn

LEMMA GotoWorksOn ==
  ASSUME PromiseInv, NEW r \in RoundRuns, run[r].at \in AtWork, NEW at \in AtWork, Goto(r, at),
         UNCHANGED Own,
         at = "spinning" => run[r].prev \in {"insufficient", "sufficient"},
         at \in {"outcome", "recording"} => run[r].at \in {"outcome", "recording"}
  PROVE  Books' /\ Promised
<1>1. TypeOK /\ r \in Ids /\ at \in Places
  BY DEF PromiseInv, HuntInv, RoundRuns, AtWork, Places, RoundPlaces, RoundPath
<1>2. /\ OneRow(r) /\ SameRun(r) /\ run'[r].at = at
      /\ run'[r].linked = run[r].linked /\ run'[r].no = run[r].no /\ run'[r].prev = run[r].prev
      /\ run'[r].plan = run[r].plan /\ run'[r].judged = run[r].judged
  BY <1>1, RunGoes
<1>3. Spins(r)'
  BY <1>2 DEF Spins
<1>4. Judges(r)'
  <2>1. Judges(r)
    BY AtWorkTells DEF RoundTells
  <2> QED BY <1>2, <2>1 DEF Judges, AtWork
<1> QED BY <1>2, <1>3, <1>4, WorksOn

LEMMA EarlyKeeps ==
  ASSUME PromiseInv, NEW r \in Ids,
         \/ Claim(r) \/ (MintAnswers(r) /\ ~KillOnly(r, "mint_failed"))
  PROVE  Books' /\ Promised
<1>1. r \in RoundRuns /\ run[r].at \in {"queued", "minting"} /\ Live(r) /\ UNCHANGED Own
  BY DEF Claim, MintAnswers, AtNode, Live, LivePlaces
<1>2. PICK at \in {"minting", "intake"} : Goto(r, at) /\ (at = "intake" => r \notin posted)
  BY DEF Claim, MintAnswers
<1>3. TypeOK /\ at \in Places
  BY DEF PromiseInv, HuntInv, Places, RoundPlaces, RoundPath
<1>4. /\ OneRow(r) /\ SameRun(r) /\ run'[r].at = at /\ run'[r].linked = run[r].linked
  BY <1>2, <1>3, RunGoes
<1>5. RoundRuns' = RoundRuns /\ \A q \in RoundRuns : run'[q].linked = run[q].linked
  BY <1>3, <1>4, IdsAre, LenProperties DEF OneRow, SameRun, RoundRuns, Ids
<1>6. UNCHANGED <<posted, rounds>>
  BY <1>1 DEF Own, backend, process
<1>7. WillBe(r)' = WillBe(r)
  BY <1>1, <1>4, <1>5, <1>6, SameNo DEF SameRun
<1>8. Waits(r)
  BY <1>1 DEF PromiseInv, Books, RoundsTell, RoundTells
<1>9. Waits(r)'
  BY <1>1, <1>6, <1>7, <1>8 DEF Waits, Waiting, Open
<1>10. RoundTells(r)'
  BY <1>4, <1>9 DEF RoundTells, Starts, Works, Spins, Judges, Closes, Files, AtWork
<1> QED BY <1>1, <1>2, <1>4, <1>10, MovesOn DEF AtWork

LEMMA SameRounds ==
  ASSUME TypeOK, NEW r \in Ids, OneRow(r), SameRun(r)
  PROVE  RoundRuns' = RoundRuns /\ Ids' = Ids
BY IdsAre, LenProperties DEF OneRow, SameRun, RoundRuns, Ids

\* every round the template allows has been recorded
AllRecorded == \A j \in RoundNos : (rounds[j] # "none" <=> j <= MaxRounds)

LEMMA KillKeeps ==
  ASSUME PromiseInv, NEW r \in Ids, NEW why \in Whys, KillOnly(r, why),
         r \in RoundRuns => r \notin posted, why = "rounds" => AllRecorded
  PROVE  Books' /\ Promised
<1>1. TypeOK
  BY DEF PromiseInv, HuntInv
<1>2. Fails(r, why) /\ UNCHANGED <<hyp, rounds, cases, relays, posted, crashes>>
  BY DEF KillOnly, Kill, Fails, backend
<1>3. OneRow(r) /\ SameRun(r) /\ run'[r].at = "failed" /\ run'[r].linked = run[r].linked
  BY <1>1, <1>2, RunFails
<1>4. RoundRuns' = RoundRuns
  BY <1>1, <1>3, SameRounds
<1>5. \/ stopping' \in {stopping, "none", "budget", "time"}
      \/ stopping' = "budget_rounds" /\ why = "rounds"
  BY DEF KillOnly, Kill, WriteBoard, CancelReasonOf
<1>6. \A q \in RoundRuns : q # r => run'[q] = run[q]
  BY <1>3 DEF OneRow, RoundRuns
<1>7. Books'
  BY <1>2, <1>3, <1>4, <1>5, <1>6, BooksStay DEF AllRecorded, SameRun
<1> QED BY <1>2, <1>7 DEF Promised, pvars

LEMMA KillAtNode ==
  ASSUME PromiseInv, NEW r \in Ids, NEW why \in Whys, KillOnly(r, why), why # "rounds", Running(r)
  PROVE  Books' /\ Promised
<1>1. r \in RoundRuns => r \notin posted
  BY DEF PromiseInv, Books, PostedTell, Running, RoundPath, TaskPath
<1> QED BY <1>1, KillKeeps

\* The last recorded round is the one before the number to come.
LEMMA LastIs ==
  ASSUME NEW m \in Nat, Open(m)
  PROVE  LastRecorded = IF m = 0 THEN "none" ELSE rounds[m]
<1> DEFINE known == {k \in RoundNos : rounds[k] # "none"}
           top == CHOOSE k \in known : \A j \in known : j <= k
<1>0. LastRecorded = IF known = {} THEN "none" ELSE rounds[top]
  BY DEF LastRecorded
<1>1. known = 1 .. m /\ m <= MaxRounds
  BY HuntAssumption DEF Open, RoundNos
<1>2. CASE m = 0
  BY <1>1, <1>2 DEF LastRecorded
<1>3. CASE m # 0
  <2>1. m \in known /\ \A j \in known : j <= m
    BY <1>1, <1>3
  <2>2. top \in known /\ \A j \in known : j <= top
    BY <2>1
  <2>3. top = m
    <3>1. \A k \in 1 .. m : k <= m /\ m <= k => k = m
      OBVIOUS
    <3> HIDE DEF top
    <3> QED BY <1>1, <2>1, <2>2, <3>1
  <2>4. known # {}
    BY <2>1
  <2> HIDE DEF known, top
  <2> QED BY <1>0, <1>3, <2>3, <2>4
<1> QED BY <1>2, <1>3

LEMMA IntakeKeeps ==
  ASSUME PromiseInv, NEW r \in Ids, Intake(r)
  PROVE  Books' /\ Promised
<1> DEFINE k == RoundNo(r)
<1>1. TypeOK /\ r \in RoundRuns /\ run[r].at = "intake" /\ run[r] \in Rows
  BY IdsAre DEF PromiseInv, HuntInv, Intake, Enter, AtNode
<1>2. Live(r) /\ Running(r) /\ r \notin posted
  BY <1>1 DEF Live, Running, LivePlaces, RoundPath, PromiseInv, Books, PostedTell
<1>3. k \in Nat /\ (k = 1 \/ (k > 1 /\ Open(k - 1)))
  <2>1. Waits(r)
    BY <1>1 DEF PromiseInv, Books, RoundsTell, RoundTells
  <2> QED BY <1>1, <1>2, <2>1, RoundNoIs DEF Waits, WillBe, Waiting
<1>4. CASE KillOnly(r, "node_error")
  BY <1>2, <1>4, KillAtNode DEF Whys
<1>5. CASE k > MaxRounds /\ KillOnly(r, "rounds")
  <2>1. Open(k - 1) /\ k - 1 = MaxRounds
    BY <1>3, <1>5, HuntAssumption DEF Open
  <2>2. AllRecorded
    BY <2>1 DEF Open, AllRecorded
  <2> QED BY <1>2, <1>5, <2>2, KillKeeps DEF Whys
<1>6. ASSUME k <= MaxRounds, hyp.status = (IF k = 1 THEN "proposed" ELSE "hunting"), UNCHANGED Own,
             NEW at \in {"starting", "planner"}, at = "starting" <=> k = 1,
             run' = [run EXCEPT ![r].no = k, ![r].prev = LastRecorded, ![r].at = at]
      PROVE  Books' /\ Promised
  <2> DEFINE last == LastRecorded
             row == [run[r] EXCEPT !.no = k, !.prev = last, !.at = at]
  <2>1. k >= 1 /\ k - 1 \in Nat /\ Open(k - 1)
    <3>1. CASE k = 1
      BY <1>6, <3>1 DEF PromiseInv, Books, HypTells
    <3> QED BY <1>3, <3>1
  <2>2. last = Prior(k) /\ last \in RoundKinds
    <3>1. last = IF k - 1 = 0 THEN "none" ELSE rounds[k - 1]
      BY <2>1, LastIs
    <3>2. k # 1 => k - 1 \in RoundNos
      BY <1>3, <1>6, HuntAssumption DEF RoundNos
    <3>3. k # 1 => rounds[k - 1] \in RoundKinds
      BY <1>1, <3>2 DEF TypeOK
    <3> HIDE DEF k, last
    <3> QED BY <1>3, <3>1, <3>3 DEF Prior, RoundKinds
  <2>3. k \in 0 .. MaxRounds
    BY <1>3, <1>6, HuntAssumption
  <2> HIDE DEF k, last
  <2>4. /\ row \in Rows /\ row.at = at /\ row.kind = run[r].kind /\ row.asked = run[r].asked
        /\ row.parent = run[r].parent /\ row.linked = run[r].linked /\ row.no = k /\ row.prev = last
    BY <1>1, <2>2, <2>3 DEF Rows, Places, RoundPlaces, RoundPath
  <2>5. run' = [run EXCEPT ![r] = row]
    BY <1>6 DEF last
  <2> HIDE DEF row
  <2>6. /\ OneRow(r) /\ SameRun(r) /\ run'[r].at = at /\ run'[r].linked = run[r].linked
        /\ run'[r].no = k /\ run'[r].prev = last
    BY <1>1, <2>4, <2>5, RowReplaced DEF SameRun
  <2>7. UNCHANGED <<hyp, rounds>>
    BY <1>6 DEF Own, backend
  <2>8. \A m : Open(m)' = Open(m) /\ Prior(m)' = Prior(m)
    BY <2>7 DEF Open, Prior
  <2>9. Starts(r)'
    BY <1>6, <2>2, <2>6, <2>7 DEF Starts, Prior
  <2>10. Works(r)'
    BY <1>3, <1>6, <2>1, <2>2, <2>3, <2>6, <2>7, <2>8 DEF Works, AtWork
  <2>11. RoundTells(r)'
    BY <2>6, <2>9, <2>10 DEF RoundTells, Waits, Spins, Judges, Closes, Files, Waiting
  <2>12. crashes = 0 => k = run[r].asked
    BY <1>1, <1>2 DEF PromiseInv, Books, Numbered, k, RoundNo
  <2> QED BY <1>2, <1>6, <1>1, <2>6, <2>11, <2>12, MovesOn
<1>7. CASE ~KillOnly(r, "node_error") /\ ~(k > MaxRounds /\ KillOnly(r, "rounds"))
  <2>1. /\ k <= MaxRounds /\ hyp.status = (IF k = 1 THEN "proposed" ELSE "hunting") /\ UNCHANGED Own
        /\ run' = [run EXCEPT ![r].no = k, ![r].prev = LastRecorded,
                              ![r].at = IF k = 1 THEN "starting" ELSE "planner"]
    BY <1>7 DEF Intake
  <2> HIDE DEF k
  <2>2. /\ (IF k = 1 THEN "starting" ELSE "planner") \in {"starting", "planner"}
        /\ (IF k = 1 THEN "starting" ELSE "planner") = "starting" <=> k = 1
    OBVIOUS
  <2> QED BY <1>6, <2>1, <2>2
<1> QED BY <1>4, <1>5, <1>7

\* A round goes to a node while the hypothesis changes.
LEMMA HypGoes ==
  ASSUME PromiseInv, NEW r \in RoundRuns, NEW at \in AtWork \cup {"completed", "filing"},
         run[r].at \in AtWork \cup {"starting", "closing"},
         OneRow(r), SameRun(r), run'[r].at = at, run'[r].linked = run[r].linked, run'[r].no = run[r].no,
         UNCHANGED <<rounds, cases, events, cursor, process, history>>,
         hyp'.status # "proposed", hyp.status \in {"proposed", "hunting", "cancelled"},
         at \in AtWork => Works(r)' /\ Spins(r)' /\ Judges(r)',
         at = "filing" => Files(r)'
  PROVE  Books'
<1>1. UNCHANGED <<rounds, cases, stopping, posted, relays, crashes>>
  BY DEF process, history
<1>2. r \notin posted /\ Live(r)
  BY DEF PromiseInv, Books, PostedTell, AtWork, Live, LivePlaces, RoundPath
<1>3. relays' = {}
  BY <1>1, <1>2 DEF PromiseInv, HuntInv, OneRoundLives
<1>4. HypTells' /\ RelaysTell'
  BY <1>1, <1>3 DEF PromiseInv, Books, HypTells, RelaysTell
<1>5. RoundTells(r)'
  BY DEF RoundTells, Waits, Starts, Works, Spins, Judges, Closes, Files, Waiting, AtWork
<1>6. run'[r].at \in AtWork \cup {"starting", "closing"} /\ crashes = 0 => run'[r].no = run[r].asked
  BY DEF PromiseInv, Books, Numbered
<1> QED BY <1>1, <1>2, <1>3, <1>4, <1>5, <1>6, BooksGoOn

LEMMA StartKeeps ==
  ASSUME PromiseInv, NEW r \in Ids, StartHunting(r)
  PROVE  Books' /\ Promised
<1>1. r \in RoundRuns /\ run[r].at = "starting" /\ TypeOK /\ Running(r)
  BY DEF StartHunting, AtNode, PromiseInv, HuntInv, Running, RoundPath
<1>2. CASE KillOnly(r, "node_error")
  BY <1>1, <1>2, KillAtNode DEF Whys
<1>3. CASE ~KillOnly(r, "node_error")
  <2>1. /\ hyp.status = "proposed" /\ hyp' = [hyp EXCEPT !.status = "hunting"] /\ Goto(r, "planner")
        /\ UNCHANGED <<rounds, cases, events, cursor, process, history>>
    BY <1>3 DEF StartHunting
  <2>2. /\ OneRow(r) /\ SameRun(r) /\ run'[r].at = "planner" /\ run'[r].linked = run[r].linked
        /\ run'[r].no = run[r].no /\ run'[r].prev = run[r].prev
    BY <1>1, <2>1, RunGoes DEF Places, RoundPlaces, RoundPath
  <2>3. run[r].no = 1 /\ run[r].prev = "none" /\ Open(0)
    BY <1>1, <2>1 DEF PromiseInv, Books, RoundsTell, RoundTells, Starts, HypTells
  <2>4. hyp'.status = "hunting"
    BY <1>1, <2>1 DEF TypeOK
  <2>5. Works(r)'
    <3>1. Open(0)' /\ Prior(1)' = "none"
      BY <2>1, <2>3 DEF Open, Prior
    <3> QED BY <2>2, <2>3, <2>4, <3>1, HuntAssumption DEF Works
  <2>6. Spins(r)' /\ Judges(r)'
    BY <2>2 DEF Spins, Judges
  <2>7. Books'
    BY <1>1, <2>1, <2>2, <2>4, <2>5, <2>6, HypGoes DEF AtWork
  <2>8. Promise!Begin
    BY <2>1 DEF Promise!Begin
  <2> QED BY <2>7, <2>8 DEF Promised, Promise!Next
<1> QED BY <1>2, <1>3

LEMMA SpinKeeps ==
  ASSUME PromiseInv, NEW r \in Ids, CancelSpinning(r)
  PROVE  Books' /\ Promised
<1>1. r \in RoundRuns /\ run[r].at = "spinning" /\ TypeOK /\ Running(r) /\ run[r] \in Rows
  BY IdsAre DEF CancelSpinning, AtNode, PromiseInv, HuntInv, Running, RoundPath
<1>2. CASE KillOnly(r, "node_error")
  BY <1>1, <1>2, KillAtNode DEF Whys
<1>3. CASE ~KillOnly(r, "node_error")
  <2>1. /\ hyp.status = "hunting" /\ hyp' = [status |-> "cancelled", reason |-> "spin"]
        /\ run' = [run EXCEPT ![r].at = "await", ![r].plan = "spin"]
        /\ UNCHANGED <<rounds, cases, events, cursor, process, history>>
    BY <1>3 DEF CancelSpinning
  <2> DEFINE row == [run[r] EXCEPT !.at = "await", !.plan = "spin"]
  <2>2. /\ row \in Rows /\ row.at = "await" /\ row.kind = run[r].kind /\ row.asked = run[r].asked
        /\ row.parent = run[r].parent /\ row.linked = run[r].linked /\ row.no = run[r].no
        /\ row.prev = run[r].prev
    BY <1>1 DEF Rows, Places, RoundPlaces, RoundPath, Plans
  <2>3. run' = [run EXCEPT ![r] = row]
    BY <2>1
  <2> HIDE DEF row
  <2>4. /\ OneRow(r) /\ SameRun(r) /\ run'[r].at = "await" /\ run'[r].linked = run[r].linked
        /\ run'[r].no = run[r].no /\ run'[r].prev = run[r].prev
    BY <1>1, <2>2, <2>3, RowReplaced DEF SameRun, RoundRuns
  <2> DEFINE n == run[r].no
  <2>5. n \in 1 .. MaxRounds /\ Open(n - 1) /\ run[r].prev = Prior(n)
    BY <1>1, AtWorkTells DEF AtWork
  <2>6. Works(r)'
    <3>1. \A m : Open(m)' = Open(m) /\ Prior(m)' = Prior(m)
      BY <2>1 DEF Open, Prior
    <3> QED BY <2>1, <2>4, <2>5, <3>1 DEF Works
  <2>7. Spins(r)' /\ Judges(r)'
    BY <2>4 DEF Spins, Judges
  <2>8. Books'
    BY <1>1, <2>1, <2>4, <2>6, <2>7, HypGoes DEF AtWork
  <2>9. n - 1 \in RoundNos /\ rounds[n - 1] = "insufficient"
    <3>1. run[r].prev \in {"insufficient", "sufficient"}
      BY <1>1 DEF PromiseInv, Books, RoundsTell, RoundTells, Spins
    <3>2. n # 1 /\ rounds[n - 1] \in {"insufficient", "sufficient"}
      BY <2>5, <3>1 DEF Prior
    <3>3. n - 1 \in RoundNos
      BY <2>5, <3>2, HuntAssumption DEF RoundNos
    <3> QED BY <2>5, <3>2, <3>3, HuntAssumption DEF Open
  <2>10. Promise!LastRound(n - 1)
    BY <2>5, <2>9 DEF Promise!LastRound, Open
  <2>11. Promise!Cancel("spin")
    BY <2>1, <2>9, <2>10 DEF Promise!Cancel
  <2> QED BY <2>8, <2>11 DEF Promised, Promise!Next
<1> QED BY <1>2, <1>3

LEMMA WorkKeeps ==
  ASSUME PromiseInv, NEW r \in Ids,
         Plan(r) \/ Dispatch(r) \/ Dispatched(r) \/ Await(r) \/ Wake(r) \/ Judge(r) \/ Outcome(r)
  PROVE  Books' /\ Promised
<1> USE DEF AtWork
<1>0. /\ r \in RoundRuns /\ run[r].at \in AtWork /\ UNCHANGED Own /\ TypeOK /\ run[r] \in Rows
      /\ (Plan(r) => run[r].at = "planner") /\ (Judge(r) => run[r].at = "judge")
      /\ (Outcome(r) => run[r].at = "outcome")
  BY IdsAre DEF Plan, Dispatch, Dispatched, Await, Wake, Judge, Outcome, Enter, AtNode, PromiseInv, HuntInv
<1>1. CASE Plan(r)
  <2>1. PICK plan \in {"planned", "planner_failed"} : run' = [run EXCEPT ![r].at = "dispatch", ![r].plan = plan]
    BY <1>1 DEF Plan
  <2> DEFINE row == [run[r] EXCEPT !.at = "dispatch", !.plan = plan]
  <2>2. /\ row \in Rows /\ row.at = "dispatch" /\ row.kind = run[r].kind /\ row.asked = run[r].asked
        /\ row.parent = run[r].parent /\ row.linked = run[r].linked /\ row.no = run[r].no
        /\ row.prev = run[r].prev
    BY <1>0, <2>1 DEF Rows, Places, RoundPlaces, RoundPath, Plans
  <2>3. run' = [run EXCEPT ![r] = row]
    BY <2>1
  <2> HIDE DEF row
  <2>4. /\ OneRow(r) /\ SameRun(r) /\ run'[r].at = "dispatch" /\ run'[r].linked = run[r].linked
        /\ run'[r].no = run[r].no /\ run'[r].prev = run[r].prev
    BY <1>0, <2>2, <2>3, RowReplaced DEF SameRun, RoundRuns
  <2>5. Spins(r)' /\ Judges(r)'
    BY <2>4 DEF Spins, Judges
  <2> QED BY <1>0, <2>4, <2>5, WorksOn
<1>2. CASE Dispatch(r)
  <2>1. PICK at \in {"await", "posting", "spinning"} :
          Goto(r, at) /\ (at = "spinning" => run[r].prev \in {"insufficient", "sufficient"})
    BY <1>2 DEF Dispatch
  <2> QED BY <1>0, <2>1, GotoWorksOn
<1>3. CASE Dispatched(r) \/ Await(r) \/ Wake(r)
  <2>1. PICK at \in {"await", "waiting", "judge"} : Goto(r, at)
    BY <1>3 DEF Dispatched, Await, Wake
  <2> QED BY <1>0, <2>1, GotoWorksOn
<1>4. CASE Judge(r)
  <2>1. PICK v \in Verdicts : /\ run' = [run EXCEPT ![r].at = "outcome", ![r].judged = v]
                              /\ run[r].plan = "planned" <=> v # "none"
    BY <1>4 DEF Judge, Verdicts
  <2> DEFINE row == [run[r] EXCEPT !.at = "outcome", !.judged = v]
  <2>2. /\ row \in Rows /\ row.at = "outcome" /\ row.kind = run[r].kind /\ row.asked = run[r].asked
        /\ row.parent = run[r].parent /\ row.linked = run[r].linked /\ row.no = run[r].no
        /\ row.prev = run[r].prev /\ row.judged = v /\ row.plan = run[r].plan
    BY <1>0, <2>1 DEF Rows, Places, RoundPlaces, RoundPath
  <2>3. run' = [run EXCEPT ![r] = row]
    BY <2>1
  <2> HIDE DEF row
  <2>4. /\ OneRow(r) /\ SameRun(r) /\ run'[r].at = "outcome" /\ run'[r].linked = run[r].linked
        /\ run'[r].no = run[r].no /\ run'[r].prev = run[r].prev /\ run'[r].judged = v
        /\ run'[r].plan = run[r].plan
    BY <1>0, <2>2, <2>3, RowReplaced DEF SameRun, RoundRuns
  <2>5. Spins(r)' /\ Judges(r)'
    BY <2>1, <2>4 DEF Spins, Judges
  <2> QED BY <1>0, <2>4, <2>5, WorksOn
<1>5. CASE Outcome(r)
  <2>1. Goto(r, "recording")
    BY <1>5 DEF Outcome
  <2> QED BY <1>0, <1>5, <2>1, GotoWorksOn
<1> QED BY <1>1, <1>2, <1>3, <1>4, <1>5

LEMMA RecordKeeps ==
  ASSUME PromiseInv, NEW r \in Ids, RecordRound(r)
  PROVE  Books' /\ Promised
<1> DEFINE n == run[r].no
           kind == RecordAs(r)
<1>1. /\ r \in RoundRuns /\ run[r].at = "recording" /\ TypeOK
      /\ Goto(r, "closing") /\ rounds' = [rounds EXCEPT ![n] = kind]
      /\ UNCHANGED <<hyp, cases, events, cursor, process, history>>
  BY DEF RecordRound, AtNode, PromiseInv, HuntInv
<1>2. /\ OneRow(r) /\ SameRun(r) /\ run'[r].at = "closing" /\ run'[r].linked = run[r].linked
      /\ run'[r].no = n /\ run'[r].prev = run[r].prev
      /\ run'[r].plan = run[r].plan /\ run'[r].judged = run[r].judged
  BY <1>1, RunGoes DEF Places, RoundPlaces, RoundPath
<1>3. /\ r \notin posted /\ Live(r) /\ n \in 1 .. MaxRounds /\ Open(n - 1) /\ run[r].prev = Prior(n)
      /\ hyp.status \in {"hunting", "cancelled"}
      /\ crashes = 0 => n = run[r].asked
  BY <1>1, AtWorkTells DEF AtWork
<1>4. Judges(r)
  BY <1>1, AtWorkTells DEF AtWork, RoundTells
<1>5. kind \in {"blank", "insufficient", "sufficient"} /\ RecordAs(r)' = kind
  BY <1>2 DEF RecordAs
<1>6. n \in RoundNos /\ rounds' \in [RoundNos -> RoundKinds] /\ n - 1 \in Nat /\ MaxRounds \in Nat
  BY <1>1, <1>3, <1>5, HuntAssumption DEF RoundNos, TypeOK, RoundKinds
<1> HIDE DEF kind, n
<1>7. rounds'[n] = kind /\ \A j \in RoundNos : j # n => rounds'[j] = rounds[j]
  BY <1>1, <1>6 DEF TypeOK
<1>8. RoundNos \subseteq Nat
  BY DEF RoundNos
<1>9. Last(n)'
  <2>1. \A j \in RoundNos : (rounds'[j] # "none" <=> j <= n)
    BY <1>3, <1>5, <1>6, <1>7, <1>8 DEF Open
  <2>2. \A j \in RoundNos : j < n => rounds'[j] \in {"blank", "insufficient"}
    <3> SUFFICES ASSUME NEW j \in RoundNos, j < n
                 PROVE  rounds'[j] \in {"blank", "insufficient"}
      OBVIOUS
    <3>1. j \in Nat /\ j <= n - 1 /\ j # n
      BY <1>3, <1>6, <1>8
    <3>2. rounds[j] \in {"blank", "insufficient"}
      BY <1>3, <3>1 DEF Open
    <3> QED BY <1>7, <3>1, <3>2
  <2>3. n' = n
    BY <1>2 DEF n
  <2> QED BY <1>3, <2>1, <2>2, <2>3 DEF Last
<1>10. Prior(n)' = Prior(n)
  <2>1. n' = n
    BY <1>2 DEF n
  <2>2. n # 1 => n - 1 \in RoundNos /\ n - 1 # n
    BY <1>3, <1>6, HuntAssumption DEF RoundNos
  <2> QED BY <1>7, <2>1, <2>2 DEF Prior
<1>11. n' = n /\ UNCHANGED <<stopping, posted, relays, crashes>>
  BY <1>1, <1>2 DEF n, process, history
<1>12. Closes(r)'
  BY <1>1, <1>2, <1>3, <1>5, <1>7, <1>9, <1>10, <1>11 DEF Closes, n
<1>13. RoundTells(r)'
  <2>1. Judges(r)'
    BY <1>1, <1>2, <1>4 DEF Judges
  <2> QED BY <1>2, <1>12, <2>1 DEF RoundTells, Waits, Starts, Works, Spins, Files, Waiting, AtWork
<1>14. relays' = {}
  BY <1>1, <1>3, <1>11 DEF PromiseInv, HuntInv, OneRoundLives
<1>15. HypTells'
  <2>1. stopping # "budget_rounds"
    BY <1>3, <1>6, <1>8 DEF PromiseInv, Books, HypTells, Open
  <2> QED BY <1>1, <1>3, <1>11, <2>1 DEF PromiseInv, Books, HypTells
<1>16. Books'
  BY <1>1, <1>2, <1>3, <1>11, <1>13, <1>14, <1>15, BooksGoOn DEF RelaysTell, n
<1>17. Promise!Record(n, kind)
  BY <1>1, <1>3, <1>5, <1>6, <1>8 DEF Promise!Record, Open
<1> QED BY <1>5, <1>6, <1>16, <1>17 DEF Promised, Promise!Next

LEMMA ClosingTells ==
  ASSUME PromiseInv, NEW r \in RoundRuns, run[r].at = "closing"
  PROVE  /\ r \notin posted /\ Live(r) /\ r \in Ids /\ Last(run[r].no) /\ rounds[run[r].no] = RecordAs(r)
         /\ run[r].prev = Prior(run[r].no) /\ hyp.status \in {"hunting", "cancelled"}
         /\ (run[r].plan = "planned" <=> run[r].judged # "none")
         /\ crashes = 0 => run[r].no = run[r].asked /\ run[r].asked = Cardinality(RoundRuns)
<1>1. Live(r) /\ r \in Ids
  BY DEF Live, LivePlaces, RoundPath, RoundRuns
<1>2. RoundTells(r)
  BY DEF PromiseInv, Books, RoundsTell
<1>3. r \notin posted
  BY DEF PromiseInv, Books, PostedTell
<1>4. crashes = 0 => run[r].no = run[r].asked /\ run[r].asked = Cardinality(RoundRuns)
  BY <1>1 DEF PromiseInv, Books, Numbered
<1> QED BY <1>1, <1>2, <1>3, <1>4 DEF RoundTells, Judges, Closes

LEMMA RelayKeeps ==
  ASSUME PromiseInv, NEW r \in Ids, Relay(r) \/ CloseSpun(r)
  PROVE  Books' /\ Promised
<1> DEFINE n == run[r].no
<1>1. /\ r \in RoundRuns /\ run[r].at = "closing" /\ TypeOK
      /\ Goto(r, "completed") /\ (CloseSpun(r) \/ Relayed(r))
      /\ UNCHANGED <<hyp, rounds, cases, posted, stopping, crashes>>
      /\ relays' = relays \/ (relays' = relays \cup {n + 1} /\ Relayed(r))
  BY DEF Relay, CloseSpun, AtNode, PromiseInv, HuntInv, Own, backend, process, history
<1>2. /\ OneRow(r) /\ SameRun(r) /\ run'[r].at = "completed" /\ run'[r].linked = run[r].linked
  BY <1>1, RunGoes DEF Places, RoundPlaces
<1>3. /\ r \notin posted /\ Live(r) /\ Last(n) /\ rounds[n] = RecordAs(r)
      /\ (run[r].plan = "planned" <=> run[r].judged # "none")
      /\ crashes = 0 => n = Cardinality(RoundRuns)
  BY <1>1, ClosingTells
<1>4. relays = {}
  BY <1>1, <1>3 DEF PromiseInv, HuntInv, OneRoundLives
<1>5. Relayed(r) => Open(n)
  <2>1. Relayed(r) => rounds[n] \in {"blank", "insufficient"}
    BY <1>3 DEF Relayed, RecordAs
  <2>2. RoundNos \subseteq Nat /\ n \in Nat
    BY <1>3 DEF RoundNos, Last
  <2> HIDE DEF n
  <2> QED BY <1>3, <2>1, <2>2 DEF Last, Open
<1>6. n \in 1 .. MaxRounds
  BY <1>3 DEF Last
<1> HIDE DEF n
<1>7. RelaysTell'
  <2>1. \A m : Open(m)' = Open(m)
    BY <1>1 DEF Open
  <2>2. \A k \in relays' : k = n + 1 /\ Relayed(r)
    BY <1>1, <1>4
  <2>3. \A k \in relays' : k > 1 /\ k - 1 = n /\ Open(n)
    BY <1>5, <1>6, <2>2
  <2> QED BY <2>1, <2>3 DEF RelaysTell
<1>8. HypTells'
  BY <1>1 DEF PromiseInv, Books, HypTells, Open
<1>9. RoundTells(r)'
  BY <1>2 DEF RoundTells, Waits, Starts, Works, Spins, Judges, Closes, Files, Waiting, AtWork
<1>10. crashes = 0 => \A k \in relays' : k = Cardinality(RoundRuns) + 1
  BY <1>1, <1>3, <1>4
<1>11. Books'
  BY <1>1, <1>2, <1>3, <1>7, <1>8, <1>9, <1>10, BooksGoOn DEF AtWork
<1> QED BY <1>1, <1>11 DEF Promised, pvars

LEMMA BrokenKeeps ==
  ASSUME PromiseInv, NEW r \in Ids, CloseBroken(r)
  PROVE  Books' /\ Promised
<1> DEFINE n == run[r].no
<1>1. r \in RoundRuns /\ run[r].at = "closing" /\ TypeOK /\ Running(r) /\ Broken(r)
  BY DEF CloseBroken, AtNode, PromiseInv, HuntInv, Running, RoundPath
<1>2. CASE KillOnly(r, "node_error")
  BY <1>1, <1>2, KillAtNode DEF Whys
<1>3. CASE ~KillOnly(r, "node_error")
  <2>1. /\ hyp.status = "hunting" /\ hyp' = [status |-> "cancelled", reason |-> "planner_broken"]
        /\ Goto(r, "completed") /\ UNCHANGED <<rounds, cases, events, cursor, process, history>>
    BY <1>3 DEF CloseBroken
  <2>2. /\ OneRow(r) /\ SameRun(r) /\ run'[r].at = "completed" /\ run'[r].linked = run[r].linked
        /\ run'[r].no = n
    BY <1>1, <2>1, RunGoes DEF Places, RoundPlaces
  <2>3. Books'
    BY <1>1, <2>1, <2>2, HypGoes DEF AtWork
  <2>4. /\ Last(n) /\ rounds[n] = RecordAs(r) /\ run[r].prev = Prior(n)
        /\ (run[r].plan = "planned" <=> run[r].judged # "none")
    BY <1>1, ClosingTells
  <2>5. n \in RoundNos /\ rounds[n] = "blank" /\ n - 1 \in RoundNos /\ rounds[n - 1] = "blank"
    <3>1. run[r].judged = "none" /\ run[r].prev = "blank"
      BY <1>1, <2>4 DEF Broken
    <3>2. n # 1 /\ rounds[n - 1] = "blank" /\ rounds[n] = "blank"
      BY <2>4, <3>1 DEF Prior, RecordAs
    <3>3. n \in 1 .. MaxRounds
      BY <2>4 DEF Last
    <3> QED BY <3>2, <3>3, HuntAssumption DEF RoundNos
  <2>6. Promise!LastRound(n)
    BY <2>4, <2>5 DEF Promise!LastRound, Last
  <2>7. Promise!Cancel("planner_broken")
    BY <2>1, <2>5, <2>6 DEF Promise!Cancel, Promise!Recorded
  <2> QED BY <2>3, <2>7 DEF Promised, Promise!Next
<1> QED BY <1>2, <1>3

LEMMA ConvergeKeeps ==
  ASSUME PromiseInv, NEW r \in Ids, Converge(r)
  PROVE  Books' /\ Promised
<1> DEFINE n == run[r].no
<1>1. r \in RoundRuns /\ run[r].at = "closing" /\ TypeOK /\ Running(r) /\ run[r].judged \in {"hit", "miss"}
  BY DEF Converge, AtNode, PromiseInv, HuntInv, Running, RoundPath
<1>2. CASE KillOnly(r, "node_error")
  BY <1>1, <1>2, KillAtNode DEF Whys
<1>3. CASE ~KillOnly(r, "node_error")
  <2>1. PICK s \in {"concluded", "refuted"} : hyp' = [hyp EXCEPT !.status = s]
    BY <1>3 DEF Converge
  <2>2. /\ hyp.status = "hunting" /\ Goto(r, "filing")
        /\ UNCHANGED <<rounds, cases, events, cursor, process, history>>
    BY <1>3 DEF Converge
  <2>3. /\ OneRow(r) /\ SameRun(r) /\ run'[r].at = "filing" /\ run'[r].linked = run[r].linked
        /\ run'[r].no = n
    BY <1>1, <2>2, RunGoes DEF Places, RoundPlaces, RoundPath
  <2>4. hyp'.status = s
    BY <1>1, <2>1 DEF TypeOK
  <2>5. cases = 0
    BY <2>2 DEF PromiseInv, Books, HypTells
  <2>6. Files(r)'
    BY <2>1, <2>2, <2>4, <2>5 DEF Files
  <2>7. Books'
    <3>1. UNCHANGED <<rounds, cases, stopping, posted, relays, crashes>>
      BY <2>2 DEF process, history
    <3>2. r \notin posted /\ Live(r)
      BY <1>1, ClosingTells
    <3>3. relays' = {}
      BY <1>1, <3>1, <3>2 DEF PromiseInv, HuntInv, OneRoundLives
    <3>4. HypTells' /\ RelaysTell'
      BY <2>1, <2>4, <3>1, <3>3 DEF PromiseInv, Books, HypTells, RelaysTell
    <3>5. RoundTells(r)'
      BY <2>3, <2>6 DEF RoundTells, Waits, Starts, Works, Spins, Judges, Closes, Waiting, AtWork
    <3> QED BY <2>3, <3>1, <3>2, <3>3, <3>4, <3>5, <1>1, BooksGoOn DEF AtWork
  <2>8. Last(n) /\ rounds[n] = "sufficient"
    BY <1>1, ClosingTells DEF RecordAs
  <2>9. n \in RoundNos /\ Promise!LastRound(n)
    BY <2>8, HuntAssumption DEF Last, RoundNos, Promise!LastRound
  <2>10. Promise!Conclude(s)
    BY <2>1, <2>2, <2>8, <2>9 DEF Promise!Conclude
  <2> QED BY <2>1, <2>7, <2>10 DEF Promised, Promise!Next
<1> QED BY <1>2, <1>3

LEMMA FileKeeps ==
  ASSUME PromiseInv, NEW r \in Ids, FileCase(r)
  PROVE  Books' /\ Promised
<1>1. /\ r \in RoundRuns /\ run[r].at = "filing" /\ TypeOK /\ cases' = cases + 1
      /\ UNCHANGED <<hyp, rounds, relays, posted, stopping, crashes>>
  BY DEF FileCase, AtNode, PromiseInv, HuntInv, history
<1>2. PICK at \in {"completed", "failed"} :
        OneRow(r) /\ SameRun(r) /\ run'[r].at = at /\ run'[r].linked = run[r].linked
  <2>1. CASE Goto(r, "completed")
    BY <1>1, <2>1, RunGoes DEF Places, RoundPlaces
  <2>2. CASE Fails(r, "node_error")
    BY <1>1, <2>2, RunFails DEF Whys
  <2> QED BY <2>1, <2>2 DEF FileCase, Fails
<1>3. r \notin posted /\ Live(r)
  BY <1>1 DEF PromiseInv, Books, PostedTell, Live, LivePlaces, RoundPath
<1>4. relays' = {}
  BY <1>1, <1>3 DEF PromiseInv, HuntInv, OneRoundLives
<1>5. hyp.status \in {"concluded", "refuted"} /\ cases = 0
  BY <1>1 DEF PromiseInv, Books, RoundsTell, RoundTells, Files
<1>6. HypTells' /\ RelaysTell'
  BY <1>1, <1>4, <1>5 DEF PromiseInv, Books, HypTells, RelaysTell
<1>7. RoundTells(r)'
  BY <1>2 DEF RoundTells, Waits, Starts, Works, Spins, Judges, Closes, Files, Waiting, AtWork
<1>8. Books'
  BY <1>1, <1>2, <1>3, <1>4, <1>6, <1>7, BooksGoOn DEF AtWork
<1>9. Promise!File
  BY <1>1, <1>5 DEF Promise!File
<1> QED BY <1>8, <1>9 DEF Promised, Promise!Next

\* The rows of rounds stay, and so does what else the promise reads.
LEMMA RestStays ==
  ASSUME PromiseInv, RoundRuns' = RoundRuns, relays' \subseteq relays,
         UNCHANGED <<hyp, rounds, cases, crashes, stopping>>, posted' \cap RoundRuns = posted \cap RoundRuns,
         \A r \in RoundRuns : run'[r] = run[r]
  PROVE  Books' /\ Promised
<1>1. Books'
  BY BooksStay
<1> QED BY <1>1 DEF Promised, pvars

LEMMA TaskRowKeeps ==
  ASSUME PromiseInv, NEW c \in TaskRuns, OneRow(c), SameRun(c), relays' = relays,
         UNCHANGED <<hyp, rounds, cases, crashes, stopping>>, posted' \in {posted, posted \ {c}}
  PROVE  Books' /\ Promised
<1>1. TypeOK /\ c \in Ids /\ c \notin RoundRuns
  BY DEF PromiseInv, HuntInv, TaskRuns, RoundRuns
<1>2. RoundRuns' = RoundRuns
  BY <1>1, SameRounds
<1>3. \A r \in RoundRuns : run'[r] = run[r]
  BY <1>1 DEF OneRow, RoundRuns
<1>4. posted' \cap RoundRuns = posted \cap RoundRuns
  BY <1>1
<1> QED BY <1>2, <1>3, <1>4, RestStays

LEMMA TaskKeeps ==
  ASSUME PromiseInv, NEW c \in Ids, TaskStep(c)
  PROVE  Books' /\ Promised
<1>1. TypeOK /\ c \in TaskRuns
  BY DEF PromiseInv, HuntInv, TaskStep, StartTask, TaskIntake, TaskNode, Report, TaskAt
<1>2. CASE KillOnly(c, "node_error")
  <2>1. c \notin RoundRuns
    BY <1>1 DEF TaskRuns, RoundRuns
  <2> QED BY <1>2, <2>1, KillKeeps DEF Whys
<1>3. CASE ~KillOnly(c, "node_error")
  <2>1. PICK at \in TaskPath \cup {"completed"} : Goto(c, at)
    BY <1>3 DEF TaskStep, StartTask, TaskIntake, TaskNode, Report, TaskPath
  <2>2. UNCHANGED <<hyp, rounds, cases, crashes, stopping, posted, relays>>
    BY <1>3 DEF TaskStep, StartTask, TaskIntake, TaskNode, Report, Own, backend, process, history
  <2>3. OneRow(c) /\ SameRun(c)
    BY <1>1, <2>1, RunGoes DEF Places, RoundPlaces, TaskPlaces
  <2> QED BY <1>1, <2>2, <2>3, TaskRowKeeps
<1> QED BY <1>2, <1>3

LEMMA PostTaskKeeps ==
  ASSUME PromiseInv, NEW r \in Ids, PostTask(r)
  PROVE  Books' /\ Promised
<1>1. /\ TypeOK /\ r \in RoundRuns /\ Post("hunt_task", run[r].no, r)
      /\ UNCHANGED <<hyp, rounds, cases, relays, stopping, crashes>>
  BY DEF PostTask, AtNode, PromiseInv, HuntInv, backend, history
<1>2. run[r].no \in 0 .. MaxRounds + 1 /\ r \in Nat /\ Len(run) \in Nat /\ Ids = 1 .. Len(run)
  BY <1>1, IdsAre, HuntAssumption DEF Rows
<1>3. Arrives(Row("hunt_task", run[r].no, r)) /\ posted' = posted \cup {Len(run) + 1}
  BY <1>1, <1>2, RowArrives
<1>4. run'[Len(run) + 1].kind = "hunt_task" /\ DOMAIN run' = 1 .. Len(run) + 1
      /\ \A q \in Ids : run'[q] = run[q]
  BY <1>3, LenProperties DEF Arrives, Row
<1>5. RoundRuns' = RoundRuns
  BY <1>2, <1>4 DEF RoundRuns, Ids
<1>6. posted' \cap RoundRuns = posted \cap RoundRuns /\ \A q \in RoundRuns : run'[q] = run[q]
  BY <1>2, <1>3, <1>4 DEF RoundRuns
<1> QED BY <1>1, <1>5, <1>6, RestStays

LEMMA RefusedKeeps ==
  ASSUME PromiseInv, NEW r \in Ids, TaskRefused(r)
  PROVE  Books' /\ Promised
<1> DEFINE killed == [run EXCEPT ![r].at = "failed", ![r].fail = "node_error"]
           mine == [run[r] EXCEPT !.at = "failed", !.fail = "node_error"]
           row == Row("hunt_task", run[r].no, r)
           new == [row EXCEPT !.at = "failed", !.fail = "mint_failed"]
<1>1. /\ TypeOK /\ r \in RoundRuns /\ run[r].at = "posting" /\ run' = Append(killed, new)
      /\ UNCHANGED <<hyp, rounds, cases, relays, posted, stopping, crashes>>
  BY DEF TaskRefused, AtNode, PromiseInv, HuntInv, backend, history
<1>2. run[r] \in Rows /\ r \in Nat /\ Len(run) \in Nat /\ Ids = 1 .. Len(run) /\ run \in Seq(Rows)
      /\ DOMAIN run = 1 .. Len(run)
  BY <1>1, IdsAre DEF TypeOK, Ids
<1>3. run[r].no \in 0 .. MaxRounds
  BY <1>2 DEF Rows
<1>4. mine \in Rows /\ mine.kind = run[r].kind /\ mine.asked = run[r].asked
      /\ mine.linked = run[r].linked /\ mine.at = "failed"
  BY <1>2 DEF Rows, Places, RoundPlaces, Whys
<1>5. row \in Rows /\ row.kind = "hunt_task"
  BY <1>2, <1>3, HuntAssumption DEF Row, Rows, Places, RoundPlaces, Whys, RoundKinds, Plans, Verdicts
<1> HIDE DEF row
<1>6. new \in Rows /\ new.kind = "hunt_task"
  BY <1>5 DEF Rows, Places, RoundPlaces, Whys
<1>7. killed = [run EXCEPT ![r] = mine]
  OBVIOUS
<1> HIDE DEF killed, mine, new
<1>8. /\ killed \in Seq(Rows) /\ Len(killed) = Len(run) /\ killed[r] = mine
      /\ \A q \in Ids : q # r => killed[q] = run[q]
  BY <1>2, <1>4, <1>7, ExceptSeq
<1>9. /\ run' \in Seq(Rows) /\ Len(run') = Len(run) + 1 /\ run'[Len(run) + 1] = new
      /\ \A q \in Ids : run'[q] = killed[q]
  BY <1>1, <1>2, <1>6, <1>8, AppendProperties
<1>10. Ids' = 1 .. Len(run) + 1
  BY <1>9, LenProperties DEF Ids
<1>11. \A q \in Ids : run'[q].kind = run[q].kind
  BY <1>4, <1>8, <1>9
<1>12. RoundRuns' = RoundRuns
  BY <1>2, <1>6, <1>9, <1>10, <1>11 DEF RoundRuns
<1>13. r \notin posted
  BY <1>1 DEF PromiseInv, Books, PostedTell
<1>14. /\ \A q \in RoundRuns : run'[q].linked = run[q].linked /\ run'[q].asked = run[q].asked
       /\ \A q \in RoundRuns : run'[q] = run[q] \/ (run'[q].at \in {"completed", "failed"} /\ q \notin posted)
  BY <1>4, <1>8, <1>9, <1>13 DEF RoundRuns
<1>15. Books'
  BY <1>1, <1>12, <1>14, BooksStay
<1> QED BY <1>1, <1>15 DEF Promised, pvars

LEMMA FailingKeeps ==
  ASSUME PromiseInv, NEW r \in Ids, StopAtNode(r) \/ Failing(r)
  PROVE  Books' /\ Promised
<1>1. CASE StopAtNode(r)
  <2>1. Running(r)
    BY <1>1 DEF StopAtNode, Running, RoundPath, TaskPath
  <2> QED BY <1>1, <2>1, KillAtNode DEF StopAtNode, Whys
<1>2. CASE NodeThrows(r)
  BY <1>2, KillAtNode DEF NodeThrows, Whys
<1>3. ASSUME NEW kind \in Overspends, Overspend(r, kind)
      PROVE  Books' /\ Promised
  <2>1. Running(r)
    BY <1>3 DEF Overspend, Running, RoundPath
  <2>2. kind \in Whys /\ kind # "rounds"
    BY HuntAssumption DEF Whys, Overs
  <2> QED BY <1>3, <2>1, <2>2, KillAtNode DEF Overspend
<1> QED BY <1>1, <1>2, <1>3, RefusedKeeps DEF Failing

LEMMA CancelKeeps ==
  ASSUME PromiseInv, UserCancels \/ PollCancelled \/ WriteCancelled
  PROVE  Books' /\ Promised
<1>1. UNCHANGED <<run, rounds, cases, relays, posted, crashes>>
  BY DEF UserCancels, PollCancelled, WriteCancelled, process, backend, history
<1>2. RoundRuns' = RoundRuns
  BY <1>1 DEF RoundRuns, Ids
<1>3. stopping' \in {stopping, "none"}
  BY DEF UserCancels, PollCancelled, WriteCancelled, process
<1>4. \/ UNCHANGED hyp
      \/ /\ hyp.status = "hunting"
         /\ \E why \in {"user_cancelled", stopping} \ {"none"} : hyp' = [status |-> "cancelled", reason |-> why]
  BY DEF UserCancels, PollCancelled, WriteCancelled, backend
<1>5. Books'
  BY <1>1, <1>2, <1>3, <1>4, BooksStay
<1>6. ASSUME hyp.status = "hunting", NEW why \in {"user_cancelled", stopping} \ {"none"},
             hyp' = [status |-> "cancelled", reason |-> why]
      PROVE  Promise!Next
  <2>1. stopping \in {"none", "budget", "time", "budget_rounds"} /\ (stopping = "budget_rounds" => AllRecorded)
    BY DEF PromiseInv, Books, HypTells, AllRecorded
  <2>2. AllRecorded => Promise!LastRound(MaxRounds)
    BY HuntAssumption DEF AllRecorded, Promise!LastRound, RoundNos
  <2>3. why \in {"user_cancelled", "budget", "time", "budget_rounds"}
        /\ (why = "budget_rounds" => Promise!LastRound(MaxRounds))
    BY <2>1, <2>2
  <2>4. Promise!Cancel(why)
    BY <1>1, <1>6, <2>3 DEF Promise!Cancel
  <2> QED BY <2>3, <2>4 DEF Promise!Next
<1>7. Promised
  <2>1. CASE UNCHANGED hyp
    BY <1>1, <2>1 DEF Promised, pvars
  <2> QED BY <1>4, <1>6, <2>1 DEF Promised
<1> QED BY <1>5, <1>7

\* A round is launched: the first one, or the one the relay announced.
LEMMA RoundPostKeeps ==
  ASSUME PromiseInv, NEW k \in 1 .. MaxRounds + 1, Post("hunt_flow", k, 0),
         k = 1 \/ (k > 1 /\ Open(k - 1)), \A r \in RoundRuns : ~Live(r), relays' = {},
         UNCHANGED <<hyp, rounds, cases, crashes, stopping>>,
         crashes = 0 => k = Cardinality(RoundRuns) + 1 /\ (RoundRuns = {} => k = 1)
  PROVE  Books' /\ Promised
<1> DEFINE new == Len(run) + 1
<1>1. TypeOK /\ Len(run) \in Nat /\ Ids = 1 .. Len(run)
  BY IdsAre DEF PromiseInv, HuntInv
<1>2. Arrives(Row("hunt_flow", k, 0)) /\ posted' = posted \cup {new}
  BY <1>1, RowArrives, HuntAssumption
<1>3. /\ \A q \in Ids : run'[q] = run[q]
      /\ run'[new].kind = "hunt_flow" /\ run'[new].asked = k /\ run'[new].at = "queued"
      /\ Ids' = 1 .. Len(run) + 1
  BY <1>2, LenProperties DEF Arrives, Row, Ids
<1>4. RoundRuns' = RoundRuns \cup {new} /\ new \notin RoundRuns
  BY <1>1, <1>3 DEF RoundRuns
<1>5. RoundsTell'
  <2>1. \A q \in RoundRuns : RoundTells(q)'
    BY <1>3 DEF RoundTells, Waits, Starts, Works, Spins, Judges, Closes, Files, Waiting, AtWork,
                Live, LivePlaces, RoundPath, RoundRuns
  <2>2. ASSUME NEW x \in posted', run'[x].asked = k, run'[x].at = "queued"
        PROVE  RoundTells(x)'
    <3>1. WillBe(x)' = k
      BY <2>2 DEF WillBe
    <3>2. \A m : Open(m)' = Open(m)
      BY DEF Open
    <3>3. Waits(x)'
      BY <3>1, <3>2 DEF Waits
    <3> QED BY <2>2, <3>3 DEF RoundTells, Starts, Works, Spins, Judges, Closes, Files, AtWork
  <2>3. ASSUME NEW x \in RoundRuns'
        PROVE  RoundTells(x)'
    <3>1. CASE x \in RoundRuns
      BY <2>1, <3>1
    <3>2. CASE x \notin RoundRuns
      <4>1. x = new
        BY <1>4, <3>2
      <4> QED BY <1>2, <1>3, <2>2, <4>1
    <3> QED BY <3>1, <3>2
  <2> QED BY <2>3 DEF RoundsTell
<1>6. HypTells' /\ RelaysTell'
  BY DEF PromiseInv, Books, HypTells, RelaysTell, Open
<1>7. PostedTell'
  BY <1>2, <1>3, <1>4 DEF PromiseInv, Books, PostedTell, RoundRuns
<1>8. Numbered'
  <2> SUFFICES ASSUME crashes = 0
               PROVE  /\ \A r \in RoundRuns' : run'[r].linked \/ r \in posted'
                      /\ \E r \in RoundRuns' : run'[r].asked = 1
                      /\ \A r \in RoundRuns' : Live(r)' => run'[r].asked = Cardinality(RoundRuns')
                      /\ \A r \in RoundRuns' : run'[r].at \in AtWork \cup {"starting", "closing"} => run'[r].no = run'[r].asked
    BY DEF Numbered
  <2>1. IsFiniteSet(RoundRuns)
    <3>1. IsFiniteSet(Ids)
      BY <1>1, FS_Interval
    <3> QED BY <3>1, FS_Subset DEF RoundRuns
  <2>2. Cardinality(RoundRuns') = Cardinality(RoundRuns) + 1
    BY <1>4, <2>1, FS_AddElement
  <2>3. /\ \A r \in RoundRuns : run[r].linked \/ r \in posted
        /\ RoundRuns # {} => \E r \in RoundRuns : run[r].asked = 1
        /\ \A r \in RoundRuns : run[r].at \in AtWork \cup {"starting", "closing"} => run[r].no = run[r].asked
    BY DEF PromiseInv, Books, Numbered
  <2>4. \A r \in RoundRuns : run'[r] = run[r]
    BY <1>3 DEF RoundRuns
  <2>5. \A r \in RoundRuns' : run'[r].linked \/ r \in posted'
    BY <1>2, <1>4, <2>3, <2>4
  <2>6. \E r \in RoundRuns' : run'[r].asked = 1
    BY <1>3, <1>4, <2>3, <2>4
  <2>7. \A r \in RoundRuns' : Live(r)' => run'[r].asked = Cardinality(RoundRuns')
    BY <1>3, <1>4, <2>2, <2>4 DEF Live
  <2>8. \A r \in RoundRuns' : run'[r].at \in AtWork \cup {"starting", "closing"} => run'[r].no = run'[r].asked
    BY <1>3, <1>4, <2>3, <2>4 DEF AtWork
  <2> QED BY <2>5, <2>6, <2>7, <2>8
<1> QED BY <1>5, <1>6, <1>7, <1>8 DEF Books, Promised, pvars

\* A round is linked under the number it was launched with.
LEMMA RoundLinkKeeps ==
  ASSUME PromiseInv, NEW r \in posted, r \in RoundRuns, Link(r),
         UNCHANGED <<hyp, rounds, cases, crashes, stopping, relays>>
  PROVE  Books' /\ Promised
<1>1. TypeOK /\ r \in Ids
  BY DEF PromiseInv, HuntInv, RoundRuns
<1>2. /\ OneRow(r) /\ SameRun(r) /\ run'[r].at = run[r].at /\ run'[r].linked = TRUE
      /\ posted' = posted \ {r}
  BY <1>1, RunLinked
<1>3. RoundRuns' = RoundRuns
  BY <1>1, <1>2, SameRounds
<1>4. run[r].at \in {"queued", "minting"} /\ Live(r)
  BY DEF PromiseInv, Books, PostedTell, Live, LivePlaces
<1>5. \A q \in RoundRuns : q # r => ~Live(q) /\ run'[q] = run[q]
  BY <1>2, <1>4 DEF PromiseInv, HuntInv, OneRoundLives, OneRow, RoundRuns
<1>6. Waits(r)'
  <2>1. WillBe(r) = run[r].asked /\ WillBe(r)' = run[r].asked
    BY <1>2 DEF WillBe, RoundNo, SameRun
  <2>2. Waits(r)
    BY DEF PromiseInv, Books, RoundsTell, RoundTells
  <2> QED BY <1>2, <2>1, <2>2 DEF Waits, Open
<1>7. RoundTells(r)'
  BY <1>2, <1>4, <1>6 DEF RoundTells, Starts, Works, Spins, Judges, Closes, Files, AtWork
<1>8. \A q \in RoundRuns : q # r => RoundTells(q)'
  BY <1>5 DEF RoundTells, Waits, Starts, Works, Spins, Judges, Closes, Files, Waiting, AtWork,
              Live, LivePlaces, RoundPath
<1>9. RoundsTell'
  BY <1>3, <1>7, <1>8 DEF RoundsTell
<1>10. HypTells' /\ RelaysTell'
  BY DEF PromiseInv, Books, HypTells, RelaysTell, Open
<1>11. PostedTell'
  BY <1>2, <1>3, <1>5 DEF PromiseInv, Books, PostedTell, SameRun
<1>12. Numbered'
  BY <1>2, <1>3, <1>4, <1>5 DEF PromiseInv, Books, Numbered, SameRun, Live, LivePlaces, RoundPath, AtWork
<1> QED BY <1>9, <1>10, <1>11, <1>12 DEF Books, Promised, pvars

LEMMA LaunchingKeeps ==
  ASSUME PromiseInv, Launching
  PROVE  Books' /\ Promised
<1>1. ASSUME UNCHANGED <<run, posted, hyp, rounds, cases, crashes, stopping>>, relays' \subseteq relays
      PROVE  Books' /\ Promised
  <2>1. RoundRuns' = RoundRuns
    BY <1>1 DEF RoundRuns, Ids
  <2> QED BY <1>1, <2>1, RestStays
<1>2. CASE PollCreated
  <2>1. UNCHANGED <<hyp, rounds, cases, crashes, stopping, relays>>
    BY <1>2 DEF PollCreated, backend, history
  <2>2. CASE UNCHANGED <<run, posted>>
    BY <1>1, <2>1, <2>2
  <2>3. CASE Post("hunt_flow", 1, 0) /\ ~HasActiveRun /\ ~HasRoundRun(1)
    <3>1. \A r \in RoundRuns : run[r].at = "failed"
      BY <2>3 DEF HasActiveRun
    <3>2. \A r \in RoundRuns : ~Live(r)
      BY <3>1 DEF Live, LivePlaces, RoundPath
    <3>3. relays = {}
      BY <3>1 DEF PromiseInv, HuntInv, OneRoundLives
    <3>4. crashes = 0 => RoundRuns = {}
      <4>1. \A r \in RoundRuns : r \notin posted
        BY <3>1 DEF PromiseInv, Books, PostedTell
      <4> QED BY <2>3, <4>1 DEF PromiseInv, Books, Numbered, HasRoundRun
    <3>5. 1 \in 1 .. MaxRounds + 1 /\ Cardinality({}) = 0
      BY HuntAssumption, FS_EmptySet
    <3> QED BY <2>1, <2>3, <3>2, <3>3, <3>4, <3>5, RoundPostKeeps
  <2> QED BY <1>2, <2>2, <2>3 DEF PollCreated
<1>3. CASE AdvanceCursor
  <2>1. UNCHANGED <<run, posted, hyp, rounds, cases, crashes, stopping, relays>>
    BY <1>3 DEF AdvanceCursor, backend, history
  <2> QED BY <1>1, <2>1
<1>4. ASSUME NEW k \in RoundNos, RelayPosts(k)
      PROVE  Books' /\ Promised
  <2>1. k \in relays /\ relays' = relays \ {k} /\ UNCHANGED <<hyp, rounds, cases, crashes, stopping>>
    BY <1>4 DEF RelayPosts, backend, history
  <2>2. CASE UNCHANGED <<run, posted>>
    BY <1>1, <2>1, <2>2
  <2>3. CASE Post("hunt_flow", k, 0)
    <3>1. relays' = {} /\ (\A r \in RoundRuns : ~Live(r)) /\ RoundRuns # {}
      BY <2>1 DEF PromiseInv, HuntInv, OneRoundLives
    <3>2. k > 1 /\ Open(k - 1) /\ (crashes = 0 => k = Cardinality(RoundRuns) + 1)
      BY <2>1 DEF PromiseInv, Books, RelaysTell, Numbered
    <3> QED BY <2>1, <2>3, <3>1, <3>2, RoundPostKeeps DEF RoundNos
  <2> QED BY <1>4, <2>2, <2>3 DEF RelayPosts
<1>5. CASE LinkFirstRound
  <2>1. PICK r \in posted : run[r].kind = "hunt_flow" /\ Link(r)
    BY <1>5 DEF LinkFirstRound
  <2>2. r \in RoundRuns
    BY <2>1 DEF PromiseInv, HuntInv, TypeOK, RoundRuns
  <2>3. UNCHANGED <<hyp, rounds, cases, crashes, stopping, relays>>
    BY <1>5 DEF LinkFirstRound, backend, history
  <2> QED BY <2>1, <2>2, <2>3, RoundLinkKeeps
<1>6. ASSUME NEW r \in posted, RelayLinks(r)
      PROVE  Books' /\ Promised
  <2>1. r \in RoundRuns /\ Link(r)
    BY <1>6 DEF RelayLinks, PromiseInv, HuntInv, TypeOK, RoundRuns
  <2>2. UNCHANGED <<hyp, rounds, cases, crashes, stopping, relays>>
    BY <1>6 DEF RelayLinks, backend, history
  <2> QED BY <2>1, <2>2, RoundLinkKeeps
<1>7. ASSUME NEW c \in posted, LinkTask(c)
      PROVE  Books' /\ Promised
  <2>1. c \in TaskRuns /\ Link(c) /\ TypeOK
    BY <1>7 DEF LinkTask, PromiseInv, HuntInv
  <2>2. OneRow(c) /\ SameRun(c) /\ posted' = posted \ {c}
    BY <2>1, RunLinked
  <2>3. UNCHANGED <<hyp, rounds, cases, crashes, stopping, relays>>
    BY <1>7 DEF LinkTask, backend, history
  <2> QED BY <2>1, <2>2, <2>3, TaskRowKeeps
<1> QED BY <1>2, <1>3, <1>4, <1>5, <1>6, <1>7 DEF Launching

LEMMA CrashKeeps ==
  ASSUME MaxCrashes <= 1, PromiseInv, Crash
  PROVE  Books' /\ Promised
<1>1. /\ crashes = 0 /\ crashes' = 1 /\ posted' = {} /\ relays' = {} /\ stopping' = "none"
      /\ UNCHANGED <<hyp, rounds, cases>> /\ TypeOK
  BY HuntAssumption DEF Crash, backend, PromiseInv, HuntInv, TypeOK
<1>2. run' = [r \in Ids |-> Recovered(r)]
  BY DEF Crash
<1>3. \A r \in Ids : run'[r] = Recovered(r)
  BY <1>2
<1>4. ASSUME NEW r \in Ids
      PROVE  /\ Recovered(r).kind = run[r].kind /\ Recovered(r).asked = run[r].asked
             /\ Recovered(r).linked = run[r].linked
             /\ Recovered(r).at = IF Running(r) THEN "failed" ELSE IF run[r].at = "minting" THEN "lost" ELSE run[r].at
  <2>1. run[r] \in Rows
    BY <1>1, IdsAre
  <2> QED BY <2>1 DEF Recovered, Rows
<1>5. Ids' = Ids /\ RoundRuns' = RoundRuns
  <2>1. Ids' = Ids
    BY <1>2 DEF Ids
  <2> QED BY <1>3, <1>4, <2>1 DEF RoundRuns
<1>6. RoundsTell'
  <2> SUFFICES ASSUME NEW r \in RoundRuns
               PROVE  RoundTells(r)'
    BY <1>5 DEF RoundsTell
  <2>1. r \in Ids
    BY DEF RoundRuns
  <2>2. run'[r].at \in Waiting => run'[r].at = "queued" /\ run[r].at = "queued"
    BY <1>3, <1>4, <2>1 DEF Waiting, Running, RoundPath
  <2>3. ASSUME run[r].at = "queued"
        PROVE  WillBe(r)' = run[r].asked /\ WillBe(r) = run[r].asked
    <3>1. Live(r)
      BY <2>3 DEF Live, LivePlaces
    <3>2. \A q \in RoundRuns : q # r => run[q].linked
      <4>1. \A q \in RoundRuns : q # r => ~Live(q)
        BY <3>1 DEF PromiseInv, HuntInv, OneRoundLives
      <4>2. \A q \in RoundRuns : q # r => q \notin posted
        BY <4>1 DEF PromiseInv, Books, PostedTell, Live, LivePlaces
      <4> QED BY <1>1, <4>2 DEF PromiseInv, Books, Numbered
    <3>3. \A q \in RoundRuns : run'[q].linked = run[q].linked /\ run'[q].asked = run[q].asked
      BY <1>3, <1>4 DEF RoundRuns
    <3>4. run[r].linked \/ r \in posted
      BY <1>1 DEF PromiseInv, Books, Numbered
    <3>5. WillBe(r) = run[r].asked
      BY <3>4 DEF WillBe, RoundNo
    <3>6. {q \in RoundRuns' \ {r} : run'[q].linked} = RoundRuns \ {r}
      BY <1>5, <3>2, <3>3
    <3>7. Cardinality(RoundRuns \ {r}) + 1 = run[r].asked
      <4>1. IsFiniteSet(RoundRuns)
        <5>1. IsFiniteSet(Ids)
          BY <1>1, IdsAre, FS_Interval
        <5> QED BY <5>1, FS_Subset DEF RoundRuns
      <4>2. Cardinality(RoundRuns \ {r}) = Cardinality(RoundRuns) - 1 /\ Cardinality(RoundRuns) \in Nat
        BY <4>1, FS_RemoveElement, FS_CardinalityType
      <4>3. run[r].asked = Cardinality(RoundRuns)
        BY <1>1, <3>1 DEF PromiseInv, Books, Numbered
      <4> QED BY <4>2, <4>3
    <3>8. RoundNo(r)' = run[r].asked
      BY <3>3, <3>6, <3>7 DEF RoundNo
    <3> QED BY <1>1, <3>5, <3>8 DEF WillBe
  <2>4. Waits(r)
    BY DEF PromiseInv, Books, RoundsTell, RoundTells
  <2>5. Waits(r)'
    BY <1>1, <2>2, <2>3, <2>4 DEF Waits, Waiting, Open
  <2>6. run'[r].at \notin AtWork \cup {"starting", "closing", "filing"}
    BY <1>3, <1>4, <2>1 DEF AtWork, Running, RoundPath
  <2> QED BY <2>5, <2>6 DEF RoundTells, Starts, Works, Spins, Judges, Closes, Files, AtWork
<1>7. HypTells' /\ RelaysTell'
  BY <1>1 DEF PromiseInv, Books, HypTells, RelaysTell, Open
<1>8. PostedTell'
  BY <1>1, <1>3, <1>4, <1>5 DEF PromiseInv, Books, PostedTell, RoundRuns
<1>9. Numbered'
  BY <1>1 DEF Numbered
<1> QED BY <1>1, <1>6, <1>7, <1>8, <1>9 DEF Books, Promised, pvars

LEMMA PromiseInvInit == ASSUME MaxCrashes <= 1 PROVE Init => PromiseInv
<1> SUFFICES ASSUME Init
             PROVE  PromiseInv
  OBVIOUS
<1>1. HuntInv
  BY HuntInvInit
<1>2. Ids = {} /\ RoundRuns = {}
  BY DEF Init, Ids, RoundRuns
<1>3. HypTells
  BY HuntAssumption DEF Init, HypTells, Open, RoundNos
<1> QED BY <1>1, <1>2, <1>3 DEF PromiseInv, Books, RoundsTell, RelaysTell, PostedTell, Numbered, Init

LEMMA PromiseInvStep ==
  ASSUME MaxCrashes <= 1, PromiseInv, [Next]_vars
  PROVE  PromiseInv' /\ Promised
<1>1. HuntInv'
  BY HuntInvStep DEF PromiseInv
<1>2. ASSUME NEW r \in Ids, RoundStep(r) \/ TaskStep(r) \/ StopAtNode(r) \/ Failing(r)
      PROVE  Books' /\ Promised
  <2>1. ASSUME MintAnswers(r), KillOnly(r, "mint_failed")
        PROVE  Books' /\ Promised
    <3>1. r \notin posted
      BY <2>1 DEF MintAnswers
    <3> QED BY <2>1, <3>1, KillKeeps DEF Whys
  <2> QED BY <1>2, <2>1, EarlyKeeps, IntakeKeeps, StartKeeps, SpinKeeps, WorkKeeps, PostTaskKeeps,
             RecordKeeps, RelayKeeps, BrokenKeeps, ConvergeKeeps, FileKeeps, TaskKeeps, FailingKeeps
          DEF RoundStep
<1>3. ASSUME UNCHANGED vars
      PROVE  Books' /\ Promised
  <2>1. UNCHANGED <<hyp, rounds, cases, run, relays, posted, stopping, crashes>>
    BY <1>3 DEF vars, backend, process, history
  <2>2. RoundRuns' = RoundRuns
    BY <2>1 DEF RoundRuns, Ids
  <2> QED BY <2>1, <2>2, RestStays
<1>4. Books' /\ Promised
  BY <1>2, <1>3, LaunchingKeeps, CancelKeeps, CrashKeeps DEF Next
<1> QED BY <1>1, <1>4 DEF PromiseInv

\* The hunt implements HuntPromise, step by step, whatever fails, is cancelled or runs out
\* of budget, as long as at most one crash can lose a link: with two lost links a round
\* that counts the others finds one too few, and a round is recorded twice.
THEOREM KeepsPromiseHolds == ASSUME MaxCrashes <= 1 PROVE Spec => KeepsPromise
<1>1. Init => PromiseInv
  BY PromiseInvInit
<1>2. PromiseInv /\ [Next]_vars => PromiseInv'
  BY PromiseInvStep
<1>3. Init => Promise!Init
  BY DEF Init, Promise!Init
<1>4. PromiseInv /\ [Next]_vars => [Promise!Next]_(Promise!pvars)
  BY PromiseInvStep DEF Promised, pvars, Promise!pvars
<1> QED BY <1>1, <1>2, <1>3, <1>4, PTL DEF Spec, KeepsPromise, Promise!Spec

=============================================================================
