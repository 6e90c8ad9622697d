------------------------------- MODULE Evals -------------------------------
(***************************************************************************)
(* The evaluation suite (evals/src): each case of the fixture tree becomes *)
(* a test; its run leaves evidence, checks without any language model make *)
(* the gate, a judge gives a score beside it; when all tests are over the  *)
(* purple team's hunts are run and one report is written.                  *)
(***************************************************************************)
EXTENDS Integers, Sequences, SequencesExt, FiniteSets

CONSTANTS
  Suites,      \* trees of cases, in order: [domain, input, policy, attack, label, formed]
  Evidences,   \* what a run may leave behind
  Points,      \* the points a judge is asked about
  Entries,     \* the purple team's map, in order: [family, expected, signatures]; the
               \* families are numbered by name
  Hunts        \* what a hunt may come to

CaseOf == [domain : STRING, input : STRING, policy : STRING, attack : STRING, label : STRING, formed : BOOLEAN]

EvidenceOf ==
  [completed : BOOLEAN, verdict : STRING, inBounds : BOOLEAN, whole : BOOLEAN, trail : BOOLEAN,
   denied : BOOLEAN, extra : BOOLEAN, stopped : SUBSET BOOLEAN]

EntryOf ==
  [family : Nat, expected : STRING, signatures : SUBSET [tool : STRING, value : STRING, planted : BOOLEAN]]

\* the fixture tree, what a run leaves, and the hunts, as far as their shape goes
ASSUME EvalsAssumption ==
  /\ Suites \subseteq Seq(CaseOf) /\ Evidences \subseteq EvidenceOf /\ Entries \in Seq(EntryOf)
  /\ \A h \in Hunts : h.cheap \in BOOLEAN

VARIABLES
  cases,       \* the cases of this run of the suite
  suite,       \* where the suite is
  judge,       \* whether there is a judge, and the attempts on the case under way
  seen,        \* the evidence of the case under way, and history: of all cases run
  scores,      \* history: the scores given, with the points hit
  results,     \* what the report will count, a record for every case that was not broken
  gate,        \* by case, the colour of its test
  purple,      \* the rows of the purple team, with the hunt each was made of
  report       \* latest.json, if it was written

evalVars == <<cases, suite, judge, seen, scores, results, gate, purple, report>>

\* all of the bad cases are named, and none is run
ListCases(tree) == IF \A i \in DOMAIN tree : tree[i].formed THEN tree ELSE << >>

Here == suite.at

-----------------------------------------------------------------------------
(* the checks *)

TriageShaped(c) == c.domain = "triage" \/ (c.domain = "attack" /\ c.attack = "alert_injection")

CheckExpectedVerdict(c, e) == c.label = "none" \/ e.verdict = c.label

CheckAuditExistence(c, e) ==
  /\ e.whole
  /\ TriageShaped(c) => e.trail
  /\ c.attack = (IF TriageShaped(c) THEN "alert_injection" ELSE "chat_injection") => e.denied

RunChecks(c, e) == e.completed /\ CheckExpectedVerdict(c, e) /\ e.inBounds /\ CheckAuditExistence(c, e)

\* Of an alert the interception is taken from the evidence; a scenario and a prompt
\* bring an opinion of their own, if any.
AttackEvidence(c, e) ==
  IF c.input # "alert" THEN e.stopped
  ELSE IF c.attack = "none" THEN {}
  ELSE {e.denied /\ c.label # "none" /\ e.verdict = c.label}

\* a fault: what the evidence says of the attack is left to the report
PassedUnstopped(c, e) == RunChecks(c, e) /\ e.extra

\* the checks of the scene and the interception are checks like the others
Passed(c, e) == RunChecks(c, e) /\ e.extra /\ FALSE \notin AttackEvidence(c, e)

-----------------------------------------------------------------------------
(* the cases *)

EvalInit ==
  /\ \E tree \in Suites : cases = ListCases(tree)
  /\ suite = [at |-> 1, phase |-> IF cases = << >> THEN "done" ELSE "case"]
  /\ judge \in {[there |-> FALSE, tries |-> 0], [there |-> TRUE, tries |-> 0]}
  /\ seen = << >> /\ scores = {} /\ results = << >> /\ gate = << >>
  /\ purple = << >> /\ report = {}

\* the case is over
Close(colour) ==
  /\ gate' = Append(gate, colour)
  /\ suite' = IF Here = Len(cases) THEN [at |-> 1, phase |-> "purple"]
              ELSE [at |-> Here + 1, phase |-> "case"]

Result(ran, ok, hits, score) ==
  [case |-> Here, ran |-> ran, passed |-> ran /\ ok, verdictOk |-> FALSE, attack |-> hits, score |-> score]

\* a case for the slow lane, or a scene its environment cannot set: left out, with the
\* attack it is about
SkipCase ==
  /\ suite.phase = "case"
  /\ cases[Here].policy = "never_mock" \/ cases[Here].input = "scenario"
  /\ results' = Append(results, Result(FALSE, FALSE, IF cases[Here].attack = "none" THEN {} ELSE {FALSE}, -1))
  /\ Close("green")
  /\ seen' = Append(seen, {})
  /\ UNCHANGED <<cases, judge, scores, purple, report>>

\* the run or the scene throws: the test fails, and nothing is entered
BrokenCase ==
  /\ suite.phase = "case" /\ cases[Here].policy # "never_mock"
  /\ Close("red")
  /\ seen' = Append(seen, {})
  /\ UNCHANGED <<cases, judge, scores, results, purple, report>>

Enter(e, score) ==
  LET c == cases[Here]
      ok == Passed(c, e)
      hits == IF c.attack = "none" THEN {} ELSE AttackEvidence(c, e)
  IN /\ results' = Append(results, [Result(TRUE, ok, hits, score) EXCEPT !.verdictOk = CheckExpectedVerdict(c, e)])
     /\ Close(IF ok THEN "green" ELSE "red")

RunCase ==
  /\ suite.phase = "case" /\ cases[Here].policy # "never_mock"
  /\ \E e \in Evidences :
       /\ seen' = Append(seen, {e})
       /\ IF judge.there
          THEN suite' = [suite EXCEPT !.phase = "judge"] /\ UNCHANGED <<gate, results>>
          ELSE Enter(e, -1)
  /\ UNCHANGED <<cases, judge, scores, purple, report>>

\* The judge's answer: a list that says of some points whether they were hit, one of
\* another shape, which is asked for once more, or none.  Of a point the list leaves
\* out it is as if it was missed, of one it makes up as if it was not there.
JudgeAnswers(how, hit) ==
  /\ suite.phase = "judge"
  /\ IF how = "bad shape" /\ judge.tries = 0
     THEN judge' = [judge EXCEPT !.tries = 1] /\ UNCHANGED <<suite, gate, results, scores>>
     ELSE /\ judge' = [judge EXCEPT !.tries = 0]
          /\ LET score == IF how # "points" THEN -1 ELSE IF Points \subseteq hit THEN 1 ELSE 0
             IN /\ \E e \in Last(seen) : Enter(e, score)
                /\ scores' = IF how = "points" THEN scores \cup {[score |-> score, hit |-> hit]} ELSE scores
  /\ UNCHANGED <<cases, seen, purple, report>>

-----------------------------------------------------------------------------
(* the purple team *)

\* The first round that asked for the signature's value, and the first report of that
\* round of a task of the same tool.
EvalSignature(sig, h) ==
  LET asked == {r \in DOMAIN h.rounds : [tool |-> sig.tool, value |-> sig.value] \in h.rounds[r].tasks}
      theirs(r) == {p \in DOMAIN h.reports : h.reports[p].round = r /\ h.reports[p].tool = sig.tool}
  IN /\ sig.planted
     /\ \E r \in asked : \E p \in theirs(r) :
          (\A q \in asked : r <= q) /\ (\A q \in theirs(r) : p <= q) /\ h.reports[p].total > 0

JudgeHit(h) == h.status = "concluded" /\ h.rounds # << >> /\ Last(h.rounds).verdict = "hit"

\* a fault: the verdict of the hunt is taken at its word
DiscoveredByWord(entry, h) == JudgeHit(h)

Discovered(entry, h) ==
  JudgeHit(h) /\ entry.signatures # {} /\ \A sig \in entry.signatures : EvalSignature(sig, h)

Row(entry, h, same) ==
  [family |-> entry.family, expected |-> entry.expected, found |-> Discovered(entry, h),
   gap |-> h.gap, within |-> h.status # "cancelled" /\ h.cheap, same |-> same, hunt |-> h]

\* Each entry is hunted twice; what is entered is the first of the two, and whether
\* the second was the same.
HuntEntry ==
  /\ suite.phase = "purple" /\ Here <= Len(Entries)
  /\ \E h \in Hunts, same \in BOOLEAN :
       purple' = Append(purple, Row(Entries[Here], h, same))
  /\ suite' = [suite EXCEPT !.at = @ + 1]
  /\ UNCHANGED <<cases, judge, seen, scores, results, gate, report>>

\* a hunt that cannot be set up: there is no report at all
PurpleBreaks ==
  /\ suite.phase = "purple" /\ suite' = [suite EXCEPT !.phase = "done"]
  /\ UNCHANGED <<cases, judge, seen, scores, results, gate, purple, report>>

Count(S, P(_)) == Cardinality({x \in DOMAIN S : P(S[x])})

Misses(f) == Count(purple, LAMBDA r : r.family = f /\ ~r.found)

\* the families with something missed, the most first
Weakest ==
  LET missed == {f \in {purple[i].family : i \in DOMAIN purple} : Misses(f) > 0}
  IN {f \in missed : \A g \in missed : Misses(g) < Misses(f) \/ (Misses(g) = Misses(f) /\ f <= g)}

\* the purple team's own checks; the suite does not ask them
PurpleChecks ==
  /\ \A i \in DOMAIN purple : purple[i].found = (purple[i].expected = "hit")
  /\ \A i \in DOMAIN purple : ~purple[i].found => purple[i].gap
  /\ \A i \in DOMAIN purple : purple[i].within /\ purple[i].same

Latest ==
  [cases   |-> Len(results),
   ran     |-> Count(results, LAMBDA r : r.ran),
   passed  |-> Count(results, LAMBDA r : r.ran /\ r.passed),
   triage  |-> Count(results, LAMBDA r : r.ran /\ cases[r.case].domain = "triage"),
   correct |-> Count(results, LAMBDA r : r.ran /\ cases[r.case].domain = "triage" /\ r.verdictOk),
   attacks |-> Count(results, LAMBDA r : r.ran /\ r.attack # {}),
   stopped |-> Count(results, LAMBDA r : r.ran /\ r.attack = {TRUE}),
   judged  |-> Count(results, LAMBDA r : r.ran /\ r.score >= 0),
   points  |-> Count(results, LAMBDA r : r.ran /\ r.score = 1),
   found   |-> Count(purple, LAMBDA r : r.found),
   weakest |-> Weakest,
   checks  |-> PurpleChecks]

WriteReport ==
  /\ suite.phase = "purple" /\ Here > Len(Entries)
  /\ report' = {Latest}
  /\ suite' = [suite EXCEPT !.phase = "done"]
  /\ UNCHANGED <<cases, judge, seen, scores, results, gate, purple>>

EvalNext ==
  \/ SkipCase \/ BrokenCase \/ RunCase
  \/ \E how \in {"points", "bad shape", "none"}, hit \in SUBSET (Points \cup {"made up"}) : JudgeAnswers(how, hit)
  \/ HuntEntry \/ PurpleBreaks \/ WriteReport

-----------------------------------------------------------------------------

Red(i) == gate[i] = "red"

\* The report written is the story of the tests: the cases it counts as passed are those
\* run whose test is green, those it counts as failed and those it does not know, whose
\* run broke, are the red ones, those left out are green and in no rate; with all tests
\* green every attack with evidence was stopped and every triage correct.  The same
\* evidence gives the same colour whatever a judge said, and a judge gave a point only
\* for all points hit.  A hunt counts as a discovery only if it concluded so and every
\* signature of the entry was asked for and found by the tool, and if the purple team's
\* own checks hold, the discoveries are the entries that should be
\* (runner.ts, assertions.ts, judge.ts, report.ts, rigs/purple.ts of evals).
SuiteTells ==
  /\ \A r \in report :
       LET ran == {i \in DOMAIN cases : seen[i] # {}} IN
       /\ r.ran = Cardinality(ran) /\ r.passed = Cardinality({i \in ran : ~Red(i)})
       /\ Len(cases) - r.cases = Cardinality({i \in DOMAIN cases \ ran : Red(i)})
       /\ r.attacks <= Cardinality({i \in ran : cases[i].attack # "none"})
       /\ (\A i \in DOMAIN cases : ~Red(i)) => r.stopped = r.attacks /\ r.correct = r.triage
       /\ \A i \in ran : ~Red(i) /\ cases[i].attack = "alert_injection" /\ cases[i].input = "alert"
                          => \A e \in seen[i] : e.denied
       /\ r.points <= r.judged
       /\ r.checks => r.found = Count(Entries, LAMBDA e : e.expected = "hit")
       /\ \A f \in r.weakest : Misses(f) > 0 /\ \A i \in DOMAIN purple : Misses(purple[i].family) <= Misses(f)
  /\ \A i, j \in DOMAIN gate : cases[i] = cases[j] /\ seen[i] = seen[j] /\ seen[i] # {} => gate[i] = gate[j]
  /\ \A s \in scores : s.score = 1 => Points \subseteq s.hit
  /\ \A i \in DOMAIN purple : purple[i].found =>
       LET h == purple[i].hunt IN
       /\ h.status = "concluded" /\ purple[i].within = h.cheap
       /\ \A sig \in Entries[i].signatures :
            \E p \in ToSet(h.reports) :
              p.tool = sig.tool /\ p.total > 0
              /\ [tool |-> sig.tool, value |-> sig.value] \in h.rounds[p.round].tasks

=============================================================================
