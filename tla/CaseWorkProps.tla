----------------------------- MODULE CaseWorkProps -----------------------------
(***************************************************************************)
(* What the work on a case must and must never do.                         *)
(***************************************************************************)
EXTENDS CaseWork

Loose(i) == rows[i].tlp <= 2 /\ rows[i].pap <= 2

\* A value goes to an analyzer only if some alert or analyst brought it into the
\* case under marks that allow it, or an analyzer found it when the case did not
\* know it yet: a run that finds a value again which the case holds under a
\* stricter mark must not open it to the next run (tlpFromAlert, the
\* deduplication of addCaseObservable, tlpPapGate).
StrictStaysInside ==
  \A r \in Runs : \A l \in lookedUp[r] :
    \E i \in DOMAIN rows :
      /\ rows[i].data = rows[l].data /\ Loose(i)
      /\ \/ rows[i].from = "analyst"
         \/ /\ rows[i].from = "alert"
            /\ \E a \in linked : rows[i].data \in a.data /\ (a.stamp = {} => a.words \subseteq 0..2)
         \/ rows[i].from = "analyzer" /\ \A j \in 1..(i - 1) : rows[j].data # rows[i].data

\* Reports say what was done.  A report that passed as structured cites only tools that
\* served a call of this run, and one of a loop that was cut says that it is incomplete,
\* whatever the model writes, claims, or repeats.  An enrichment accounts once for every
\* observable it loaded: in the items of its report, where those of a positive answer
\* were really looked up by the run, or among the internal ones that stay inside; and it
\* counts the refusals.
ReportsAreTrue ==
  \A r \in Runs :
    /\ At(r, "write") =>
         /\ work[r].report.cites \subseteq served[r]
         /\ work[r].cut => work[r].report.incomplete
    /\ At(r, "enrich") /\ ~Pending(r) =>
         LET t == work[r].tally IN
           /\ {x.row : x \in t.items} = {i \in 1..t.rows : HasAnalyzer(i)}
           /\ Cardinality(t.items) + t.skipped = t.rows
           /\ t.refused = Cardinality({x \in t.items : ~x.ok})
           /\ \A x \in t.items : x.ok => x.row \in lookedUp[r]

\* Every run ends, whatever the model answers, however often it repeats itself,
\* names tools that do not exist, or is told of errors.
WorkEnds == \A r \in Runs : ~At(r, "idle") ~> Over(r)

-----------------------------------------------------------------------------
(* The inductive invariant *)

Places ==
  {"idle", "load_case", "plan", "decide", "tool", "observe", "report", "write",
   "load_enrich", "enrich", "lookup", "artifact", "done", "failed"}

Reports == [degraded : BOOLEAN, incomplete : BOOLEAN, cites : SUBSET CalledTools]

Tallies == [rows : Nat, items : SUBSET [row : Nat, ok : BOOLEAN], skipped : Nat, refused : Nat]

\* no call is a tool without a name
ToolNames == CalledTools \cup {"none"}

Locals ==
  [at : Places, ticket : BOOLEAN, overspent : BOOLEAN,
   steps : Nat, seen : SUBSET Calls, executed : SUBSET ToolNames, call : Calls \cup {NoCall},
   cut : BOOLEAN, retried : BOOLEAN, report : Reports,
   next : Nat, finds : Seq(Values), tally : Tallies]

Row == [data : Values, tlp : Nat, pap : Nat, from : {"alert", "analyst", "analyzer"}]

\* The type invariant of the case and of what a run holds.
TypeOK ==
  /\ case \in {"none", "open", "closed"} /\ linked \subseteq Alerts /\ manual \in Nat
  /\ rows \in Seq(Row)
  /\ work \in [Runs -> Locals]
  /\ served \in [Runs -> SUBSET ToolNames]
  /\ lookedUp \in [Runs -> SUBSET Nat]

\* where a row came from, and that an analyzer's row was the first of its value
RowsTell ==
  \A i \in DOMAIN rows :
    /\ rows[i].from = "alert" =>
         \E a \in linked : rows[i].data \in a.data /\ rows[i].tlp = TlpFromAlert(a)
    /\ rows[i].from = "analyzer" => \A j \in 1 .. (i - 1) : rows[j].data # rows[i].data

\* what was sent out is a row whose own marks allow it
SentLoose == \A r \in Runs : \A l \in lookedUp[r] : l \in DOMAIN rows /\ Loose(l)

\* what a run with locals w may cite was served to it, and a cut report says so
CitesServed(w, answered) ==
  /\ w.executed \subseteq answered
  /\ w.at = "write" => w.report.cites \subseteq w.executed /\ (w.cut => w.report.incomplete)

\* observables are gone through from the first
StartsAtOne(w) == w.at \notin {"enrich", "lookup", "artifact"} => w.next = 1

\* the observables a run with locals w is done with
DoneWith(w) == IF w.at = "artifact" THEN w.next ELSE w.next - 1

\* a run that enriches has one item for each observable it is done with and has an
\* analyzer for; the rows it loaded are still those
TallyTells(w, sent) ==
  w.at \in {"enrich", "lookup", "artifact"} =>
    LET t == w.tally IN
      /\ w.next >= 1 /\ DoneWith(w) <= t.rows /\ t.rows <= Len(rows)
      /\ w.at = "lookup" => w.next <= t.rows /\ HasAnalyzer(w.next) /\ w.next \in sent
      /\ IsFiniteSet(t.items)
      /\ {x.row : x \in t.items} = {i \in 1 .. DoneWith(w) : HasAnalyzer(i)}
      /\ \A x, y \in t.items : x.row = y.row => x = y
      /\ \A x \in t.items : x.ok => x.row \in sent
      /\ t.skipped = Cardinality({i \in 1 .. t.rows : ~HasAnalyzer(i)})
      /\ t.refused = Cardinality({x \in t.items : ~x.ok})

RunsTell ==
  \A r \in Runs :
    /\ CitesServed(work[r], served[r])
    /\ StartsAtOne(work[r]) /\ TallyTells(work[r], lookedUp[r])

CaseInv == TypeOK /\ RowsTell /\ SentLoose /\ RunsTell

=============================================================================
