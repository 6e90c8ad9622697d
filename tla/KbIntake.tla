------------------------------- MODULE KbIntake -------------------------------
(***************************************************************************)
(* What a closed case leaves in the knowledge base: autorun launches a     *)
(* knowledge run for the case.closed event, the run distills a draft and   *)
(* proposes it to the ledger of the case backend (kb.ts), suspends on an   *)
(* approval card, and on approval writes the ledger and then the search    *)
(* index (chroma).  Reviewers also decide and propose over REST, past the  *)
(* card.                                                                   *)
(*                                                                         *)
(* The dispatcher and the cards are RunDispatcher's, seen from afar: a     *)
(* queued run starts at any time, a decision queues its resume with it.    *)
(***************************************************************************)
EXTENDS Naturals, Sequences, FiniteSets

CONSTANTS
  Cases,         \* case ids
  MaxRuns,       \* bound on run rows; a row for every case, every run by hand and every fault is enough
  MaxByHand,     \* bound on runs launched and drafts proposed by people
  MaxFaults      \* bound on failing calls and crashes

ASSUME KbIntakeAssumption == MaxRuns \in Nat /\ MaxByHand \in Nat /\ MaxFaults \in Nat

None == "none"

VARIABLES
  closed,   \* cases closed, in the order of their case.closed events
  entry,    \* kb_entries of the case backend: [case, status], in the order of creation
  index,    \* the entries chroma holds
  run,      \* knowledge_flow runs: [case, at, entry, card]
  cursor,   \* event_cursors
  polling,  \* what autorun is doing with the event at the cursor
  byHand, faults,
  vetoed    \* history: entries rejected over REST

process == <<run, cursor, polling>>
ledger == <<closed, entry, index>>
vars == <<ledger, process, byHand, faults, vetoed>>

Runs == DOMAIN run
Entries == DOMAIN entry
At(r, place) == run[r].at = place
KnowledgePath == {"distill", "propose", "approve", "upsert", "reject"}
Running(r) == run[r].at \in KnowledgePath
Ended(r) == run[r].at \in {"completed", "failed"}

Init ==
  /\ closed = <<>> /\ entry = <<>> /\ index = {}
  /\ run = <<>> /\ cursor = 0 /\ polling = "idle"
  /\ byHand = 0 /\ faults = 0
  /\ vetoed = {}

IsClosed(c) == \E i \in DOMAIN closed : closed[i] = c

\* closing is terminal: one event per case
CloseCase(c) ==
  /\ ~IsClosed(c)
  /\ closed' = Append(closed, c)
  /\ UNCHANGED <<entry, index, process, byHand, faults, vetoed>>

-----------------------------------------------------------------------------
(* The ledger *)

Create(c) == entry' = Append(entry, [case |-> c, status |-> "proposed"])

Decidable(p) == entry[p].status = "proposed"

\* refused with InvalidTransition once decided
Decide(p, status) == entry' = IF Decidable(p) THEN [entry EXCEPT ![p].status = status] ELSE entry

ByHand == byHand < MaxByHand /\ byHand' = byHand + 1

ReviewerProposes(c) ==
  /\ ByHand
  /\ Create(c)
  /\ UNCHANGED <<closed, index, process, faults, vetoed>>

\* a fault: an approval over REST is indexed
ReviewerIndexes(p, status) ==
  /\ Decidable(p)
  /\ Decide(p, status)
  /\ vetoed' = IF status = "rejected" THEN vetoed \cup {p} ELSE vetoed
  /\ index' = IF status = "approved" THEN index \cup {p} ELSE index
  /\ UNCHANGED <<closed, process, byHand, faults>>

ReviewerDecides(p, status) ==
  /\ Decidable(p)
  /\ Decide(p, status)
  /\ vetoed' = IF status = "rejected" THEN vetoed \cup {p} ELSE vetoed
  /\ UNCHANGED <<closed, index, process, byHand, faults>>

-----------------------------------------------------------------------------
(* Autorun: two guards, then the launch, then the cursor *)

Launch(c) ==
  /\ Len(run) < MaxRuns
  /\ run' = Append(run, [case |-> c, at |-> "queued", entry |-> 0, card |-> None])

HasActiveRun(c) == \E r \in Runs : run[r].case = c /\ run[r].at # "failed"

\* a fault: a draft that waits for its decision is forgotten
HasApprovedEntry(c) == \E p \in Entries : entry[p].case = c /\ entry[p].status = "approved"

\* a rejected draft does not stand in the way of another one
HasKbEntryForCase(c) == \E p \in Entries : entry[p].case = c /\ entry[p].status \in {"proposed", "approved"}

Skip == cursor' = cursor + 1 /\ polling' = "idle" /\ UNCHANGED run

\* the runs are asked at once, the ledger over HTTP
Poll ==
  /\ polling = "idle" /\ cursor < Len(closed)
  /\ IF HasActiveRun(closed[cursor + 1]) THEN Skip
     ELSE polling' = "asking" /\ UNCHANGED <<run, cursor>>
  /\ UNCHANGED <<ledger, byHand, faults, vetoed>>

AskLedger ==
  /\ polling = "asking"
  /\ IF HasKbEntryForCase(closed[cursor + 1]) THEN Skip
     ELSE Launch(closed[cursor + 1]) /\ polling' = "launched" /\ UNCHANGED cursor
  /\ UNCHANGED <<ledger, byHand, faults, vetoed>>

\* a fault: an event whose question failed is skipped
AskFailsSkips ==
  /\ polling = "asking" /\ faults < MaxFaults
  /\ Skip /\ faults' = faults + 1
  /\ UNCHANGED <<ledger, byHand, vetoed>>

\* a failed call leaves the cursor where it is
AskFails ==
  /\ polling = "asking" /\ faults < MaxFaults
  /\ polling' = "idle" /\ faults' = faults + 1
  /\ UNCHANGED <<ledger, run, cursor, byHand, vetoed>>

MoveCursor ==
  /\ polling = "launched"
  /\ Skip
  /\ UNCHANGED <<ledger, byHand, faults, vetoed>>

\* POST /internal/runs has neither guard
PostRun(c) ==
  /\ ByHand
  /\ Launch(c)
  /\ UNCHANGED <<ledger, cursor, polling, faults, vetoed>>

-----------------------------------------------------------------------------
(* A knowledge run *)

Goes(r, place) == run' = [run EXCEPT ![r].at = place]
Quiet == UNCHANGED <<closed, cursor, polling, byHand, faults, vetoed>>

Start(r) ==
  /\ At(r, "queued") /\ Goes(r, "distill")
  /\ UNCHANGED <<entry, index>> /\ Quiet

\* an open case has no verdict; the model may also find nothing, or twice fail to say so
Distill(r) ==
  /\ At(r, "distill")
  /\ \/ Goes(r, "completed")
     \/ IsClosed(run[r].case) /\ Goes(r, "propose")
  /\ UNCHANGED <<entry, index>> /\ Quiet

\* kb_propose, then the interrupt of executeApproved opens the card
Propose(r) ==
  /\ At(r, "propose")
  /\ Create(run[r].case)
  /\ run' = [run EXCEPT ![r].at = "card", ![r].entry = Len(entry) + 1, ![r].card = "pending"]
  /\ UNCHANGED index /\ Quiet

DutyLeadDecides(r, decision) ==
  /\ At(r, "card")
  /\ run' = [run EXCEPT ![r].card = decision, ![r].at = "decided"]
  /\ UNCHANGED <<entry, index>> /\ Quiet

Resume(r) ==
  /\ At(r, "decided")
  /\ Goes(r, IF run[r].card = "approved" THEN "approve" ELSE "reject")
  /\ UNCHANGED <<entry, index>> /\ Quiet

\* a fault: the run of an expired card is left waiting
ExpireCardOnly(r) ==
  /\ At(r, "card")
  /\ run' = [run EXCEPT ![r].card = "expired"]
  /\ UNCHANGED <<entry, index>> /\ Quiet

\* the card outlives APPROVAL_TTL_SECONDS
Expire(r) ==
  /\ At(r, "card")
  /\ run' = [run EXCEPT ![r].card = "expired", ![r].at = "failed"]
  /\ UNCHANGED <<entry, index>> /\ Quiet

\* a fault: the ledger is not told of the approval
ApproveUnwritten(r) ==
  /\ At(r, "approve")
  /\ Goes(r, "upsert")
  /\ UNCHANGED <<entry, index>> /\ Quiet

\* an entry already decided is taken for a repetition of this call
ApproveEntry(r) ==
  /\ At(r, "approve")
  /\ Decide(run[r].entry, "approved")
  /\ Goes(r, "upsert")
  /\ UNCHANGED index /\ Quiet

Upsert(r) ==
  /\ At(r, "upsert")
  /\ index' = index \cup {run[r].entry}
  /\ Goes(r, "completed")
  /\ UNCHANGED entry /\ Quiet

RejectEntry(r) ==
  /\ At(r, "reject")
  /\ Decide(run[r].entry, "rejected")
  /\ Goes(r, "completed")
  /\ UNCHANGED index /\ Quiet

RunStep(r) ==
  \/ Start(r) \/ Distill(r) \/ Propose(r) \/ Expire(r)
  \/ Resume(r) \/ ApproveEntry(r) \/ Upsert(r) \/ RejectEntry(r)

-----------------------------------------------------------------------------
(* Faults *)

Fault == faults < MaxFaults /\ faults' = faults + 1

\* a call fails or its answer is lost: the other service may have served it
RunFails(r) ==
  /\ Running(r) /\ Fault
  /\ Goes(r, "failed")
  /\ \/ UNCHANGED <<entry, index>>
     \/ At(r, "propose") /\ Create(run[r].case) /\ UNCHANGED index
     \/ At(r, "approve") /\ Decide(run[r].entry, "approved") /\ UNCHANGED index
     \/ At(r, "reject") /\ Decide(run[r].entry, "rejected") /\ UNCHANGED index
     \/ At(r, "upsert") /\ index' = index \cup {run[r].entry} /\ UNCHANGED entry
  /\ UNCHANGED <<closed, cursor, polling, byHand, vetoed>>

\* the resumed run's ticket is refused: its job is done, the run goes on waiting (app.ts:572)
ResumeMintFails(r) ==
  /\ At(r, "decided") /\ Fault
  /\ Goes(r, "stranded")
  /\ UNCHANGED <<ledger, cursor, polling, byHand, vetoed>>

\* a run that waits on a card survives a restart, with its resume job when it is decided
Crash ==
  /\ Fault
  /\ run' = [r \in Runs |-> IF Running(r) THEN [run[r] EXCEPT !.at = "failed"] ELSE run[r]]
  /\ polling' = "idle"
  /\ UNCHANGED <<ledger, cursor, byHand, vetoed>>

-----------------------------------------------------------------------------

Next ==
  \/ \E c \in Cases : CloseCase(c) \/ ReviewerProposes(c) \/ PostRun(c)
  \/ \E p \in Entries, status \in {"approved", "rejected"} : ReviewerDecides(p, status)
  \/ Poll \/ AskLedger \/ AskFails \/ MoveCursor
  \/ \E r \in Runs : RunStep(r) \/ RunFails(r) \/ ResumeMintFails(r)
  \/ \E r \in Runs, decision \in {"approved", "rejected"} : DutyLeadDecides(r, decision)
  \/ Crash

Spec == Init /\ [][Next]_vars

\* timers and calls come to an end, and a card nobody decides expires; people need do nothing
FairSpec ==
  /\ Spec
  /\ WF_vars(Poll \/ AskLedger \/ MoveCursor)
  /\ \A r \in 1 .. MaxRuns : WF_vars(r \in Runs /\ RunStep(r))

-----------------------------------------------------------------------------
(* What must hold *)

\* The type invariant of the ledger, the index and the run rows.
TypeOK ==
  /\ closed \in Seq(Cases) /\ Len(closed) <= Cardinality(Cases)
  /\ entry \in Seq([case : Cases, status : {"proposed", "approved", "rejected"}])
  /\ index \subseteq Entries
  /\ run \in Seq([case : Cases, entry : 0 .. Len(entry),
                  at : {"queued", "card", "decided", "stranded", "completed", "failed"} \cup KnowledgePath,
                  card : {None, "pending", "approved", "rejected", "expired"}])
  /\ Len(run) <= MaxRuns
  /\ cursor \in 0 .. Len(closed) /\ polling \in {"idle", "asking", "launched"}
  /\ byHand \in 0 .. MaxByHand /\ faults \in 0 .. MaxFaults
  /\ vetoed \subseteq Entries

\* a duty lead approved every indexed entry on that very entry's card
IndexedOnlyByCard ==
  \A p \in index : \E r \in Runs : run[r].entry = p /\ run[r].card = "approved"

\* The index and the ledger tell the same, whichever call, answer or process was lost.
\* What is searchable was approved on its own card (INV-5), not through REST or another
\* run's card, and the ledger has it approved, with one exception: an entry a reviewer
\* rejected over REST while its card was open, which the card's approval indexes all the
\* same (knowledge/flow.ts:208).  An entry whose card was rejected or expired is not
\* searchable.  When a run is over that had its card decided, the entry is decided too,
\* and searchable if the card was approved.
IndexTellsLedger ==
  /\ IndexedOnlyByCard
  /\ \A p \in index : entry[p].status = "approved" \/ p \in vetoed
  /\ \A r \in Runs : run[r].card \in {"rejected", "expired"} => run[r].entry \notin index
  /\ \A r \in Runs : At(r, "completed") /\ run[r].card # None =>
       /\ entry[run[r].entry].status # "proposed"
       /\ run[r].card = "approved" => run[r].entry \in index

\* Without people launching runs or proposing, a case has at most one draft that is not
\* rejected, wherever a launch is cut off and repeated.
OneDraftPerCase ==
  byHand = 0 => \A p, q \in Entries :
    entry[p].case = entry[q].case /\ "rejected" \notin {entry[p].status, entry[q].status} => p = q

\* Every closed case is dealt with: it has an entry, or a run for it came to its end.
CaseSettles ==
  \A c \in Cases : IsClosed(c) ~>
    \/ \E p \in Entries : entry[p].case = c
    \/ \E r \in Runs : run[r].case = c /\ Ended(r)

\* Every card ends its run, decided or not, unless the ticket to resume it was refused.
CardEndsRun ==
  \A r \in 1 .. MaxRuns : (r \in Runs /\ run[r].card # None) ~> (r \in Runs /\ (Ended(r) \/ At(r, "stranded")))

\* Neither a closed case nor a card is left lying (autorun.ts:163-236,
\* run-dispatcher.ts:223-236).
IntakeSettles == CaseSettles /\ CardEndsRun

=============================================================================
