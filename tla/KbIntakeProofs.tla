---------------------------- MODULE KbIntakeProofs ----------------------------
(***************************************************************************)
(* What TLAPS proves of KbIntake, for every set of cases and any number of *)
(* runs, drafts and faults: nothing is indexed without the card of that    *)
(* very entry, the index and the ledger agree but for what REST rejected,  *)
(* and autorun by itself never puts a second draft beside a live one.      *)
(***************************************************************************)
EXTENDS KbIntake, SequenceTheorems, TLAPS

Places == {"queued", "card", "decided", "stranded", "completed", "failed"} \cup KnowledgePath
Entry == [case : Cases, status : {"proposed", "approved", "rejected"}]
Row == [case : Cases, at : Places, entry : Nat, card : {None, "pending", "approved", "rejected", "expired"}]

\* the types the invariants below rest on
Shape ==
  /\ closed \in Seq(Cases) /\ entry \in Seq(Entry) /\ run \in Seq(Row)
  /\ cursor \in Nat /\ byHand \in Nat
  /\ polling = "asking" => cursor < Len(closed)

\* a run that has not proposed yet
Before(r) == run[r].at \in {"queued", "distill", "propose"}

\* a card is decided once, and only an approved one leads to the index
CardTold ==
  \A r \in Runs :
    /\ Before(r) => run[r].card = None
    /\ At(r, "card") => run[r].card = "pending"
    /\ run[r].at \in {"approve", "upsert"} => run[r].card = "approved"

\* at most one run of a case is yet to propose, and then no draft of the case stands
OneRunToPropose ==
  byHand = 0 => \A r, s \in Runs : run[r].case = run[s].case /\ Before(r) /\ Before(s) => r = s
NoDraftBefore ==
  byHand = 0 => \A r \in Runs, p \in Entries :
    Before(r) /\ entry[p].case = run[r].case => entry[p].status = "rejected"

\* while autorun asks the ledger, the answer it had from the runs stays true
AnswerStands ==
  polling = "asking" /\ byHand = 0 =>
    \A r \in Runs : run[r].case = closed[cursor + 1] => At(r, "failed")

IndexInv == Shape /\ CardTold /\ IndexedOnlyByCard
DraftInv == OneRunToPropose /\ NoDraftBefore /\ AnswerStands /\ OneDraftPerCase

\* every card is about an entry, no two about the same
CardHasEntry == \A r \in Runs : run[r].card # None => run[r].entry \in Entries
CardsApart ==
  \A r, s \in Runs : run[r].card # None /\ run[s].card # None /\ run[r].entry = run[s].entry => r = s

\* a run goes the way its card was decided
DecisionTold ==
  \A r \in Runs : /\ At(r, "decided") => run[r].card \in {"approved", "rejected"}
                  /\ At(r, "reject") => run[r].card = "rejected"

\* an entry is rejected over REST or on its card
RejectedWhy ==
  \A p \in Entries : entry[p].status = "rejected" =>
    p \in vetoed \/ \E r \in Runs : run[r].entry = p /\ run[r].card = "rejected"

\* the ledger is written first, then the index
WrittenFirst == \A r \in Runs : At(r, "upsert") => entry[run[r].entry].status # "proposed"
IndexedDecided == \A p \in index : entry[p].status # "proposed"

\* a run that ended with its card decided has written both
CompletedTold ==
  \A r \in Runs : At(r, "completed") /\ run[r].card # None =>
    /\ entry[run[r].entry].status # "proposed"
    /\ run[r].card = "approved" => run[r].entry \in index

LedgerInv ==
  CardHasEntry /\ CardsApart /\ DecisionTold /\ RejectedWhy /\ WrittenFirst /\ IndexedDecided /\ CompletedTold

-----------------------------------------------------------------------------
(* The rows *)

\* What the types say of a single row, entry or event.
LEMMA RowTypes ==
  ASSUME Shape
  PROVE  /\ Runs = 1 .. Len(run) /\ Len(run) \in Nat /\ \A r \in Runs : run[r] \in Row
         /\ Entries = 1 .. Len(entry) /\ Len(entry) \in Nat /\ \A p \in Entries : entry[p] \in Entry
         /\ DOMAIN closed = 1 .. Len(closed) /\ Len(closed) \in Nat
         /\ \A i \in 1 .. Len(closed) : closed[i] \in Cases
<1>1. run \in [1 .. Len(run) -> Row] /\ Len(run) \in Nat
  BY LenProperties DEF Shape
<1>2. entry \in [1 .. Len(entry) -> Entry] /\ Len(entry) \in Nat
  BY LenProperties DEF Shape
<1>3. closed \in [1 .. Len(closed) -> Cases] /\ Len(closed) \in Nat
  BY LenProperties DEF Shape
<1> QED BY <1>1, <1>2, <1>3 DEF Runs, Entries

\* r alone changes, and keeps its case
Moves(r) ==
  /\ Runs' = Runs
  /\ \A s \in Runs \ {r} : run'[s] = run[s]
  /\ run'[r].case = run[r].case

\* Rewriting the row of a run, in the types, is a move of that run.
LEMMA RowRewritten ==
  ASSUME Shape, NEW r \in Runs, NEW row \in Row, row.case = run[r].case,
         run' = [run EXCEPT ![r] = row]
  PROVE  run' \in Seq(Row) /\ Moves(r) /\ run'[r] = row
<1>1. run \in [1 .. Len(run) -> Row] /\ Len(run) \in Nat /\ Runs = 1 .. Len(run)
  BY RowTypes, LenProperties DEF Shape
<1>2. run' \in [1 .. Len(run) -> Row]
  BY <1>1
<1>3. run' \in Seq(Row)
  BY <1>1, <1>2, SeqDef
<1>4. DOMAIN run' = 1 .. Len(run)
  BY <1>2
<1>5. Moves(r) /\ run'[r] = row
  BY <1>1, <1>4 DEF Moves, Runs
<1> QED BY <1>3, <1>5

\* Goes(r, place) changes the place of r only.
LEMMA GoesMoves ==
  ASSUME Shape, NEW r \in Runs, NEW place \in Places, Goes(r, place)
  PROVE  /\ run' \in Seq(Row) /\ Moves(r)
         /\ run'[r].at = place /\ run'[r].card = run[r].card /\ run'[r].entry = run[r].entry
<1> DEFINE row == [run[r] EXCEPT !.at = place]
<1>1. run[r] \in Row
  BY RowTypes
<1>2. /\ row \in Row /\ row.case = run[r].case /\ row.at = place
      /\ row.card = run[r].card /\ row.entry = run[r].entry
  BY <1>1 DEF Row
<1>3. run' = [run EXCEPT ![r] = row]
  BY DEF Goes
<1> HIDE DEF row
<1> QED BY <1>2, <1>3, RowRewritten

\* A new run is queued, without a card, after all others.
LEMMA LaunchAppends ==
  ASSUME Shape, NEW c \in Cases, Launch(c)
  PROVE  /\ run' \in Seq(Row) /\ Runs' = Runs \cup {Len(run) + 1}
         /\ Len(run) + 1 \notin Runs
         /\ \A s \in Runs : run'[s] = run[s]
         /\ run'[Len(run) + 1].case = c /\ run'[Len(run) + 1].at = "queued" /\ run'[Len(run) + 1].card = None
<1> DEFINE row == [case |-> c, at |-> "queued", entry |-> 0, card |-> None]
<1>1. row \in Row
  BY DEF Row, Places
<1>2. run' = Append(run, row)
  BY DEF Launch
<1>3. run \in Seq(Row) /\ Runs = 1 .. Len(run) /\ Len(run) \in Nat
  BY RowTypes DEF Shape
<1> HIDE DEF row
<1>4. /\ run' \in Seq(Row) /\ Len(run') = Len(run) + 1
      /\ \A s \in 1 .. Len(run) : run'[s] = run[s]
      /\ run'[Len(run) + 1] = row
  BY <1>1, <1>2, <1>3, AppendProperties
<1>5. Runs' = 1 .. Len(run')
  BY <1>4, LenProperties DEF Runs
<1>6. Runs' = Runs \cup {Len(run) + 1} /\ Len(run) + 1 \notin Runs
  BY <1>3, <1>4, <1>5
<1>7. row.case = c /\ row.at = "queued" /\ row.card = None
  BY DEF row
<1> QED BY <1>3, <1>4, <1>6, <1>7

-----------------------------------------------------------------------------
(* The ledger *)

\* a new draft of a case, after all others
Created(c) ==
  /\ Entries' = Entries \cup {Len(entry) + 1} /\ Len(entry) + 1 \notin Entries
  /\ \A p \in Entries : entry'[p] = entry[p]
  /\ entry'[Len(entry) + 1] = [case |-> c, status |-> "proposed"]

\* no draft is new, and only proposed ones may have been decided
Settled ==
  /\ Entries' = Entries
  /\ \A p \in Entries :
       /\ entry'[p].case = entry[p].case
       /\ entry'[p].status # entry[p].status => entry[p].status = "proposed"

\* Create(c) appends a proposed draft.
LEMMA CreateAppends ==
  ASSUME Shape, NEW c \in Cases, Create(c)
  PROVE  entry' \in Seq(Entry) /\ Created(c)
<1> DEFINE e == [case |-> c, status |-> "proposed"]
<1>1. e \in Entry
  BY DEF Entry
<1>2. entry' = Append(entry, e)
  BY DEF Create
<1>3. entry \in Seq(Entry) /\ Entries = 1 .. Len(entry) /\ Len(entry) \in Nat
  BY RowTypes DEF Shape
<1> HIDE DEF e
<1>4. /\ entry' \in Seq(Entry) /\ Len(entry') = Len(entry) + 1
      /\ \A p \in 1 .. Len(entry) : entry'[p] = entry[p]
      /\ entry'[Len(entry) + 1] = e
  BY <1>1, <1>2, <1>3, AppendProperties
<1>5. Entries' = 1 .. Len(entry')
  BY <1>4, LenProperties DEF Entries
<1>6. Entries' = Entries \cup {Len(entry) + 1} /\ Len(entry) + 1 \notin Entries
  BY <1>3, <1>4, <1>5
<1> QED BY <1>3, <1>4, <1>6 DEF e, Created

\* Decide(p, status) decides what is still proposed, whatever p is.
LEMMA DecideSettles ==
  ASSUME Shape, NEW p, NEW status \in {"approved", "rejected"}, Decide(p, status)
  PROVE  entry' \in Seq(Entry) /\ Settled
<1>1. entry \in [1 .. Len(entry) -> Entry] /\ Len(entry) \in Nat /\ Entries = 1 .. Len(entry)
  BY RowTypes, LenProperties DEF Shape
<1>2. CASE ~Decidable(p)
  BY <1>2 DEF Decide, Settled, Shape, Entries
<1>3. CASE Decidable(p)
  <2>1. entry' = [entry EXCEPT ![p].status = status]
    BY <1>3 DEF Decide
  <2>2. entry' \in [1 .. Len(entry) -> Entry]
    BY <1>1, <2>1 DEF Entry
  <2>3. entry' \in Seq(Entry)
    BY <1>1, <2>2, SeqDef
  <2>4. Entries' = Entries
    BY <1>1, <2>2 DEF Entries
  <2>5. ASSUME NEW q \in Entries
        PROVE  entry'[q].case = entry[q].case
               /\ (entry'[q].status # entry[q].status => entry[q].status = "proposed")
    BY <1>1, <1>3, <2>1 DEF Decidable, Entry
  <2> QED BY <2>3, <2>4, <2>5 DEF Settled
<1> QED BY <1>2, <1>3

\* An untouched ledger is settled.
LEMMA SameLedger ==
  ASSUME Shape, entry' = entry
  PROVE  entry' \in Seq(Entry) /\ Settled
BY DEF Shape, Settled, Entries

-----------------------------------------------------------------------------
(* What a step of a run may do, as far as the invariants are concerned *)

RunEffect(r) ==
  /\ run' \in Seq(Row) /\ entry' \in Seq(Entry) /\ Moves(r)
  /\ UNCHANGED <<closed, cursor, polling, byHand>>
  /\ ~At(r, "failed")
  /\ Before(r)' => Before(r) /\ run'[r].card = None
  /\ At(r, "card")' => run'[r].card = "pending"
  /\ run'[r].at \in {"approve", "upsert"} => run'[r].card = "approved"
  /\ run[r].card = "approved" => run'[r].card = "approved" /\ run'[r].entry = run[r].entry
  /\ index' = index \/ (run[r].card = "approved" /\ index' = index \cup {run[r].entry})
  /\ Settled \/ (Before(r) /\ ~Before(r)' /\ Created(run[r].case))

LEMMA EffectKeepsIndexInv ==
  ASSUME IndexInv, NEW r \in Runs, RunEffect(r)
  PROVE  IndexInv'
<1>1. Shape'
  BY DEF IndexInv, Shape, RunEffect
<1>2. Runs' = Runs /\ \A s \in Runs : s # r => run'[s] = run[s]
  BY DEF RunEffect, Moves
<1>3. CardTold'
  <2> SUFFICES ASSUME NEW s \in Runs
               PROVE  /\ Before(s)' => run'[s].card = None
                      /\ At(s, "card")' => run'[s].card = "pending"
                      /\ run'[s].at \in {"approve", "upsert"} => run'[s].card = "approved"
    BY <1>2 DEF CardTold
  <2>1. CASE s = r
    BY <2>1 DEF RunEffect
  <2>2. CASE s # r
    BY <1>2, <2>2 DEF IndexInv, CardTold, Before, At
  <2> QED BY <2>1, <2>2
<1>4. \A s \in Runs : run[s].card = "approved" => run'[s].card = "approved" /\ run'[s].entry = run[s].entry
  BY <1>2 DEF RunEffect
<1>5. IndexedOnlyByCard'
  <2> SUFFICES ASSUME NEW p \in index'
               PROVE  \E s \in Runs : run'[s].entry = p /\ run'[s].card = "approved"
    BY <1>2 DEF IndexedOnlyByCard
  <2>1. CASE p \in index
    BY <1>4, <2>1 DEF IndexInv, IndexedOnlyByCard
  <2>2. CASE p \notin index
    BY <1>4, <2>2 DEF RunEffect
  <2> QED BY <2>1, <2>2
<1> QED BY <1>1, <1>3, <1>5 DEF IndexInv

LEMMA EffectKeepsDraftInv ==
  ASSUME IndexInv, DraftInv, NEW r \in Runs, RunEffect(r)
  PROVE  DraftInv'
<1>1. /\ Runs' = Runs /\ byHand' = byHand
      /\ \A s \in Runs : run'[s].case = run[s].case /\ (Before(s)' => Before(s))
  BY DEF RunEffect, Moves, Before
<1>2. OneRunToPropose'
  BY <1>1 DEF DraftInv, OneRunToPropose
<1>3. AnswerStands'
  <2> SUFFICES ASSUME polling = "asking", byHand = 0, NEW s \in Runs, run[s].case = closed[cursor + 1]
               PROVE  At(s, "failed")'
    BY <1>1 DEF AnswerStands, RunEffect
  <2>1. At(s, "failed")
    BY DEF DraftInv, AnswerStands
  <2>2. s # r
    BY <2>1 DEF RunEffect
  <2> QED BY <2>1, <2>2 DEF RunEffect, Moves, At
<1>4. CASE Settled
  <2>1. NoDraftBefore'
    BY <1>1, <1>4 DEF DraftInv, NoDraftBefore, Settled
  <2>2. OneDraftPerCase'
    BY <1>1, <1>4 DEF DraftInv, OneDraftPerCase, Settled
  <2> QED BY <1>2, <1>3, <2>1, <2>2 DEF DraftInv
<1>5. CASE Before(r) /\ ~Before(r)' /\ Created(run[r].case)
  <2>1. \A s \in Runs : byHand = 0 /\ Before(s)' => run[s].case # run[r].case
    BY <1>1, <1>5 DEF DraftInv, OneRunToPropose
  <2>2. NoDraftBefore'
    BY <1>1, <1>5, <2>1 DEF DraftInv, NoDraftBefore, Created
  <2>3. \A p \in Entries : byHand = 0 /\ entry[p].case = run[r].case => entry[p].status = "rejected"
    BY <1>5 DEF DraftInv, NoDraftBefore
  <2>4. OneDraftPerCase'
    <3> SUFFICES ASSUME byHand = 0, NEW p \in Entries', NEW q \in Entries', entry'[p].case = entry'[q].case,
                        "rejected" \notin {entry'[p].status, entry'[q].status}
                 PROVE  p = q
      BY <1>1 DEF OneDraftPerCase
    <3>1. CASE p \in Entries /\ q \in Entries
      BY <1>5, <3>1 DEF DraftInv, OneDraftPerCase, Created
    <3>2. CASE p \in Entries /\ q = Len(entry) + 1
      BY <1>5, <2>3, <3>2 DEF Created
    <3>3. CASE q \in Entries /\ p = Len(entry) + 1
      BY <1>5, <2>3, <3>3 DEF Created
    <3> QED BY <1>5, <3>1, <3>2, <3>3 DEF Created
  <2> QED BY <1>2, <1>3, <2>2, <2>4 DEF DraftInv
<1> QED BY <1>4, <1>5 DEF RunEffect

-----------------------------------------------------------------------------
(* Every step of a run has that effect *)

\* a step that goes from a place past the proposal, or before it, and keeps the card
LEMMA GoesEffect ==
  ASSUME IndexInv, NEW r \in Runs, NEW place \in Places, Goes(r, place),
         ~At(r, "failed"),
         place \in {"queued", "distill", "propose"} => Before(r),
         place # "card",
         place \in {"approve", "upsert"} => run[r].card = "approved",
         UNCHANGED <<closed, cursor, polling, byHand>>,
         entry' \in Seq(Entry),
         Settled \/ (Before(r) /\ place = "failed" /\ Created(run[r].case)),
         index' = index \/ (run[r].card = "approved" /\ index' = index \cup {run[r].entry})
  PROVE  RunEffect(r)
<1>1. /\ run' \in Seq(Row) /\ Moves(r)
      /\ run'[r].at = place /\ run'[r].card = run[r].card /\ run'[r].entry = run[r].entry
  BY GoesMoves DEF IndexInv
<1>2. Before(r) => run[r].card = None
  BY DEF IndexInv, CardTold
<1> QED BY <1>1, <1>2 DEF RunEffect, Before, At

\* a step that decides the card, or opens it
LEMMA CardEffect ==
  ASSUME IndexInv, NEW r \in Runs, NEW place \in {"card", "decided", "failed"}, NEW e \in Nat,
         NEW k \in {"pending", "approved", "rejected", "expired"},
         run' = [run EXCEPT ![r] = [run[r] EXCEPT !.at = place, !.entry = e, !.card = k]],
         Before(r) \/ At(r, "card"),
         place = "card" => k = "pending",
         UNCHANGED <<closed, cursor, polling, byHand>>,
         index' = index, entry' \in Seq(Entry),
         Settled \/ (Before(r) /\ Created(run[r].case))
  PROVE  RunEffect(r)
<1> DEFINE row == [run[r] EXCEPT !.at = place, !.entry = e, !.card = k]
<1>1. run[r] \in Row
  BY RowTypes DEF IndexInv
<1>2. /\ row \in Row /\ row.case = run[r].case /\ row.at = place
      /\ row.entry = e /\ row.card = k
  BY <1>1 DEF Row, Places
<1>3. run' = [run EXCEPT ![r] = row]
  OBVIOUS
<1> HIDE DEF row
<1>4. run' \in Seq(Row) /\ Moves(r) /\ run'[r] = row
  BY <1>2, <1>3, RowRewritten DEF IndexInv
<1>5. run[r].card \in {None, "pending"}
  BY DEF IndexInv, CardTold
<1>6. run'[r].at = place /\ run'[r].card = k
  BY <1>2, <1>4
<1>7. ~At(r, "failed")
  BY DEF Before, At
<1> QED BY <1>4, <1>5, <1>6, <1>7 DEF RunEffect, Before, At, None

\* Start, Distill, Resume and ResumeMintFails only move the run on.
LEMMA QuietSteps ==
  ASSUME IndexInv, NEW r \in Runs, Start(r) \/ Distill(r) \/ Resume(r) \/ ResumeMintFails(r)
  PROVE  RunEffect(r)
<1> USE DEF Places, KnowledgePath, Before, At
<1>1. CASE Start(r)
  <2>1. Goes(r, "distill")
    BY <1>1 DEF Start
  <2> QED BY <1>1, <2>1, GoesEffect, SameLedger DEF Start, Quiet, IndexInv
<1>2. CASE Distill(r)
  <2>1. PICK place \in {"completed", "propose"} : Goes(r, place)
    BY <1>2 DEF Distill
  <2> QED BY <1>2, <2>1, GoesEffect, SameLedger DEF Distill, Quiet, IndexInv
<1>3. CASE Resume(r)
  <2>1. PICK place \in {"approve", "reject"} :
          Goes(r, place) /\ (place = "approve" => run[r].card = "approved")
    BY <1>3 DEF Resume
  <2> QED BY <1>3, <2>1, GoesEffect, SameLedger DEF Resume, Quiet, IndexInv
<1>4. CASE ResumeMintFails(r)
  <2>1. Goes(r, "stranded")
    BY <1>4 DEF ResumeMintFails
  <2> QED BY <1>4, <2>1, GoesEffect, SameLedger DEF ResumeMintFails, ledger, IndexInv
<1> QED BY <1>1, <1>2, <1>3, <1>4

\* Propose, DutyLeadDecides and Expire write the card.
LEMMA CardSteps ==
  ASSUME IndexInv, NEW r \in Runs,
         Propose(r) \/ Expire(r) \/ \E decision \in {"approved", "rejected"} : DutyLeadDecides(r, decision)
  PROVE  RunEffect(r)
<1>1. run[r] \in Row /\ Shape
  BY RowTypes DEF IndexInv
<1>2. CASE Propose(r)
  <2>1. Len(entry) + 1 \in Nat
    BY <1>1, RowTypes
  <2>2. run' = [run EXCEPT ![r] = [run[r] EXCEPT !.at = "card", !.entry = Len(entry) + 1, !.card = "pending"]]
    BY <1>2 DEF Propose
  <2>3. entry' \in Seq(Entry) /\ Created(run[r].case)
    BY <1>1, <1>2, CreateAppends DEF Propose, Row
  <2> QED BY <1>2, <2>1, <2>2, <2>3, CardEffect DEF Propose, Quiet, Before, At
<1>3. CASE Expire(r)
  <2>1. run' = [run EXCEPT ![r] = [run[r] EXCEPT !.at = "failed", !.entry = run[r].entry, !.card = "expired"]]
    BY <1>1, <1>3 DEF Expire, Row
  <2>2. run[r].entry \in Nat
    BY <1>1 DEF Row
  <2> QED BY <1>1, <1>3, <2>1, <2>2, CardEffect, SameLedger DEF Expire, Quiet
<1>4. ASSUME NEW decision \in {"approved", "rejected"}, DutyLeadDecides(r, decision)
      PROVE  RunEffect(r)
  <2>1. run' = [run EXCEPT ![r] = [run[r] EXCEPT !.at = "decided", !.entry = run[r].entry, !.card = decision]]
    BY <1>1, <1>4 DEF DutyLeadDecides, Row
  <2>2. run[r].entry \in Nat
    BY <1>1 DEF Row
  <2> QED BY <1>1, <1>4, <2>1, <2>2, CardEffect, SameLedger DEF DutyLeadDecides, Quiet
<1> QED BY <1>2, <1>3, <1>4

\* ApproveEntry, Upsert and RejectEntry write the ledger and the index.
LEMMA DecidedSteps ==
  ASSUME IndexInv, NEW r \in Runs, ApproveEntry(r) \/ Upsert(r) \/ RejectEntry(r)
  PROVE  RunEffect(r)
<1> USE DEF Places, KnowledgePath, Before, At
<1>1. Shape /\ (run[r].at \in {"approve", "upsert"} => run[r].card = "approved")
  BY DEF IndexInv, CardTold
<1>2. CASE ApproveEntry(r)
  <2>1. Goes(r, "upsert") /\ entry' \in Seq(Entry) /\ Settled
    BY <1>1, <1>2, DecideSettles DEF ApproveEntry
  <2> QED BY <1>1, <1>2, <2>1, GoesEffect DEF ApproveEntry, Quiet
<1>3. CASE Upsert(r)
  <2>1. Goes(r, "completed") /\ entry' \in Seq(Entry) /\ Settled
    BY <1>1, <1>3, SameLedger DEF Upsert
  <2> QED BY <1>1, <1>3, <2>1, GoesEffect DEF Upsert, Quiet
<1>4. CASE RejectEntry(r)
  <2>1. Goes(r, "completed") /\ entry' \in Seq(Entry) /\ Settled
    BY <1>1, <1>4, DecideSettles DEF RejectEntry
  <2> QED BY <1>1, <1>4, <2>1, GoesEffect DEF RejectEntry, Quiet
<1> QED BY <1>2, <1>3, <1>4

\* A run that fails may have been served by the other side.
LEMMA FailedSteps ==
  ASSUME IndexInv, NEW r \in Runs, RunFails(r)
  PROVE  RunEffect(r)
<1> USE DEF Places, KnowledgePath, Before, At
<1>1. Shape /\ (run[r].at \in {"approve", "upsert"} => run[r].card = "approved") /\ run[r] \in Row
  BY RowTypes DEF IndexInv, CardTold
<1>2. Goes(r, "failed") /\ ~At(r, "failed") /\ UNCHANGED <<closed, cursor, polling, byHand>>
  BY DEF RunFails, Running
<1>3. CASE UNCHANGED <<entry, index>>
  BY <1>1, <1>2, <1>3, GoesEffect, SameLedger
<1>4. CASE At(r, "propose") /\ Create(run[r].case) /\ UNCHANGED index
  <2>1. entry' \in Seq(Entry) /\ Created(run[r].case)
    BY <1>1, <1>4, CreateAppends DEF Row
  <2> QED BY <1>2, <1>4, <2>1, GoesEffect
<1>5. CASE \E status \in {"approved", "rejected"} : Decide(run[r].entry, status) /\ UNCHANGED index
  <2>1. entry' \in Seq(Entry) /\ Settled
    BY <1>1, <1>5, DecideSettles
  <2> QED BY <1>2, <1>5, <2>1, GoesEffect
<1>6. CASE At(r, "upsert") /\ index' = index \cup {run[r].entry} /\ UNCHANGED entry
  <2>1. entry' \in Seq(Entry) /\ Settled
    BY <1>1, <1>6, SameLedger
  <2> QED BY <1>1, <1>2, <1>6, <2>1, GoesEffect
<1> QED BY <1>3, <1>4, <1>5, <1>6 DEF RunFails

-----------------------------------------------------------------------------
(* Every step keeps both invariants *)

KbInv == IndexInv /\ DraftInv

\* A new run is harmless if nobody counts drafts any more, or its case has neither a
\* run that is not failed nor a live draft.
LEMMA LaunchKeeps ==
  ASSUME KbInv, NEW c \in Cases, Launch(c), UNCHANGED ledger, cursor' \in Nat, byHand' \in Nat,
         polling' # "asking" \/ (UNCHANGED <<cursor, polling>> /\ byHand' # 0),
         byHand' = 0 => /\ byHand = 0
                        /\ \A r \in Runs : run[r].case = c => At(r, "failed")
                        /\ ~HasKbEntryForCase(c)
  PROVE  KbInv'
<1> DEFINE n == Len(run) + 1
<1> HIDE DEF n
<1>1. /\ run' \in Seq(Row) /\ Runs' = Runs \cup {n} /\ n \notin Runs
      /\ \A s \in Runs : run'[s] = run[s]
      /\ run'[n].case = c /\ run'[n].at = "queued" /\ run'[n].card = None
  BY LaunchAppends DEF KbInv, IndexInv, n
<1>2. closed' = closed /\ entry' = entry /\ index' = index /\ Entries' = Entries
  BY DEF ledger, Entries
<1>3. Shape'
  BY <1>1, <1>2 DEF KbInv, IndexInv, Shape
<1>4. CardTold'
  BY <1>1 DEF KbInv, IndexInv, CardTold, Before, At
<1>5. IndexedOnlyByCard'
  BY <1>1, <1>2 DEF KbInv, IndexInv, IndexedOnlyByCard
<1>6. OneRunToPropose'
  BY <1>1 DEF KbInv, DraftInv, OneRunToPropose, Before, At
<1>7. \A p \in Entries : byHand' = 0 /\ entry[p].case = c => entry[p].status = "rejected"
  BY RowTypes DEF KbInv, IndexInv, HasKbEntryForCase, Entry
<1>8. NoDraftBefore'
  BY <1>1, <1>2, <1>7 DEF KbInv, DraftInv, NoDraftBefore, Before
<1>9. AnswerStands' /\ OneDraftPerCase'
  BY <1>1, <1>2 DEF KbInv, DraftInv, AnswerStands, OneDraftPerCase
<1> QED BY <1>3, <1>4, <1>5, <1>6, <1>8, <1>9 DEF KbInv, IndexInv, DraftInv

\* What leaves runs and index alone keeps IndexInv; what also leaves the ledger and
\* the count of people alone keeps DraftInv, if autorun is not left asking.
LEMMA NoRunMoves ==
  ASSUME KbInv, UNCHANGED <<ledger, run, byHand>>, cursor' \in Nat, polling' # "asking"
  PROVE  KbInv'
<1>1. Runs' = Runs /\ Entries' = Entries /\ \A r \in Runs : Before(r)' = Before(r) /\ \A p \in Places : At(r, p)' = At(r, p)
  BY DEF Runs, Entries, Before, At, ledger
<1>2. IndexInv'
  BY <1>1 DEF KbInv, IndexInv, Shape, CardTold, IndexedOnlyByCard, ledger, Runs, Entries, Before, At
<1>3. DraftInv'
  BY <1>1 DEF KbInv, DraftInv, OneRunToPropose, NoDraftBefore, AnswerStands, OneDraftPerCase, ledger
<1> QED BY <1>2, <1>3 DEF KbInv

\* A case closes; the event at the cursor stays the one it was.
LEMMA CloseCaseKeeps ==
  ASSUME KbInv, NEW c \in Cases, CloseCase(c)
  PROVE  KbInv'
<1>1. UNCHANGED <<entry, index, run, cursor, polling, byHand>> /\ closed' = Append(closed, c)
  BY DEF CloseCase, process
<1>2. Shape
  BY DEF KbInv, IndexInv
<1>3. /\ closed' \in Seq(Cases) /\ Len(closed') = Len(closed) + 1 /\ Len(closed) \in Nat
      /\ \A i \in 1 .. Len(closed) : closed'[i] = closed[i]
  BY <1>1, <1>2, AppendProperties, RowTypes DEF Shape
<1>4. polling = "asking" => cursor + 1 \in 1 .. Len(closed)
  BY <1>2, <1>3 DEF Shape
<1>5. IndexInv'
  BY <1>1, <1>2, <1>3 DEF KbInv, IndexInv, Shape, CardTold, IndexedOnlyByCard, Runs, Before, At
<1>6. DraftInv'
  BY <1>1, <1>3, <1>4
     DEF KbInv, DraftInv, OneRunToPropose, NoDraftBefore, AnswerStands, OneDraftPerCase, Runs, Entries, Before, At
<1> QED BY <1>5, <1>6 DEF KbInv

\* A draft proposed by hand ends the count of drafts.
LEMMA ReviewerProposesKeeps ==
  ASSUME KbInv, NEW c \in Cases, ReviewerProposes(c)
  PROVE  KbInv'
<1>1. UNCHANGED <<closed, index, run, cursor, polling>> /\ Create(c)
  BY DEF ReviewerProposes, process
<1>2. byHand' \in Nat /\ byHand' # 0
  BY DEF ReviewerProposes, ByHand, KbInv, IndexInv, Shape
<1>3. entry' \in Seq(Entry)
  BY <1>1, CreateAppends DEF KbInv, IndexInv
<1>4. IndexInv'
  BY <1>1, <1>2, <1>3 DEF KbInv, IndexInv, Shape, CardTold, IndexedOnlyByCard, Runs, Before, At
<1>5. DraftInv'
  BY <1>2 DEF DraftInv, OneRunToPropose, NoDraftBefore, AnswerStands, OneDraftPerCase
<1> QED BY <1>4, <1>5 DEF KbInv

\* A decision over REST settles the ledger and indexes nothing.
LEMMA ReviewerDecidesKeeps ==
  ASSUME KbInv, NEW p \in Entries, NEW status \in {"approved", "rejected"}, ReviewerDecides(p, status)
  PROVE  KbInv'
<1>1. UNCHANGED <<closed, index, run, cursor, polling, byHand>>
  BY DEF ReviewerDecides, process
<1>2. entry' \in Seq(Entry) /\ Settled
  BY DecideSettles DEF ReviewerDecides, KbInv, IndexInv
<1>3. IndexInv'
  BY <1>1, <1>2 DEF KbInv, IndexInv, Shape, CardTold, IndexedOnlyByCard, Runs, Before, At
<1>4. OneRunToPropose' /\ AnswerStands'
  BY <1>1 DEF KbInv, DraftInv, OneRunToPropose, AnswerStands, Runs, Before, At
<1>5. NoDraftBefore' /\ OneDraftPerCase'
  BY <1>1, <1>2 DEF KbInv, DraftInv, NoDraftBefore, OneDraftPerCase, Settled, Runs, Before
<1> QED BY <1>3, <1>4, <1>5 DEF KbInv, DraftInv

\* Poll asks the runs: none of the case is alive when autorun goes on to the ledger.
LEMMA PollKeeps ==
  ASSUME KbInv, Poll
  PROVE  KbInv'
<1>1. cursor \in Nat /\ cursor < Len(closed) /\ UNCHANGED <<ledger, run, byHand>>
  BY DEF Poll, Skip, KbInv, IndexInv, Shape
<1>2. CASE Skip
  BY <1>1, <1>2, NoRunMoves DEF Skip
<1>3. CASE ~HasActiveRun(closed[cursor + 1]) /\ polling' = "asking" /\ UNCHANGED <<run, cursor>>
  <2>1. UNCHANGED <<closed, entry, index, run, cursor, byHand>>
    BY <1>1, <1>3 DEF ledger
  <2>2. IndexInv'
    BY <1>1, <2>1 DEF KbInv, IndexInv, Shape, CardTold, IndexedOnlyByCard, Runs, Before, At
  <2>3. AnswerStands'
    BY <1>3, <2>1 DEF AnswerStands, HasActiveRun, Runs, At
  <2>4. DraftInv'
    BY <2>1, <2>3 DEF KbInv, DraftInv, OneRunToPropose, NoDraftBefore, OneDraftPerCase, Runs, Entries, Before
  <2> QED BY <2>2, <2>4 DEF KbInv
<1> QED BY <1>2, <1>3 DEF Poll

\* AskLedger launches only where the ledger has no live draft.
LEMMA AskLedgerKeeps ==
  ASSUME KbInv, AskLedger
  PROVE  KbInv'
<1> DEFINE c == closed[cursor + 1]
<1>1. /\ cursor \in Nat /\ byHand \in Nat /\ cursor < Len(closed) /\ Len(closed) \in Nat
      /\ UNCHANGED <<ledger, byHand>>
  BY RowTypes DEF AskLedger, KbInv, IndexInv, Shape
<1>2. CASE Skip
  BY <1>1, <1>2, NoRunMoves DEF Skip
<1>3. CASE ~HasKbEntryForCase(c) /\ Launch(c) /\ polling' = "launched" /\ UNCHANGED cursor
  <2>1. c \in Cases
    BY <1>1, RowTypes DEF KbInv, IndexInv
  <2>2. byHand = 0 => \A r \in Runs : run[r].case = c => At(r, "failed")
    BY DEF AskLedger, KbInv, DraftInv, AnswerStands
  <2> HIDE DEF c
  <2> QED BY <1>1, <1>3, <2>1, <2>2, LaunchKeeps
<1> QED BY <1>2, <1>3 DEF AskLedger

\* A run by hand ends the count of drafts.
LEMMA PostRunKeeps ==
  ASSUME KbInv, NEW c \in Cases, PostRun(c)
  PROVE  KbInv'
<1>1. byHand' \in Nat /\ byHand' # 0 /\ cursor' \in Nat
  BY DEF PostRun, ByHand, KbInv, IndexInv, Shape
<1> QED BY <1>1, LaunchKeeps DEF PostRun

\* A crash fails the runs under way, and autorun starts anew.
LEMMA CrashKeeps ==
  ASSUME KbInv, Crash
  PROVE  KbInv'
<1>1. UNCHANGED <<closed, entry, index, cursor, byHand>> /\ polling' = "idle"
  BY DEF Crash, ledger
<1>2. run \in [1 .. Len(run) -> Row] /\ Len(run) \in Nat /\ Runs = 1 .. Len(run) /\ \A r \in Runs : run[r] \in Row
  BY RowTypes, LenProperties DEF KbInv, IndexInv, Shape
<1>3. \A r \in Runs : run[r] \in Row => [run[r] EXCEPT !.at = "failed"] \in Row
  BY DEF Row, Places
<1>4. run' = [r \in 1 .. Len(run) |-> IF Running(r) THEN [run[r] EXCEPT !.at = "failed"] ELSE run[r]]
  BY <1>2 DEF Crash
<1>5. run' \in [1 .. Len(run) -> Row]
  BY <1>2, <1>3, <1>4
<1>6. run' \in Seq(Row) /\ Runs' = Runs
  BY <1>2, <1>5, SeqDef DEF Runs
<1>7. ASSUME NEW r \in Runs
      PROVE  /\ run'[r].case = run[r].case /\ run'[r].card = run[r].card /\ run'[r].entry = run[r].entry
             /\ run'[r].at = "failed" \/ run'[r].at = run[r].at
  BY <1>2, <1>4 DEF Row
<1>8. IndexInv'
  <2>1. Shape'
    BY <1>1, <1>6 DEF KbInv, IndexInv, Shape
  <2>2. CardTold'
    BY <1>6, <1>7 DEF KbInv, IndexInv, CardTold, Before, At
  <2>3. IndexedOnlyByCard'
    BY <1>1, <1>6, <1>7 DEF KbInv, IndexInv, IndexedOnlyByCard
  <2> QED BY <2>1, <2>2, <2>3 DEF IndexInv
<1>9. DraftInv'
  <2>1. \A r \in Runs : Before(r)' => Before(r)
    BY <1>7 DEF Before
  <2>2. Entries' = Entries
    BY <1>1 DEF Entries
  <2> QED BY <1>1, <1>6, <1>7, <2>1, <2>2
          DEF KbInv, DraftInv, OneRunToPropose, NoDraftBefore, AnswerStands, OneDraftPerCase
<1> QED BY <1>8, <1>9 DEF KbInv

LEMMA InitKbInv ==
  ASSUME Init
  PROVE  KbInv
<1>1. Runs = {} /\ Entries = {} /\ index = {} /\ polling = "idle"
  BY DEF Init, Runs, Entries
<1>2. Shape
  BY DEF Init, Shape
<1> QED BY <1>1, <1>2 DEF KbInv, IndexInv, DraftInv, CardTold, IndexedOnlyByCard, OneRunToPropose,
          NoDraftBefore, AnswerStands, OneDraftPerCase

LEMMA NextKbInv ==
  ASSUME KbInv, [Next]_vars
  PROVE  KbInv'
<1>1. ASSUME NEW c \in Cases, CloseCase(c) \/ ReviewerProposes(c) \/ PostRun(c)
      PROVE  KbInv'
  BY <1>1, CloseCaseKeeps, ReviewerProposesKeeps, PostRunKeeps
<1>2. ASSUME NEW p \in Entries, NEW status \in {"approved", "rejected"}, ReviewerDecides(p, status)
      PROVE  KbInv'
  BY <1>2, ReviewerDecidesKeeps
<1>3. CASE Poll
  BY <1>3, PollKeeps
<1>4. CASE AskLedger
  BY <1>4, AskLedgerKeeps
<1>5. CASE AskFails \/ MoveCursor
  <2>1. cursor \in Nat
    BY DEF KbInv, IndexInv, Shape
  <2>2. UNCHANGED <<ledger, run, byHand>> /\ cursor' \in Nat /\ polling' # "asking"
    BY <1>5, <2>1 DEF AskFails, MoveCursor, Skip
  <2> QED BY <2>2, NoRunMoves
<1>6. ASSUME NEW r \in Runs,
             RunStep(r) \/ RunFails(r) \/ ResumeMintFails(r)
             \/ \E decision \in {"approved", "rejected"} : DutyLeadDecides(r, decision)
      PROVE  KbInv'
  <2>1. RunEffect(r)
    BY <1>6, QuietSteps, CardSteps, DecidedSteps, FailedSteps DEF KbInv, RunStep
  <2> QED BY <2>1, EffectKeepsIndexInv, EffectKeepsDraftInv DEF KbInv
<1>7. CASE Crash
  BY <1>7, CrashKeeps
<1>8. CASE UNCHANGED vars
  BY <1>8 DEF vars, ledger, process, KbInv, IndexInv, DraftInv, Shape, CardTold, IndexedOnlyByCard, OneRunToPropose,
              NoDraftBefore, AnswerStands, OneDraftPerCase, Runs, Entries, Before, At
<1> QED BY <1>1, <1>2, <1>3, <1>4, <1>5, <1>6, <1>7, <1>8 DEF Next

-----------------------------------------------------------------------------
(* The index and the ledger *)

\* what a step of a run does to its card, its entry and the index
Written(r) == entry'[run'[r].entry].status # "proposed"
LedgerEffect(r) ==
  /\ vetoed' = vetoed
  /\ \/ /\ Entries' = Entries /\ run'[r].entry = run[r].entry
        /\ run[r].card = None => run'[r].card = None
        /\ \A p \in Entries : entry'[p] # entry[p] =>
             p = run[r].entry /\ run[r].card # None /\ entry'[p].status = run[r].card
     \/ /\ Created(run[r].case) /\ run[r].card = None
        /\ run'[r].entry = Len(entry) + 1 \/ run'[r].card = None
  /\ run[r].card # None => run'[r].card # None
  /\ run[r].card = "rejected" => run'[r].card = "rejected"
  /\ At(r, "decided")' => run'[r].card \in {"approved", "rejected"}
  /\ At(r, "reject")' => run'[r].card = "rejected"
  /\ At(r, "upsert")' => Written(r)
  /\ index' = index \/ (At(r, "upsert") /\ index' = index \cup {run[r].entry})
  /\ At(r, "completed")' /\ run'[r].card # None =>
       Written(r) /\ (run'[r].card = "approved" => run'[r].entry \in index')

\* What Decide(p, status) does to an entry that exists.
LEMMA DecideDoes ==
  ASSUME Shape, NEW p \in Entries, NEW status \in {"approved", "rejected"}, Decide(p, status)
  PROVE  /\ Entries' = Entries /\ entry'[p].status # "proposed"
         /\ \A q \in Entries : entry'[q] # entry[q] => q = p /\ entry'[q].status = status
<1>1. entry \in [1 .. Len(entry) -> Entry] /\ Entries = 1 .. Len(entry)
  BY RowTypes, LenProperties DEF Shape
<1>2. CASE ~Decidable(p)
  BY <1>2 DEF Decide, Decidable, Entries
<1>3. CASE Decidable(p)
  <2>1. entry' = [entry EXCEPT ![p].status = status]
    BY <1>3 DEF Decide
  <2>2. Entries' = Entries
    BY <1>1, <2>1 DEF Entries
  <2>3. entry'[p].status = status
    BY <1>1, <2>1 DEF Entry
  <2>4. \A q \in Entries : q # p => entry'[q] = entry[q]
    BY <1>1, <2>1
  <2> QED BY <2>2, <2>3, <2>4
<1> QED BY <1>2, <1>3

\* A run that goes on with its card and entry, and decides at most that entry, that way.
LEMMA GoesLedger ==
  ASSUME IndexInv, NEW r \in Runs, NEW place \in Places, Goes(r, place), vetoed' = vetoed,
         \/ entry' = entry
         \/ /\ Entries' = Entries
            /\ \A p \in Entries : entry'[p] # entry[p] =>
                 p = run[r].entry /\ run[r].card # None /\ entry'[p].status = run[r].card
         \/ Created(run[r].case) /\ run[r].card = None,
         place = "decided" => run[r].card \in {"approved", "rejected"},
         place = "reject" => run[r].card = "rejected",
         place = "upsert" => entry'[run[r].entry].status # "proposed",
         index' = index \/ (At(r, "upsert") /\ index' = index \cup {run[r].entry}),
         place = "completed" /\ run[r].card # None =>
           entry'[run[r].entry].status # "proposed" /\ (run[r].card = "approved" => run[r].entry \in index')
  PROVE  LedgerEffect(r)
<1>1. run'[r].at = place /\ run'[r].card = run[r].card /\ run'[r].entry = run[r].entry
  BY GoesMoves DEF IndexInv
<1>2. entry' = entry => Entries' = Entries
  BY DEF Entries
<1> QED BY <1>1, <1>2 DEF LedgerEffect, Written, At

\* Every step of a run has that effect.
LEMMA StepLedger ==
  ASSUME IndexInv, LedgerInv, NEW r \in Runs,
         RunStep(r) \/ RunFails(r) \/ ResumeMintFails(r)
         \/ \E decision \in {"approved", "rejected"} : DutyLeadDecides(r, decision)
  PROVE  LedgerEffect(r)
<1> USE DEF Places, KnowledgePath, Before, At
<1>1. /\ Shape /\ run[r] \in Row /\ run \in [Runs -> Row]
      /\ Before(r) => run[r].card = None
      /\ At(r, "card") => run[r].card = "pending"
      /\ run[r].at \in {"approve", "upsert"} => run[r].card = "approved"
  BY RowTypes, LenProperties DEF IndexInv, CardTold, Shape
<1>2. /\ run[r].card # None => run[r].entry \in Entries
      /\ At(r, "decided") => run[r].card \in {"approved", "rejected"}
      /\ At(r, "reject") => run[r].card = "rejected"
      /\ At(r, "upsert") => entry[run[r].entry].status # "proposed"
  BY DEF LedgerInv, CardHasEntry, DecisionTold, WrittenFirst
<1>3. "approved" # None /\ "rejected" # None /\ "pending" # None /\ "expired" # None
  BY DEF None
<1>4. ASSUME NEW k \in {"pending", "approved", "rejected", "expired"}, NEW place \in {"card", "decided", "failed"},
             NEW e, run' = [run EXCEPT ![r] = [run[r] EXCEPT !.at = place, !.entry = e, !.card = k]]
      PROVE  run'[r].at = place /\ run'[r].entry = e /\ run'[r].card = k
  BY <1>1, <1>4 DEF Row
<1>5. CASE Propose(r)
  <2>1. run' = [run EXCEPT ![r] = [run[r] EXCEPT !.at = "card", !.entry = Len(entry) + 1, !.card = "pending"]]
    BY <1>5 DEF Propose
  <2>2. Created(run[r].case)
    BY <1>1, <1>5, CreateAppends DEF Propose, Row
  <2>3. run'[r].at = "card" /\ run'[r].entry = Len(entry) + 1 /\ run'[r].card = "pending"
    BY <1>4, <2>1
  <2>4. run[r].card = None /\ index' = index /\ vetoed' = vetoed
    BY <1>1, <1>5 DEF Propose, Quiet
  <2> QED BY <1>3, <2>2, <2>3, <2>4 DEF LedgerEffect
<1>6. CASE Expire(r) \/ \E decision \in {"approved", "rejected"} : DutyLeadDecides(r, decision)
  <2>1. PICK k \in {"approved", "rejected", "expired"}, place \in {"decided", "failed"} :
          /\ run' = [run EXCEPT ![r] = [run[r] EXCEPT !.at = place, !.entry = run[r].entry, !.card = k]]
          /\ place = "decided" => k \in {"approved", "rejected"}
    BY <1>1, <1>6 DEF Expire, DutyLeadDecides, Row
  <2>2. At(r, "card") /\ entry' = entry /\ index' = index /\ vetoed' = vetoed
    BY <1>6 DEF Expire, DutyLeadDecides, Quiet
  <2>3. Entries' = Entries
    BY <2>2 DEF Entries
  <2> QED BY <1>1, <1>3, <1>4, <2>1, <2>2, <2>3 DEF LedgerEffect
<1>7. CASE Start(r) \/ Distill(r) \/ Resume(r) \/ ResumeMintFails(r)
  <2>1. PICK place \in Places :
          /\ Goes(r, place)
          /\ place \in {"distill", "completed", "propose", "approve", "reject", "stranded"}
          /\ place = "completed" => Before(r)
          /\ place = "reject" => run[r].card = "rejected"
    BY <1>2, <1>7 DEF Start, Distill, Resume, ResumeMintFails
  <2>2. entry' = entry /\ index' = index /\ vetoed' = vetoed
    BY <1>7 DEF Start, Distill, Resume, ResumeMintFails, Quiet, ledger
  <2> QED BY <1>1, <2>1, <2>2, GoesLedger
<1>8. ASSUME Decide(run[r].entry, run[r].card), run[r].at \in {"approve", "reject"}
      PROVE  /\ Entries' = Entries /\ entry'[run[r].entry].status # "proposed"
             /\ \A p \in Entries : entry'[p] # entry[p] =>
                  p = run[r].entry /\ run[r].card # None /\ entry'[p].status = run[r].card
  <2>1. run[r].card \in {"approved", "rejected"} /\ run[r].entry \in Entries
    BY <1>1, <1>2, <1>3, <1>8
  <2> QED BY <1>1, <1>3, <1>8, <2>1, DecideDoes
<1>9. CASE ApproveEntry(r)
  <2>1. Decide(run[r].entry, run[r].card) /\ Goes(r, "upsert") /\ index' = index /\ vetoed' = vetoed /\ At(r, "approve")
    BY <1>1, <1>9 DEF ApproveEntry, Quiet
  <2> QED BY <1>8, <2>1, GoesLedger
<1>10. CASE RejectEntry(r)
  <2>1. Decide(run[r].entry, run[r].card) /\ Goes(r, "completed") /\ index' = index /\ vetoed' = vetoed /\ At(r, "reject")
    BY <1>2, <1>10 DEF RejectEntry, Quiet
  <2> QED BY <1>2, <1>8, <2>1, GoesLedger
<1>11. CASE Upsert(r)
  <2>1. Goes(r, "completed") /\ index' = index \cup {run[r].entry} /\ entry' = entry /\ vetoed' = vetoed /\ At(r, "upsert")
    BY <1>11 DEF Upsert, Quiet
  <2> QED BY <1>2, <2>1, GoesLedger
<1>12. CASE RunFails(r)
  <2>1. Goes(r, "failed") /\ vetoed' = vetoed
    BY <1>12 DEF RunFails
  <2>2. CASE entry' = entry /\ (index' = index \/ (At(r, "upsert") /\ index' = index \cup {run[r].entry}))
    BY <2>1, <2>2, GoesLedger
  <2>3. CASE At(r, "propose") /\ Create(run[r].case) /\ UNCHANGED index
    <3>1. Created(run[r].case)
      BY <1>1, <2>3, CreateAppends DEF Row
    <3> QED BY <1>1, <2>1, <2>3, <3>1, GoesLedger
  <2>4. CASE run[r].at \in {"approve", "reject"} /\ Decide(run[r].entry, run[r].card) /\ UNCHANGED index
    BY <1>8, <2>1, <2>4, GoesLedger
  <2> QED BY <1>1, <1>2, <1>12, <2>2, <2>3, <2>4 DEF RunFails
<1> QED BY <1>5, <1>6, <1>7, <1>9, <1>10, <1>11, <1>12 DEF RunStep

LEMMA EffectKeepsLedgerInv ==
  ASSUME IndexInv, LedgerInv, NEW r \in Runs, RunEffect(r), LedgerEffect(r)
  PROVE  LedgerInv'
<1>1. Runs' = Runs /\ \A s \in Runs : s # r => run'[s] = run[s]
  BY DEF RunEffect, Moves
<1>2. /\ Entries = 1 .. Len(entry) /\ Len(entry) \in Nat /\ Len(entry) + 1 \notin Entries
      /\ \A p \in Entries : entry[p] \in Entry
  BY RowTypes DEF IndexInv
<1>3. /\ \A s \in Runs : run[s].card # None => run[s].entry \in Entries
      /\ \A p \in index : p \in Entries
  BY <1>2 DEF IndexInv, LedgerInv, CardHasEntry, IndexedOnlyByCard, None
<1>4. "approved" # None /\ "rejected" # None /\ "proposed" # "approved" /\ "proposed" # "rejected"
  BY DEF None
\* what was decided stays decided
<1>5. /\ Entries \subseteq Entries'
      /\ \A p \in Entries : entry[p].status # "proposed" => entry'[p] = entry[p]
      /\ \A p \in Entries : entry'[p] # entry[p] =>
           p = run[r].entry /\ run[r].card # None /\ entry'[p].status = run[r].card
  <2>1. CASE Settled
    <3>1. Entries' = Entries
      BY <2>1 DEF Settled
    <3>2. \A p \in Entries : entry'[p] \in Entry
      <4>1. \A p \in Entries' : entry'[p] \in Entry
        BY LenProperties DEF RunEffect, Entries
      <4> QED BY <3>1, <4>1
    <3>3. \A p \in Entries : entry'[p].case = entry[p].case
                          /\ (entry'[p].status # entry[p].status => entry[p].status = "proposed")
      BY <2>1 DEF Settled
    <3>4. \A p \in Entries : entry'[p].status = entry[p].status => entry'[p] = entry[p]
      BY <1>2, <3>2, <3>3 DEF Entry
    <3>5. ~Created(run[r].case)
      BY <1>2, <3>1 DEF Created
    <3> QED BY <3>1, <3>3, <3>4, <3>5 DEF LedgerEffect
  <2>2. CASE Created(run[r].case)
    BY <2>2 DEF Created
  <2> QED BY <2>1, <2>2 DEF RunEffect
<1>6. CardHasEntry' /\ CardsApart'
  <2>1. \/ run'[r].entry = run[r].entry /\ (run[r].card = None => run'[r].card = None)
        \/ run'[r].card = None
        \/ run'[r].entry = Len(entry) + 1 /\ Len(entry) + 1 \in Entries'
    BY DEF LedgerEffect, Created
  <2>2. CardHasEntry'
    BY <1>1, <1>3, <1>5, <2>1 DEF CardHasEntry
  <2>3. CardsApart'
    <3>1. ASSUME NEW s \in Runs, s # r, run[s].card # None, run'[r].card # None PROVE run'[r].entry # run[s].entry
      <4>1. run[s].entry \in Entries /\ (run[r].card # None => run[s].entry # run[r].entry)
        BY <1>3, <3>1 DEF LedgerInv, CardsApart
      <4> QED BY <1>2, <2>1, <3>1, <4>1
    <3>2. \A s, t \in Runs : s # r /\ t # r /\ run[s].card # None /\ run[t].card # None /\ run[s].entry = run[t].entry => s = t
      BY DEF LedgerInv, CardsApart
    <3> QED BY <1>1, <3>1, <3>2 DEF CardsApart
  <2> QED BY <2>2, <2>3
<1>7. DecisionTold'
  BY <1>1 DEF LedgerInv, DecisionTold, LedgerEffect, At
<1>8. RejectedWhy'
  <2> SUFFICES ASSUME NEW p \in Entries', entry'[p].status = "rejected"
               PROVE  p \in vetoed \/ \E s \in Runs : run'[s].entry = p /\ run'[s].card = "rejected"
    BY <1>1 DEF RejectedWhy, LedgerEffect
  <2>1. p \in Entries
    BY <1>4 DEF LedgerEffect, Created
  <2>2. \A s \in Runs : run[s].card = "rejected" => run'[s].card = "rejected" /\ run'[s].entry = run[s].entry
    BY <1>1, <1>4 DEF LedgerEffect
  <2>3. CASE entry'[p] = entry[p]
    BY <2>1, <2>2, <2>3 DEF LedgerInv, RejectedWhy
  <2>4. CASE entry'[p] # entry[p]
    BY <1>5, <2>1, <2>2, <2>4
  <2> QED BY <2>3, <2>4
<1>9. WrittenFirst' /\ CompletedTold'
  <2>1. \A p \in index : p \in index'
    BY DEF LedgerEffect
  <2>2. ASSUME NEW s \in Runs, s # r
        PROVE  /\ At(s, "upsert")' => entry'[run'[s].entry].status # "proposed"
               /\ At(s, "completed")' /\ run'[s].card # None =>
                    /\ entry'[run'[s].entry].status # "proposed"
                    /\ run'[s].card = "approved" => run'[s].entry \in index'
    <3>1. run'[s] = run[s] /\ (At(s, "upsert") => run[s].card # None)
      BY <1>1, <1>4, <2>2 DEF IndexInv, CardTold, At
    <3> QED BY <1>3, <1>5, <2>1, <3>1 DEF LedgerInv, WrittenFirst, CompletedTold, At
  <2> QED BY <1>1, <2>2 DEF WrittenFirst, CompletedTold, LedgerEffect, Written
<1>10. IndexedDecided'
  <2>1. ASSUME NEW p \in index' PROVE p \in Entries /\ entry[p].status # "proposed"
    <3>1. CASE p \in index
      BY <1>3, <3>1 DEF LedgerInv, IndexedDecided
    <3>2. CASE p \notin index
      <4>1. At(r, "upsert") /\ p = run[r].entry
        BY <3>2 DEF LedgerEffect
      <4>2. run[r].card # None
        BY <1>4, <4>1 DEF IndexInv, CardTold, At
      <4> QED BY <1>3, <4>1, <4>2 DEF LedgerInv, WrittenFirst
    <3> QED BY <3>1, <3>2
  <2> QED BY <1>5, <2>1 DEF IndexedDecided
<1> QED BY <1>6, <1>7, <1>8, <1>9, <1>10 DEF LedgerInv

-----------------------------------------------------------------------------
(* The other steps *)

LEMMA OthersKeepLedgerInv ==
  ASSUME IndexInv, LedgerInv, UNCHANGED <<run, entry, index, vetoed>>
  PROVE  LedgerInv'
BY DEF LedgerInv, CardHasEntry, CardsApart, DecisionTold, RejectedWhy, WrittenFirst, IndexedDecided, CompletedTold,
       Runs, Entries, At

LEMMA LaunchKeepsLedgerInv ==
  ASSUME IndexInv, LedgerInv, NEW c \in Cases, Launch(c), UNCHANGED <<entry, index, vetoed>>
  PROVE  LedgerInv'
<1> DEFINE n == Len(run) + 1
<1> HIDE DEF n
<1>1. /\ Runs' = Runs \cup {n} /\ n \notin Runs
      /\ \A s \in Runs : run'[s] = run[s]
      /\ run'[n].at = "queued" /\ run'[n].card = None
  BY LaunchAppends DEF IndexInv, n
<1>2. Entries' = Entries
  BY DEF Entries
<1>3. CardHasEntry' /\ CardsApart' /\ DecisionTold'
  BY <1>1, <1>2 DEF LedgerInv, CardHasEntry, CardsApart, DecisionTold, At
<1>4. RejectedWhy' /\ WrittenFirst' /\ IndexedDecided' /\ CompletedTold'
  BY <1>1, <1>2 DEF LedgerInv, RejectedWhy, WrittenFirst, IndexedDecided, CompletedTold, At
<1> QED BY <1>3, <1>4 DEF LedgerInv

LEMMA CrashKeepsLedgerInv ==
  ASSUME IndexInv, LedgerInv, Crash
  PROVE  LedgerInv'
<1>1. UNCHANGED <<entry, index, vetoed>>
  BY DEF Crash, ledger
<1>2. run \in [1 .. Len(run) -> Row] /\ Runs = 1 .. Len(run)
  BY RowTypes, LenProperties DEF IndexInv, Shape
<1>3. run' = [r \in Runs |-> IF Running(r) THEN [run[r] EXCEPT !.at = "failed"] ELSE run[r]]
  BY DEF Crash
<1>4. Runs' = Runs /\ Entries' = Entries
  BY <1>1, <1>3 DEF Runs, Entries
<1>5. ASSUME NEW r \in Runs
      PROVE  /\ run'[r].card = run[r].card /\ run'[r].entry = run[r].entry
             /\ run'[r].at = "failed" \/ run'[r].at = run[r].at
  BY <1>2, <1>3 DEF Row
<1>6. CardHasEntry' /\ CardsApart' /\ DecisionTold'
  BY <1>4, <1>5 DEF LedgerInv, CardHasEntry, CardsApart, DecisionTold, At
<1>7. RejectedWhy' /\ WrittenFirst' /\ IndexedDecided' /\ CompletedTold'
  BY <1>1, <1>4, <1>5 DEF LedgerInv, RejectedWhy, WrittenFirst, IndexedDecided, CompletedTold, At
<1> QED BY <1>6, <1>7 DEF LedgerInv

LEMMA ReviewersKeepLedgerInv ==
  ASSUME IndexInv, LedgerInv, UNCHANGED <<run, index>>,
         \/ \E c \in Cases : Create(c) /\ vetoed' = vetoed
         \/ \E p \in Entries, status \in {"approved", "rejected"} :
              Decide(p, status) /\ vetoed' = IF status = "rejected" THEN vetoed \cup {p} ELSE vetoed
  PROVE  LedgerInv'
<1>1. Runs' = Runs /\ Shape
  BY DEF Runs, IndexInv
<1>2. /\ \A s \in Runs : run[s].card # None => run[s].entry \in Entries
      /\ \A p \in index : p \in Entries
      /\ \A s \in Runs : At(s, "upsert") => run[s].card # None
  BY DEF IndexInv, LedgerInv, CardHasEntry, IndexedOnlyByCard, CardTold, At, None
<1>3. /\ Entries \subseteq Entries' /\ vetoed \subseteq vetoed'
      /\ \A p \in Entries : entry[p].status # "proposed" => entry'[p].status # "proposed"
      /\ \A p \in Entries' : entry'[p].status = "rejected" => p \in vetoed' \/ (p \in Entries /\ entry'[p] = entry[p])
  <2>1. ASSUME NEW c \in Cases, Create(c), vetoed' = vetoed
        PROVE  /\ Entries \subseteq Entries' /\ vetoed \subseteq vetoed'
               /\ \A p \in Entries : entry[p].status # "proposed" => entry'[p].status # "proposed"
               /\ \A p \in Entries' : entry'[p].status = "rejected" => p \in vetoed' \/ (p \in Entries /\ entry'[p] = entry[p])
    <3>1. Created(c)
      BY <1>1, <2>1, CreateAppends
    <3> QED BY <2>1, <3>1 DEF Created
  <2>2. ASSUME NEW p \in Entries, NEW status \in {"approved", "rejected"}, Decide(p, status),
               vetoed' = IF status = "rejected" THEN vetoed \cup {p} ELSE vetoed
        PROVE  /\ Entries \subseteq Entries' /\ vetoed \subseteq vetoed'
               /\ \A q \in Entries : entry[q].status # "proposed" => entry'[q].status # "proposed"
               /\ \A q \in Entries' : entry'[q].status = "rejected" => q \in vetoed' \/ (q \in Entries /\ entry'[q] = entry[q])
    <3>1. /\ Entries' = Entries
          /\ \A q \in Entries : entry'[q] # entry[q] => q = p /\ entry'[q].status = status
      BY <1>1, <2>2, DecideDoes
    <3> QED BY <2>2, <3>1
  <2> QED BY <2>1, <2>2
<1>4. CardHasEntry' /\ CardsApart' /\ DecisionTold'
  BY <1>1, <1>3 DEF LedgerInv, CardHasEntry, CardsApart, DecisionTold, At
<1>5. RejectedWhy'
  BY <1>1, <1>3 DEF LedgerInv, RejectedWhy
<1>6. WrittenFirst' /\ IndexedDecided' /\ CompletedTold'
  BY <1>1, <1>2, <1>3 DEF LedgerInv, WrittenFirst, IndexedDecided, CompletedTold, At
<1> QED BY <1>4, <1>5, <1>6 DEF LedgerInv

LEMMA NextLedgerInv ==
  ASSUME KbInv, LedgerInv, [Next]_vars
  PROVE  LedgerInv'
<1>1. IndexInv
  BY DEF KbInv
<1>2. ASSUME NEW c \in Cases, CloseCase(c) \/ ReviewerProposes(c) \/ PostRun(c)
      PROVE  LedgerInv'
  <2>1. CASE CloseCase(c)
    BY <1>1, <2>1, OthersKeepLedgerInv DEF CloseCase, process
  <2>2. CASE ReviewerProposes(c)
    BY <1>1, <2>2, ReviewersKeepLedgerInv DEF ReviewerProposes, process
  <2>3. CASE PostRun(c)
    BY <1>1, <2>3, LaunchKeepsLedgerInv DEF PostRun, ledger
  <2> QED BY <1>2, <2>1, <2>2, <2>3
<1>3. ASSUME NEW p \in Entries, NEW status \in {"approved", "rejected"}, ReviewerDecides(p, status)
      PROVE  LedgerInv'
  BY <1>1, <1>3, ReviewersKeepLedgerInv DEF ReviewerDecides, process
<1>4. CASE AskLedger
  <2>1. closed[cursor + 1] \in Cases
    BY <1>1, <1>4, RowTypes DEF AskLedger, IndexInv, Shape
  <2>2. UNCHANGED <<entry, index, vetoed>> /\ (Launch(closed[cursor + 1]) \/ UNCHANGED run)
    BY <1>4 DEF AskLedger, Skip, ledger
  <2> QED BY <1>1, <2>1, <2>2, LaunchKeepsLedgerInv, OthersKeepLedgerInv
<1>5. CASE Poll \/ AskFails \/ MoveCursor \/ UNCHANGED vars
  BY <1>1, <1>5, OthersKeepLedgerInv DEF Poll, AskFails, MoveCursor, Skip, ledger, process, vars
<1>6. ASSUME NEW r \in Runs,
             RunStep(r) \/ RunFails(r) \/ ResumeMintFails(r)
             \/ \E decision \in {"approved", "rejected"} : DutyLeadDecides(r, decision)
      PROVE  LedgerInv'
  <2>1. RunEffect(r)
    BY <1>1, <1>6, QuietSteps, CardSteps, DecidedSteps, FailedSteps DEF RunStep
  <2> QED BY <1>1, <1>6, <2>1, StepLedger, EffectKeepsLedgerInv
<1>7. CASE Crash
  BY <1>1, <1>7, CrashKeepsLedgerInv
<1> QED BY <1>2, <1>3, <1>4, <1>5, <1>6, <1>7 DEF Next

\* What the invariants say of the index and the ledger.
LEMMA LedgerTold ==
  ASSUME KbInv, LedgerInv
  PROVE  IndexTellsLedger
<1>1. IndexedOnlyByCard /\ \A p \in Entries : entry[p] \in Entry
  BY RowTypes DEF KbInv, IndexInv
<1>2. ASSUME NEW p \in index PROVE entry[p].status = "approved" \/ p \in vetoed
  <2>1. PICK r \in Runs : run[r].entry = p /\ run[r].card = "approved"
    BY <1>1 DEF IndexedOnlyByCard
  <2>2. p \in Entries /\ entry[p].status # "proposed"
    BY <2>1 DEF LedgerInv, CardHasEntry, IndexedDecided, None
  <2>3. \A s \in Runs : run[s].entry = p /\ run[s].card = "rejected" => s = r
    BY <2>1 DEF LedgerInv, CardsApart, None
  <2> QED BY <1>1, <2>1, <2>2, <2>3 DEF LedgerInv, RejectedWhy, Entry
<1>3. ASSUME NEW r \in Runs, run[r].card \in {"rejected", "expired"}, run[r].entry \in index PROVE FALSE
  <2>1. PICK s \in Runs : run[s].entry = run[r].entry /\ run[s].card = "approved"
    BY <1>1, <1>3 DEF IndexedOnlyByCard
  <2>2. s = r
    BY <1>3, <2>1 DEF LedgerInv, CardsApart, None
  <2> QED BY <1>3, <2>1, <2>2
<1> QED BY <1>1, <1>2, <1>3 DEF IndexTellsLedger, LedgerInv, CompletedTold

-----------------------------------------------------------------------------
(* The theorems *)

\* The invariant the two below follow from: the rows' types, what a card says of its
\* run, and that autorun launches once while a draft can still come.
THEOREM KbInvHolds == Spec => []KbInv
BY InitKbInv, NextKbInv, PTL DEF Spec

\* Chroma holds no entry whose own card a duty lead did not approve (flow.ts, INV-5), and
\* none the ledger does not have approved but those rejected over REST before their card
\* was; a run that is over has written both.  Whoever decides over REST, and whichever
\* call, answer or process is lost.
THEOREM IndexTellsLedgerHolds == Spec => []IndexTellsLedger
<1>1. Init => KbInv /\ LedgerInv
  <2> SUFFICES ASSUME Init PROVE KbInv /\ LedgerInv
    OBVIOUS
  <2>1. Runs = {} /\ Entries = {} /\ index = {}
    BY DEF Init, Runs, Entries
  <2> QED BY <2>1, InitKbInv DEF LedgerInv, CardHasEntry, CardsApart, DecisionTold, RejectedWhy, WrittenFirst,
             IndexedDecided, CompletedTold
<1>2. KbInv /\ LedgerInv /\ [Next]_vars => (KbInv /\ LedgerInv)'
  BY NextKbInv, NextLedgerInv
<1>3. KbInv /\ LedgerInv => IndexTellsLedger
  BY LedgerTold
<1> QED BY <1>1, <1>2, <1>3, PTL DEF Spec

\* While nobody launches or proposes by hand, a case never has two drafts that are
\* not rejected (autorun.ts, the two guards).
THEOREM OneDraftPerCaseHolds == Spec => []OneDraftPerCase
<1>1. KbInv => OneDraftPerCase
  BY DEF KbInv, DraftInv
<1> QED BY <1>1, KbInvHolds, PTL

=============================================================================
