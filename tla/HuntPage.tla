------------------------------ MODULE HuntPage ------------------------------
(***************************************************************************)
(* The hunting page of the web console (HuntingPage.tsx, hunting.ts): a    *)
(* hunt is opened, its detail and its audit rows are read in two requests, *)
(* the page follows the event stream of the newest run the audit names,    *)
(* and every frame that touches the books makes it read again.  Nothing    *)
(* numbers the requests: answers come in any order, also those for a hunt  *)
(* that is no longer open.                                                 *)
(*                                                                         *)
(* Behind the page stand a hunt that is over ("old", one round, run 0) and *)
(* one that is under way ("new", round k is run k); their rounds are those *)
(* of HuntLoop, reduced to what they write.  The stream delivers each      *)
(* event once and in order, as RunTrail shows of it.                       *)
(***************************************************************************)
EXTENDS Integers, Sequences, FiniteSets, FiniteSetsExt

CONSTANTS
  MaxRounds,  \* rounds of the new hunt
  Slots,      \* reads the page may have under way at once
  MaxOpens,   \* times the analyst opens a hunt, creates or cancels one
  MaxFails    \* reads that fail

ASSUME HuntPageAssumption ==
  /\ MaxRounds \in Nat \ {0}
  /\ MaxOpens \in Nat
  /\ MaxFails \in Nat

None == "none"
NoRun == -1
Hunts == {"old", "new"}
Runs == 0 .. MaxRounds
HuntOf(r) == IF r = 0 THEN "old" ELSE "new"

VARIABLES
  status,    \* of the new hunt: "absent", "hunting", "concluded", "cancelled"
  log,       \* the event rows of all runs; the index is the id of the event
  anchored,  \* the runs an audit row of their hunt names
  sel,       \* selectedRef
  detail,    \* what is shown: the hunt, its rounds, the placeholder, its runs
  sub,       \* subscribedRef: the run whose stream is followed
  open,      \* the stream has not ended
  live,      \* HuntLiveState: the last event applied, the round relayed to
  seen,      \* lastSeenIdRef
  req,       \* the reads under way, by slot
  told,      \* history: the newest run an answer for the open hunt named
  blind,     \* history: an answer was lost or named no run
  opens,
  fails

server == <<status, log, anchored>>
shownState == <<sel, detail, sub, open, live, seen, told>>
huntVars == <<server, shownState, req, blind, opens, fails>>

InitHuntLive == [last |-> 0, relayed |-> NoRun]
Free == [of |-> None, force |-> FALSE, pend |-> NoRun, served |-> FALSE, rounds |-> {}, runs |-> {}]

NoDetail == [of |-> None, rounds |-> {}, runs |-> {}, pend |-> NoRun]

OldLog == << [run |-> 0, frame |-> "joined"], [run |-> 0, frame |-> "conclusion"], [run |-> 0, frame |-> "completed"] >>

HuntPageInit ==
  /\ status = "absent" /\ log = OldLog /\ anchored = {0}
  /\ sel = None /\ detail = NoDetail /\ sub = NoRun /\ open = FALSE
  /\ live = InitHuntLive /\ seen = 0
  /\ req = [s \in Slots |-> Free]
  /\ told = NoRun /\ blind = FALSE /\ opens = 0 /\ fails = 0

-----------------------------------------------------------------------------
(* The hunt behind the page *)

Events(r) == {i \in DOMAIN log : log[i].run = r}

Has(r, frame) == \E i \in Events(r) : log[i].frame = frame

\* the rounds that stand in the detail of their hunt: written just before the relay
Recorded == {r \in Runs : Has(r, "relay") \/ Has(r, "conclusion")}

Begun(r) == r = 1 \/ (r > 1 /\ Has(r - 1, "relay"))

Emit(r, frame) == log' = Append(log, [run |-> r, frame |-> frame])

\* a round tells of its children (what it declares and what it joins are frames of
\* one kind to the page), records itself, and then hands over or concludes
Joins(r) ==
  /\ status = "hunting" /\ Begun(r) /\ Events(r) = {}
  /\ Emit(r, "joined")
  /\ UNCHANGED <<status, anchored>>

Relays(r) ==
  /\ status = "hunting" /\ Has(r, "joined") /\ r < MaxRounds /\ ~Has(r, "relay")
  /\ Emit(r, "relay")
  /\ UNCHANGED <<status, anchored>>

Concludes(r) ==
  /\ status = "hunting" /\ Has(r, "joined") /\ ~Has(r, "relay")
  /\ Emit(r, "conclusion") /\ status' = "concluded"
  /\ UNCHANGED anchored

Completes(r) ==
  /\ r \in Recorded /\ ~Has(r, "completed")
  /\ Emit(r, "completed")
  /\ UNCHANGED <<status, anchored>>

\* the audit row of the outcome is sent and not waited for: it comes late or never
AuditLands(r) ==
  /\ r \in Recorded \ anchored
  /\ anchored' = anchored \cup {r}
  /\ UNCHANGED <<status, log>>

\* a cancelled hunt: the run is killed at its next node
Killed(r) ==
  /\ status = "cancelled" /\ Begun(r)
  /\ r \notin Recorded /\ ~Has(r, "error")
  /\ Emit(r, "error")
  /\ UNCHANGED <<status, anchored>>

Hunting ==
  /\ \E r \in Runs \ {0} :
       \/ Joins(r) \/ Relays(r) \/ Concludes(r)
       \/ Completes(r) \/ AuditLands(r) \/ Killed(r)
  /\ UNCHANGED <<shownState, req, blind, opens, fails>>

-----------------------------------------------------------------------------
(* Reading: reload() *)

FreeSlots == {s \in Slots : req[s] = Free}

\* the two requests of reload leave together
Ask(of, force, pend) ==
  /\ FreeSlots # {}
  /\ req' = [req EXCEPT ![Min(FreeSlots)] =
                [Free EXCEPT !.of = of, !.force = force, !.pend = pend]]

RunsOf(h) == {r \in Runs : HuntOf(r) = h}

\* the rounds of the detail, and the runs of the rounds as the audit rows name them
RoundsOf(h) == Recorded \cap RunsOf(h)
Anchors(h) == anchored \cap RunsOf(h)

\* the backend answers both, as the books stand then
Served(s) ==
  /\ req[s] # Free /\ ~req[s].served
  /\ req' = [req EXCEPT ![s].served = TRUE,
                        ![s].rounds = RoundsOf(req[s].of),
                        ![s].runs = Anchors(req[s].of)]
  /\ UNCHANGED <<server, shownState, blind, opens, fails>>

\* without the detail the answer is dropped and a message shown
DetailFails(s) ==
  /\ fails < MaxFails
  /\ req[s] # Free /\ ~req[s].served
  /\ req' = [req EXCEPT ![s] = Free]
  /\ blind' = TRUE /\ fails' = fails + 1
  /\ UNCHANGED <<server, shownState, opens>>

\* without the audit the page makes do with no rows
AuditFails(s) ==
  /\ fails < MaxFails
  /\ req[s] # Free /\ ~req[s].served
  /\ req' = [req EXCEPT ![s].served = TRUE,
                        ![s].rounds = RoundsOf(req[s].of)]
  /\ fails' = fails + 1
  /\ UNCHANGED <<server, shownState, blind, opens>>

\* a faulty page takes no second stream unless it was told to
ResubscribesOnOpen(latest, force) == force

\* a faulty page takes the stream anew with every answer
ResubscribesAlways(latest, force) == TRUE

\* a new stream is taken for another run, or when a hunt is opened
Resubscribes(latest, force) == force \/ sub # latest

Subscribe(r) == /\ sub' = r /\ open' = TRUE /\ live' = InitHuntLive

\* the card of a round that is only announced, until its round is in the detail
Placeholder(pend, rounds) == IF pend \in rounds THEN NoRun ELSE pend

Newest(runs) == IF runs = {} THEN NoRun ELSE Max(runs)

\* the answer: what is shown is replaced, whatever is open by now
Answered(s) ==
  LET q == req[s]
      latest == Newest(q.runs) IN
  /\ q.served
  /\ req' = [req EXCEPT ![s] = Free]
  /\ detail' = [of |-> q.of, rounds |-> q.rounds, runs |-> q.runs,
                pend |-> Placeholder(q.pend, q.rounds)]
  /\ IF latest # NoRun /\ Resubscribes(latest, q.force)
     THEN Subscribe(latest)
     ELSE UNCHANGED <<sub, open, live>>
  /\ told' = IF q.of = sel /\ latest > told THEN latest ELSE told
  /\ blind' = (blind \/ latest = NoRun)
  /\ UNCHANGED <<server, sel, seen, opens, fails>>

-----------------------------------------------------------------------------
(* The analyst: openDetail, create, cancel *)

\* openDetail forgets everything but the reads under way
OpenDetail(h) ==
  /\ sel' = h /\ detail' = NoDetail
  /\ sub' = NoRun /\ open' = FALSE /\ live' = InitHuntLive /\ seen' = 0
  /\ told' = NoRun
  /\ Ask(h, TRUE, NoRun)

Opens(h) ==
  /\ opens < MaxOpens
  /\ h = "new" => status # "absent"
  /\ opens' = opens + 1
  /\ OpenDetail(h)
  /\ UNCHANGED <<server, blind, fails>>

\* the hunt is registered; the page opens what it has created
Create ==
  /\ opens < MaxOpens /\ status = "absent"
  /\ opens' = opens + 1
  /\ status' = "hunting"
  /\ OpenDetail("new")
  /\ UNCHANGED <<log, anchored, blind, fails>>

\* the backend cancels, or refuses a hunt that is over; then the page reads again
Cancel ==
  /\ opens < MaxOpens /\ status # "absent"
  /\ opens' = opens + 1
  /\ IF status = "hunting"
     THEN /\ status' = "cancelled"
          /\ IF sel = "new" THEN Ask("new", FALSE, NoRun) ELSE UNCHANGED req
     ELSE UNCHANGED <<status, req>>
  /\ UNCHANGED <<log, anchored, shownState, blind, fails>>

-----------------------------------------------------------------------------
(* The stream *)

IsLedgerFrame(frame) == frame # "conclusion"

IsTerminal(frame) == frame \in {"completed", "error"}

\* the page has looked at everything applied so far
Drained == detail = NoDetail \/ live.last = seen

Coming == {i \in Events(sub) : i > live.last}

\* applyHuntEvent: one frame of the stream, after the page has been drawn with
\* the one before
Frame ==
  /\ open /\ Drained /\ Coming # {}
  /\ LET i == Min(Coming) IN
       /\ live' = [last |-> i,
                   relayed |-> IF log[i].frame = "relay" THEN sub + 1 ELSE live.relayed]
       /\ open' = ~IsTerminal(log[i].frame)
  /\ UNCHANGED <<server, sel, detail, sub, seen, req, told, blind, opens, fails>>

\* the effect on live: a frame of the books not seen before is a reason to read
Hit == \E i \in Events(sub) : i \in seen + 1 .. live.last /\ IsLedgerFrame(log[i].frame)

Effect ==
  /\ sel # None /\ ~Drained
  /\ seen' = live.last
  /\ IF Hit THEN Ask(sel, FALSE, live.relayed) ELSE UNCHANGED req
  /\ UNCHANGED <<server, sel, detail, sub, open, live, told, blind, opens, fails>>

HuntPageStep ==
  \/ \E s \in Slots : Served(s) \/ Answered(s)
  \/ Frame
  \/ Effect

HuntPageNext ==
  \/ Hunting
  \/ HuntPageStep
  \/ \E s \in Slots : DetailFails(s) \/ AuditFails(s)
  \/ \E h \in Hunts : Opens(h)
  \/ Create
  \/ Cancel

=============================================================================
