---------------------------- MODULE ChatRunProofs ----------------------------
(***************************************************************************)
(* What TLAPS proves of ChatRun, for any tools, roles, costs and budget,   *)
(* and any number of restarts and of broken connections.                   *)
(***************************************************************************)
EXTENDS ChatRunProps, FiniteSetTheorems, SequenceTheorems, TLAPS

-----------------------------------------------------------------------------
(* The row and the events *)

LEMMA NodesAreSix ==
  /\ Len(Nodes) = 6 /\ DOMAIN Nodes = 1 .. 6
  /\ Nodes[1] = "input_guard" /\ Nodes[2] = "load_context" /\ Nodes[3] = "intent_classify"
  /\ Nodes[4] = "intent_gate" /\ Nodes[5] = "execute" /\ Nodes[6] = "answer_llm"
BY DEF Nodes

LEMMA InIsWhere ==
  ASSUME NEW name, In(name), drive.node \in 1 .. 6
  PROVE  /\ drive.at = "node"
         /\ name = "input_guard" => drive.node = 1
         /\ name = "load_context" => drive.node = 2
         /\ name = "intent_classify" => drive.node = 3
         /\ name = "intent_gate" => drive.node = 4
         /\ name = "execute" => drive.node = 5
         /\ name = "answer_llm" => drive.node = 6
BY NodesAreSix DEF In

LEMMA Emitted ==
  ASSUME events \in Seq(Events), NEW new \in Seq(Events), Emit(new)
  PROVE  /\ events' \in Seq(Events) /\ Len(events') = Len(events) + Len(new)
         /\ \A i \in 1 .. Len(events) : i \in 1 .. Len(events') /\ events'[i] = events[i]
         /\ \A k \in 1 .. Len(new) : events'[Len(events) + k] = new[k]
         /\ \A i \in 1 .. Len(events') :
              i > Len(events) => i - Len(events) \in 1 .. Len(new) /\ events'[i] = new[i - Len(events)]
<1>1. events' = events \o new /\ Len(events) \in Nat /\ Len(new) \in Nat
  BY DEF Emit
<1>2. /\ events' \in Seq(Events) /\ Len(events') = Len(events) + Len(new)
      /\ \A i \in 1 .. Len(events) : events'[i] = events[i]
      /\ \A k \in 1 .. Len(new) : events'[Len(events) + k] = new[k]
  BY <1>1
<1>3. ASSUME NEW i \in 1 .. Len(events'), i > Len(events)
      PROVE  i - Len(events) \in 1 .. Len(new) /\ events'[i] = new[i - Len(events)]
  <2>1. i - Len(events) \in 1 .. Len(new) /\ i = Len(events) + (i - Len(events))
    BY <1>1, <1>2, <1>3
  <2> QED BY <2>1, <1>2
<1> QED BY <1>1, <1>2, <1>3

\* events that tell of no status leave the trail as it was
LEMMA TrailStays ==
  ASSUME events \in Seq(Events), NEW new \in Seq(Events), Emit(new), TrailMatchesRow,
         row'.status = row.status, \A k \in 1 .. Len(new) : TellsNothing(new[k])
  PROVE  TrailMatchesRow'
<1>0. events' \in Seq(Events) /\ Len(events') = Len(events) + Len(new)
  BY Emitted
<1>1. /\ DOMAIN events = 1 .. Len(events) /\ DOMAIN events' = 1 .. Len(events')
      /\ Len(events) \in Nat /\ Len(events') \in Nat
  BY <1>0
<1>2. \A i \in 1 .. Len(events) : i \in 1 .. Len(events') /\ events'[i] = events[i]
  BY Emitted
<1>3. ASSUME NEW i \in 1 .. Len(events'), i > Len(events) PROVE TellsNothing(events'[i])
  <2>1. i - Len(events) \in 1 .. Len(new) /\ events'[i] = new[i - Len(events)]
    BY <1>3, Emitted
  <2> QED BY <2>1
<1>4. ASSUME NEW from \in Nat, from >= 1, Silent(from)
      PROVE  Silent(from)'
  <2>1. ASSUME NEW i \in from .. Len(events') PROVE TellsNothing(events'[i])
    <3>1. i \in 1 .. Len(events')
      BY <1>1, <1>4
    <3>2. CASE i <= Len(events)
      <4>1. i \in from .. Len(events) /\ i \in 1 .. Len(events)
        BY <3>2, <1>1, <1>4
      <4>2. TellsNothing(events[i])
        BY <4>1, <1>4 DEF Silent
      <4> QED BY <4>1, <4>2, <1>2
    <3>3. CASE i > Len(events)
      BY <3>1, <3>3, <1>3
    <3> QED BY <3>2, <3>3, <1>1
  <2> QED BY <2>1 DEF Silent
<1>5. CASE row.status = "queued"
  BY <1>4, <1>5 DEF TrailMatchesRow
<1>6. CASE row.status # "queued"
  <2>1. PICK i \in DOMAIN events : Tells(events[i]) = row.status /\ Silent(i + 1)
    BY <1>6 DEF TrailMatchesRow
  <2>2. i \in 1 .. Len(events) /\ i + 1 \in Nat /\ i + 1 >= 1
    BY <1>1, <2>1
  <2>3. Silent(i + 1)'
    BY <1>4, <2>1, <2>2
  <2>4. i \in DOMAIN events' /\ Tells(events'[i]) = row'.status
    BY <1>1, <1>2, <2>1, <2>2
  <2> QED BY <1>6, <2>3, <2>4 DEF TrailMatchesRow
<1> QED BY <1>5, <1>6

\* a change of the status comes with its event last
LEMMA TrailTold ==
  ASSUME events \in Seq(Events), NEW new \in Seq(Events), Emit(new), Len(new) > 0,
         Tells(new[Len(new)]) = row'.status, row'.status # "queued"
  PROVE  TrailMatchesRow'
<1>0. Len(new) \in 1 .. Len(new) /\ Len(events) \in Nat /\ Len(new) \in Nat
  OBVIOUS
<1>1. PICK last \in Nat : last = Len(events) + Len(new)
  BY <1>0
<1>2. /\ events'[last] = new[Len(new)] /\ Len(events') = last /\ events' \in Seq(Events)
  BY <1>0, <1>1, Emitted
<1>3. last \in DOMAIN events' /\ last \in Nat
  BY <1>0, <1>1, <1>2
<1>4. (last + 1) .. Len(events') = {}
  BY <1>2, <1>3
<1>5. Silent(last + 1)'
  BY <1>4 DEF Silent
<1> QED BY <1>2, <1>3, <1>5 DEF TrailMatchesRow

NotDone(e) == e.type # "done"
AfterDone(e) == e.type \notin {"done", "tool_call", "approval_required"}

LEMMA NoDoneStays ==
  ASSUME events \in Seq(Events), NEW new \in Seq(Events), Emit(new), NoDone,
         \A k \in 1 .. Len(new) : NotDone(new[k])
  PROVE  NoDone'
<1>1. events' \in Seq(Events)
  BY Emitted
<1>2. ASSUME NEW i \in 1 .. Len(events') PROVE NotDone(events'[i])
  <2>1. CASE i <= Len(events)
    <3>1. i \in 1 .. Len(events) /\ events'[i] = events[i]
      BY <2>1, Emitted
    <3> QED BY <3>1 DEF NoDone, NotDone
  <2>2. CASE i > Len(events)
    <3>1. i - Len(events) \in 1 .. Len(new) /\ events'[i] = new[i - Len(events)]
      BY <2>2, Emitted
    <3> QED BY <3>1
  <2> QED BY <2>1, <2>2, <1>1
<1> QED BY <1>1, <1>2 DEF NoDone, NotDone

LEMMA DoneComes ==
  ASSUME events \in Seq(Events), NEW new \in Seq(Events), Emit(new), NoDone, Len(new) > 0,
         new[Len(new)].type = "done", \A k \in 1 .. (Len(new) - 1) : NotDone(new[k])
  PROVE  OneDone'
<1>1. events' \in Seq(Events) /\ Len(events) \in Nat /\ Len(new) \in Nat
      /\ Len(events') = Len(events) + Len(new)
  BY Emitted
<1>2. PICK d \in 1 .. Len(events') : d = Len(events')
  BY <1>1
<1>3. events'[d].type = "done"
  <2>1. Len(new) \in 1 .. Len(new)
    BY <1>1
  <2> QED BY <1>1, <1>2, <2>1, Emitted
<1>4. ASSUME NEW i \in 1 .. Len(events'), i # d PROVE NotDone(events'[i])
  <2>1. CASE i <= Len(events)
    <3>1. i \in 1 .. Len(events) /\ events'[i] = events[i]
      BY <2>1, Emitted
    <3> QED BY <3>1 DEF NoDone, NotDone
  <2>2. CASE i > Len(events)
    <3>1. i - Len(events) \in 1 .. Len(new) /\ events'[i] = new[i - Len(events)]
      BY <2>2, Emitted
    <3>2. i - Len(events) \in 1 .. (Len(new) - 1)
      BY <3>1, <1>1, <1>2, <1>4
    <3> QED BY <3>1, <3>2
  <2> QED BY <2>1, <2>2, <1>1
<1>5. \A i \in DOMAIN events' : i # d => events'[i].type # "done"
  BY <1>1, <1>4 DEF NotDone
<1>6. \A i \in DOMAIN events' : ~(i > d)
  BY <1>1, <1>2
<1>7. d \in DOMAIN events'
  BY <1>1, <1>2
<1> QED BY <1>3, <1>5, <1>6, <1>7 DEF OneDone

LEMMA OneDoneStays ==
  ASSUME events \in Seq(Events), NEW new \in Seq(Events), Emit(new), OneDone,
         \A k \in 1 .. Len(new) : AfterDone(new[k])
  PROVE  OneDone'
<1>1. events' \in Seq(Events) /\ DOMAIN events = 1 .. Len(events)
  BY Emitted
<1>2. PICK d \in 1 .. Len(events) :
        /\ events[d].type = "done"
        /\ \A i \in DOMAIN events : i # d => events[i].type # "done"
        /\ \A i \in DOMAIN events : i > d => events[i].type \notin {"tool_call", "approval_required"}
  BY <1>1 DEF OneDone
<1>3. d \in DOMAIN events' /\ events'[d].type = "done"
  <2>1. d \in 1 .. Len(events') /\ events'[d] = events[d]
    BY Emitted
  <2> QED BY <2>1, <1>1, <1>2
<1>4. ASSUME NEW i \in 1 .. Len(events')
      PROVE  /\ i # d => events'[i].type # "done"
             /\ i > d => events'[i].type \notin {"tool_call", "approval_required"}
  <2>1. CASE i <= Len(events)
    <3>1. i \in 1 .. Len(events) /\ events'[i] = events[i]
      BY <2>1, Emitted
    <3> QED BY <3>1, <1>1, <1>2
  <2>2. CASE i > Len(events)
    <3>1. i - Len(events) \in 1 .. Len(new) /\ events'[i] = new[i - Len(events)]
      BY <2>2, Emitted
    <3>2. AfterDone(events'[i])
      BY <3>1
    <3> QED BY <3>2 DEF AfterDone
  <2> QED BY <2>1, <2>2, <1>1
<1>5. /\ \A i \in DOMAIN events' : i # d => events'[i].type # "done"
      /\ \A i \in DOMAIN events' : i > d => events'[i].type \notin {"tool_call", "approval_required"}
  BY <1>1, <1>4
<1> QED BY <1>3, <1>5 DEF OneDone

\* what was asked for stays so while the handed-over role and the action stay
LEMMA FineStays ==
  ASSUME NEW e, NEW i, Fine(e, i), chain'[1] = chain[1],
         acted # <<>> => acted' = acted /\ card'.tool = card.tool /\ card'.status = card.status
  PROVE  Fine(e, i)'
<1>1. ASSUME acted = <<e.of>> PROVE acted # <<>>
  BY <1>1
<1> QED BY <1>1 DEF Fine

LEMMA AskedStays ==
  ASSUME events \in Seq(Events), NEW new \in Seq(Events), Emit(new), AskedFor,
         events = <<>> \/ chain'[1] = chain[1],
         acted # <<>> => acted' = acted /\ card'.tool = card.tool /\ card'.status = card.status,
         NEW n \in Nat, n = Len(events), \A k \in 1 .. Len(new) : Fine(new[k], n + k)'
  PROVE  AskedFor'
<1>1. events' \in Seq(Events) /\ DOMAIN events = 1 .. Len(events)
  BY Emitted
<1>2. ASSUME NEW i \in 1 .. Len(events'), NEW e, e = events'[i] PROVE Fine(e, i)'
  <2>1. CASE i <= Len(events)
    <3>1. i \in 1 .. Len(events) /\ e = events[i]
      BY <2>1, <1>2, Emitted
    <3>2. Fine(e, i)
      BY <3>1, <1>1 DEF AskedFor
    <3>3. events # <<>>
      BY <3>1
    <3>4. chain'[1] = chain[1]
      BY <3>3
    <3> QED BY <3>2, <3>4, FineStays
  <2>2. CASE i > Len(events)
    <3>1. i - n \in 1 .. Len(new) /\ e = new[i - n]
      BY <2>2, <1>2, Emitted
    <3>2. PICK k \in 1 .. Len(new) : k = i - n
      BY <3>1
    <3>3. i = n + k /\ e = new[k]
      BY <3>1, <3>2, <1>1
    <3> QED BY <3>3
  <2> QED BY <2>1, <2>2, <1>1
<1>3. DOMAIN events' = 1 .. Len(events')
  BY <1>1
<1> QED BY <1>2, <1>3 DEF AskedFor, Fine

-----------------------------------------------------------------------------
(* How a drive moves *)

\* the action that is done stays done
DeedStays == acted # <<>> => acted' = acted /\ card'.tool = card.tool /\ card'.status = card.status

\* the body of a node comes to its end
LEMMA ReturnsKeeps ==
  ASSUME ChatInv, drive.at \in {"node", "await", "act"}, NEW new \in Seq(Events), NEW cost \in Nat,
         NEW state \in States, Returns(new, cost, state), ~Exceeds(cost), spent' = spent + cost,
         card' \in Cards, acted' \in Seq(Tools), ActedOnce', DeedStays,
         state.role = drive.state.role,
         state.gate \in {"allow", "require_approval"} => state.tool \in VisibleTo[state.role],
         drive.node <= 3 => state.gate = "none",
         NEW n \in Nat, n = Len(events), \A k \in 1 .. Len(new) : Fine(new[k], n + k)',
         \A k \in 1 .. Len(new) : TellsNothing(new[k]),
         state.flag = "none" => drive.state.flag = "none",
         (drive.node = 1 /\ state.flag = "none") => Len(new) = 0,
         IF state.flag # "none" \/ drive.node = 6 THEN OneDone' ELSE NoDone'
  PROVE  ChatInv'
<1>1. /\ TypeOK /\ Account /\ Handed /\ Opening /\ AskedFor /\ TrailMatchesRow
      /\ drive \in Drives /\ spent \in Nat /\ events \in Seq(Events)
  BY DEF ChatInv, TypeOK
<1>2. Live /\ row.status = "running"
  BY <1>1 DEF Live, Account
<1>3. /\ drive.state \in States /\ drive.node \in 1 .. 6 /\ drive.done = drive.node - 1
      /\ drive.steps = drive.node /\ drive.tokens = spent /\ spent <= MaxTokens
      /\ Len(chain) = drive.node /\ drive.state.role = chain[1].state.role
  BY <1>1, <1>2 DEF Account, Handed, Hand
<1>4. /\ UNCHANGED <<row, chain>> /\ Emit(new)
      /\ drive'.at = "exit" /\ drive'.node = drive.node /\ drive'.done = drive.done
      /\ drive'.steps = drive.steps /\ drive'.tokens = spent + cost /\ drive'.state = state
      /\ drive' \in Drives
  <2>1. spent + cost \in Nat /\ "exit" \in Places /\ state \in States \cup {<<>>}
    BY <1>1 DEF Places
  <2>2. drive' = [drive EXCEPT !.at = "exit", !.tokens = spent + cost, !.state = state]
    BY <1>1, <1>3 DEF Returns, Drives
  <2> QED BY <1>1, <2>1, <2>2 DEF Returns, Drives
<1>5. spent' \in Nat /\ spent' <= MaxTokens
  BY <1>1, <1>3, RunTrailAssumption DEF Exceeds
<1>6. Live' /\ Hand' = state
  BY <1>4 DEF Live, Hand
<1>7. TypeOK'
  BY <1>1, <1>4, <1>5, Emitted DEF TypeOK
<1>8. Account'
  BY <1>1, <1>2, <1>3, <1>4, <1>5, <1>6 DEF Account
<1>9. Handed'
  BY <1>2, <1>3, <1>4, <1>6 DEF Handed, Suspended
<1>10. Opening'
  <2>1. ASSUME state.flag = "none", drive.node = 1 PROVE Len(events') = 2
    <3>1. Len(events) = 2 /\ Len(new) = 0
      BY <1>1, <1>2, <2>1 DEF Opening
    <3>2. Len(events') = Len(events) + Len(new)
      BY <1>1, <1>4, Emitted
    <3> QED BY <3>1, <3>2
  <2> QED BY <1>4, <2>1 DEF Opening
<1>11. Ends'
  <2>1. Answering' <=> (state.flag # "none" \/ drive.node = 6)
    <3>1. Settled' <=> state.flag # "none"
      BY <1>4 DEF Settled
    <3>2. drive'.node # 7 /\ drive'.at = "exit" /\ (drive'.node = 6 <=> drive.node = 6)
      BY <1>3, <1>4
    <3> QED BY <3>1, <3>2 DEF Answering
  <2>2. IF Answering' THEN OneDone' ELSE NoDone'
    BY <2>1
  <2>3. row'.status = "running"
    BY <1>2, <1>4
  <2> QED BY <2>2, <2>3, <1>6 DEF Ends, Suspended
<1>12. AskedFor'
  BY <1>1, <1>4, AskedStays DEF DeedStays
<1>13. TrailMatchesRow'
  BY <1>1, <1>4, TrailStays
<1> QED BY <1>7, <1>8, <1>9, <1>10, <1>11, <1>12, <1>13 DEF ChatInv

\* an event that is no call, no approval, no result and no error
LEMMA HarmlessIsFine ==
  ASSUME NEW e, NEW i, e.type \notin {"tool_call", "approval_required", "tool_result", "error"}
  PROVE  Fine(e, i)'
BY DEF Fine, Event

\* a drive is killed
LEMMA KillKeeps ==
  ASSUME ChatInv, Live, NEW d, d.done \in Nat, d.tokens \in Nat, NEW new \in Seq(Events), NEW why \in Words,
         Kill(d, new, why), spent' \in Nat, UNCHANGED <<card, acted>>,
         NEW n \in Nat, n = Len(events), \A k \in 1 .. Len(new) : Fine(new[k], n + k)',
         MaxSteps >= Len(Nodes) => why # "max_steps"
  PROVE  ChatInv'
<1> DEFINE error == Event("error", why)
<1> DEFINE all == new \o <<error>>
<1>1. /\ TypeOK /\ ActedOnce /\ AskedFor /\ events \in Seq(Events)
  BY DEF ChatInv, TypeOK
<1>2. error \in Events /\ error.type = "error" /\ error.of = why
  BY DEF Event, Events, EventTypes
<1>3. row' = Saved(d, "failed") /\ Emit(all) /\ drive' = Idle /\ UNCHANGED chain
  BY DEF Kill
<1>4. Tells(error) = row'.status /\ row'.status = "failed" /\ row' \in Rows
  BY <1>2, <1>3 DEF Tells, Saved, Rows
<1>5. Fine(error, n + Len(new) + 1)'
  BY <1>2 DEF Fine, Event
<1> HIDE DEF error
<1>6. /\ all \in Seq(Events) /\ Len(all) = Len(new) + 1 /\ all[Len(new) + 1] = error /\ Len(new) \in Nat
      /\ \A k \in 1 .. Len(new) : all[k] = new[k]
  BY <1>2
<1> HIDE DEF all
<1>7. \A k \in 1 .. Len(all) : Fine(all[k], n + k)'
  <2>1. ASSUME NEW k \in 1 .. Len(all) PROVE Fine(all[k], n + k)'
    <3>1. CASE k \in 1 .. Len(new)
      BY <3>1, <1>6
    <3>2. CASE k \notin 1 .. Len(new)
      <4>1. k \in Nat /\ k <= Len(new) + 1 /\ k >= 1 /\ ~(k <= Len(new))
        BY <3>2, <1>6
      <4>2. Len(new) \in Nat
        BY <1>6
      <4>3. k = Len(new) + 1
        BY <4>1, <4>2
      <4>4. n + k = n + Len(new) + 1
        BY <4>2, <4>3
      <4>5. all[k] = error
        BY <4>3, <1>6
      <4> QED BY <4>4, <4>5, <1>5
    <3> QED BY <3>1, <3>2
  <2> QED BY <2>1
<1>8. TypeOK'
  <2>1. Idle \in Drives
    BY DEF Idle, Drives, Places
  <2> QED BY <1>1, <1>3, <1>4, <1>6, <2>1, Emitted DEF TypeOK
<1>9. ~Live' /\ ~Suspended'
  BY <1>3, <1>4 DEF Live, Idle, Suspended
<1>10. Account'
  BY <1>4, <1>9 DEF Account
<1>11. Handed' /\ Opening' /\ Ends'
  BY <1>4, <1>9 DEF Handed, Opening, Ends
<1>12. ActedOnce'
  BY <1>1, <1>3 DEF ActedOnce, Idle
<1>13. AskedFor'
  BY <1>1, <1>3, <1>6, <1>7, AskedStays
<1>14. TrailMatchesRow'
  <2>1. Len(all) > 0 /\ all[Len(all)] = error
    BY <1>6
  <2> QED BY <1>1, <1>3, <1>4, <1>6, <2>1, TrailTold
<1> QED BY <1>8, <1>10, <1>11, <1>12, <1>13, <1>14 DEF ChatInv

\* what its calls raise
LEMMA ThrowsKeeps ==
  ASSUME ChatInv, Live, NEW new \in Seq(Events), NEW cost \in Nat,
         NEW why \in {"gate_denied", "node_error", "token_budget", "llm_timeout"},
         Throws(new, cost, why), spent' \in Nat, UNCHANGED <<card, acted>>,
         NEW n \in Nat, n = Len(events), \A k \in 1 .. Len(new) : Fine(new[k], n + k)'
  PROVE  ChatInv'
<1>1. PICK d : d = [drive EXCEPT !.tokens = @ + cost]
  OBVIOUS
<1>2. d.done \in Nat /\ d.tokens \in Nat
  BY <1>1 DEF ChatInv, TypeOK, Drives
<1>3. Kill(d, new, why)
  BY <1>1 DEF Throws
<1>4. why \in Words /\ why # "max_steps"
  BY DEF Words
<1> QED BY <1>2, <1>3, <1>4, KillKeeps

\* events that are only shown
Harmless ==
  {e \in Events : /\ e.type \notin {"tool_call", "approval_required", "tool_result", "error", "done"}
                  /\ TellsNothing(e)}

LEMMA HarmlessEvents ==
  /\ Event("node_enter", "none") \in Harmless /\ Event("node_exit", "none") \in Harmless
  /\ Event("token", "none") \in Harmless /\ Event("denied", "none") \in Harmless
  /\ Event("approval_decided", "approved") \in Harmless
  /\ Event("approval_decided", "rejected") \in Harmless
<1>1. ASSUME NEW type \in {"node_enter", "node_exit", "token", "denied"}
      PROVE  Event(type, "none") \in Harmless
  BY <1>1 DEF Harmless, Event, Events, EventTypes, Words, TellsNothing, Tells
<1>2. ASSUME NEW to \in {"approved", "rejected"}
      PROVE  Event("approval_decided", to) \in Harmless
  BY <1>2 DEF Harmless, Event, Events, EventTypes, Words, TellsNothing, Tells
<1> QED BY <1>1, <1>2

LEMMA HarmlessSeq ==
  ASSUME NEW new \in Seq(Harmless)
  PROVE  /\ new \in Seq(Events)
         /\ \A k \in 1 .. Len(new) : /\ TellsNothing(new[k]) /\ NotDone(new[k]) /\ AfterDone(new[k])
                                     /\ \A i : Fine(new[k], i)'
<1>1. new \in Seq(Events)
  BY DEF Harmless
<1>2. ASSUME NEW k \in 1 .. Len(new)
      PROVE  /\ TellsNothing(new[k]) /\ NotDone(new[k]) /\ AfterDone(new[k])
             /\ \A i : Fine(new[k], i)'
  <2>1. new[k] \in Harmless
    OBVIOUS
  <2>2. /\ TellsNothing(new[k])
        /\ new[k].type \notin {"tool_call", "approval_required", "tool_result", "error", "done"}
    BY <2>1 DEF Harmless
  <2>3. \A i : Fine(new[k], i)'
    BY <2>2, HarmlessIsFine
  <2> QED BY <2>2, <2>3 DEF NotDone, AfterDone
<1> QED BY <1>1, <1>2

\* a tuple of them is told, and changes nothing else
LEMMA ShownOnly ==
  ASSUME ChatInv, NEW new \in Seq(Harmless), Emit(new), events = <<>> \/ chain'[1] = chain[1], DeedStays
  PROVE  /\ new \in Seq(Events) /\ events' \in Seq(Events) /\ Len(events') = Len(events) + Len(new)
         /\ AskedFor' /\ (NoDone => NoDone') /\ (OneDone => OneDone')
         /\ row'.status = row.status => TrailMatchesRow'
<1>1. events \in Seq(Events) /\ AskedFor /\ TrailMatchesRow
  BY DEF ChatInv, TypeOK
<1>2. PICK n \in Nat : n = Len(events)
  BY <1>1
<1>3. /\ new \in Seq(Events)
      /\ \A k \in 1 .. Len(new) : /\ TellsNothing(new[k]) /\ NotDone(new[k]) /\ AfterDone(new[k])
                                  /\ \A i : Fine(new[k], i)'
  BY HarmlessSeq
<1>4. events' \in Seq(Events) /\ Len(events') = Len(events) + Len(new)
  BY <1>1, <1>3, Emitted
<1>5. AskedFor'
  BY <1>1, <1>2, <1>3, AskedStays DEF DeedStays
<1>6. (NoDone => NoDone') /\ (OneDone => OneDone')
  BY <1>1, <1>3, NoDoneStays, OneDoneStays
<1>7. row'.status = row.status => TrailMatchesRow'
  BY <1>1, <1>3, TrailStays
<1> QED BY <1>3, <1>4, <1>5, <1>6, <1>7

\* what holds of a drive under way
LEMMA Driving ==
  ASSUME ChatInv, Live
  PROVE  /\ TypeOK /\ Account /\ Handed /\ Opening /\ ActedOnce /\ Ends /\ AskedFor /\ TrailMatchesRow
         /\ drive \in Drives /\ row \in Rows /\ spent \in Nat /\ events \in Seq(Events)
         /\ card \in Cards /\ acted \in Seq(Tools)
         /\ row.status = "running" /\ drive.state \in States /\ drive.node \in 1 .. 7
         /\ drive.at # "enter" => drive.node \in 1 .. 6
         /\ drive.done = drive.node - 1 /\ drive.tokens = spent /\ spent <= MaxTokens
         /\ drive.at = "enter" => drive.steps = drive.done
         /\ drive.at # "enter" => drive.steps = drive.node
         /\ Len(chain) = drive.node /\ chain[1].state.role = drive.state.role
         /\ drive.state.gate \in {"allow", "require_approval"} =>
              drive.state.tool \in VisibleTo[drive.state.role]
         /\ drive.state.role \in DOMAIN VisibleTo
         /\ drive.node <= 3 => drive.state.gate = "none"
         /\ drive.at # "exit" => Restored = drive.state
         /\ DOMAIN events = 1 .. Len(events) /\ Len(events) \in Nat
<1>1. /\ TypeOK /\ Account /\ Handed /\ Opening /\ ActedOnce /\ Ends /\ AskedFor /\ TrailMatchesRow
      /\ drive \in Drives /\ row \in Rows /\ spent \in Nat /\ events \in Seq(Events)
      /\ card \in Cards /\ acted \in Seq(Tools)
  BY DEF ChatInv, TypeOK
<1>2. /\ row.status = "running" /\ drive.state \in States /\ drive.node \in 1 .. 7
      /\ drive.at # "enter" => drive.node \in 1 .. 6
      /\ drive.done = drive.node - 1 /\ drive.tokens = spent /\ spent <= MaxTokens
      /\ drive.at = "enter" => drive.steps = drive.done
      /\ drive.at # "enter" => drive.steps = drive.node
  BY <1>1 DEF Account
<1>3. /\ Len(chain) = drive.node /\ chain[1].state.role = drive.state.role
      /\ drive.state.gate \in {"allow", "require_approval"} =>
           drive.state.tool \in VisibleTo[drive.state.role]
      /\ drive.node <= 3 => drive.state.gate = "none"
      /\ drive.at # "exit" => Restored = drive.state
  BY <1>1 DEF Handed, Hand
<1>4. drive.state.role \in DOMAIN VisibleTo
  BY <1>2 DEF States
<1>5. DOMAIN events = 1 .. Len(events) /\ Len(events) \in Nat
  BY <1>1
<1> QED BY <1>1, <1>2, <1>3, <1>4, <1>5

-----------------------------------------------------------------------------
(* The runner *)

USE DEF Event

LEMMA EnterNodeKeeps ==
  ASSUME ChatInv, EnterNode(Len(Nodes)), UNCHANGED chat
  PROVE  ChatInv'
<1> DEFINE entered == <<Event("node_enter", "none")>>
<1>1. Live /\ drive.at = "enter" /\ drive.node \in 1 .. 6
  <2>1. drive.at = "enter" /\ drive.node <= 6
    BY NodesAreSix DEF EnterNode
  <2>2. Live
    BY <2>1 DEF Live
  <2>3. drive.node \in 1 .. 7
    BY <2>2, Driving
  <2> QED BY <2>1, <2>2, <2>3
<1>2. UNCHANGED <<card, spent, acted>> /\ spent' \in Nat /\ DeedStays
  BY <1>1, Driving DEF chat, DeedStays
<1>3. entered \in Seq(Harmless) /\ Len(entered) = 1
  BY HarmlessEvents
<1> HIDE DEF entered
<1>4. PICK n \in Nat : n = Len(events)
  BY DEF ChatInv, TypeOK
<1>5. CASE drive.steps >= MaxSteps
  <2>1. Kill(drive, entered, "max_steps")
    BY <1>5 DEF EnterNode, entered
  <2>2. ~(MaxSteps >= Len(Nodes))
    BY <1>1, <1>5, Driving, NodesAreSix, RunTrailAssumption
  <2>3. drive.done \in Nat /\ drive.tokens \in Nat
    BY <1>1, Driving DEF Drives
  <2>4. /\ entered \in Seq(Events) /\ "max_steps" \in Words
        /\ \A k \in 1 .. Len(entered) : Fine(entered[k], n + k)'
    BY <1>3, HarmlessSeq DEF Words
  <2> QED BY <1>1, <1>2, <1>3, <1>4, <2>1, <2>2, <2>3, <2>4, KillKeeps
<1>6. CASE ~(drive.steps >= MaxSteps)
  <2>1. /\ drive' = [drive EXCEPT !.at = "node", !.steps = @ + 1]
        /\ Emit(entered) /\ UNCHANGED <<row, chain>>
    BY <1>6 DEF EnterNode, entered
  <2>2. /\ drive'.at = "node" /\ drive'.node = drive.node /\ drive'.done = drive.done
        /\ drive'.steps = drive.node /\ drive'.tokens = drive.tokens /\ drive'.state = drive.state
        /\ drive' \in Drives
    <3>1. drive \in Drives /\ drive.node \in Nat /\ drive.steps = drive.node - 1
      BY <1>1, Driving
    <3>2. drive.steps + 1 = drive.node /\ "node" \in Places
      BY <1>1, <3>1 DEF Places
    <3> QED BY <1>1, <2>1, <3>1, <3>2 DEF Drives
  <2>3. /\ events' \in Seq(Events) /\ Len(events') = Len(events) + 1
        /\ AskedFor' /\ (NoDone => NoDone') /\ (OneDone => OneDone') /\ TrailMatchesRow'
    BY <1>2, <1>3, <2>1, ShownOnly
  <2>4. Live' /\ Hand' = drive.state /\ Hand = drive.state
    BY <1>1, <2>2 DEF Live, Hand
  <2>5. TypeOK'
    BY <1>1, <1>2, <2>1, <2>2, <2>3, Driving DEF TypeOK
  <2>6. Account'
    BY <1>1, <1>2, <2>1, <2>2, <2>4, Driving DEF Account
  <2>7. Handed'
    BY <1>1, <2>1, <2>2, <2>4, Driving DEF Handed, Suspended, Restored
  <2>8. Opening'
    <3>1. drive.state.flag = "none" /\ drive.node = 1 => Len(events) = 1
      BY <1>1, Driving DEF Opening
    <3>2. drive.state.flag = "none" /\ drive.node = 2 => Len(events) = 3
      BY <1>1, Driving DEF Opening
    <3>3. Len(events') = Len(events) + 1
      BY <2>3
    <3>4. ASSUME drive.state.flag = "none", drive.node = 1 PROVE Len(events') = 2
      <4>1. Len(events) = 1
        BY <3>1, <3>4
      <4> QED BY <3>3, <4>1
    <3>5. ASSUME drive.state.flag = "none", drive.node = 2 PROVE Len(events') = 4
      <4>1. Len(events) = 3
        BY <3>2, <3>5
      <4> QED BY <3>3, <4>1
    <3> QED BY <2>2, <3>4, <3>5 DEF Opening
  <2>9. ActedOnce'
    BY <1>1, <1>2, <2>2, Driving DEF ActedOnce
  <2>10. Ends'
    <3>1. Answering' <=> Answering
      BY <1>1, <2>2 DEF Answering, Settled
    <3>2. IF Answering' THEN OneDone' ELSE NoDone'
      BY <1>1, <2>3, <3>1, Driving DEF Ends
    <3>3. row'.status = "running"
      BY <1>1, <2>1, Driving
    <3> QED BY <3>2, <3>3, <2>4 DEF Ends, Suspended
  <2> QED BY <2>3, <2>5, <2>6, <2>7, <2>8, <2>9, <2>10 DEF ChatInv
<1> QED BY <1>5, <1>6

LEMMA ExitNodeKeeps ==
  ASSUME ChatInv, drive.at = "exit", ExitNode(Nodes[drive.node]), UNCHANGED chat
  PROVE  ChatInv'
<1> DEFINE left == <<Event("node_exit", "none")>>
<1> DEFINE seal == [node |-> Nodes[drive.node], state |-> drive.state]
<1>1. Live /\ drive.node \in 1 .. 6
  <2>1. Live
    BY DEF Live
  <2> QED BY <2>1, Driving
<1>2. UNCHANGED <<card, spent, acted>> /\ spent' \in Nat /\ DeedStays
  BY <1>1, Driving DEF chat, DeedStays
<1>3. left \in Seq(Harmless) /\ Len(left) = 1
  BY HarmlessEvents
<1>4. Emit(left)
  BY DEF ExitNode
<1> HIDE DEF left
<1>5. /\ drive'.at = "enter" /\ drive'.node = drive.node + 1 /\ drive'.done = drive.node
      /\ drive'.steps = drive.node /\ drive'.tokens = spent /\ drive'.state = drive.state
      /\ drive' \in Drives /\ row' = [status |-> "running", steps |-> drive.node, tokens |-> spent]
  <2>1. /\ drive \in Drives /\ drive.node \in Nat /\ drive.done = drive.node - 1
        /\ drive.steps = drive.node /\ drive.tokens = spent /\ row.status = "running"
    BY <1>1, Driving
  <2>2. drive.done + 1 = drive.node /\ drive.node + 1 \in Nat /\ "enter" \in Places
    BY <1>1, <2>1 DEF Places
  <2> QED BY <2>1, <2>2 DEF ExitNode, Drives, Saved
<1>6. chain' = Append(chain, seal)
  BY DEF ExitNode, Seal
<1>7. seal \in [node : SealNames, state : States] /\ seal.state = drive.state
  BY <1>1, Driving DEF SealNames
<1> HIDE DEF seal
<1>8. chain \in Seq([node : SealNames, state : States]) /\ Len(chain) = drive.node
  BY <1>1, Driving DEF TypeOK
<1>9. /\ chain' \in Seq([node : SealNames, state : States]) /\ Len(chain') = drive.node + 1
      /\ chain'[1] = chain[1] /\ chain'[Len(chain')].state = drive.state
  BY <1>1, <1>6, <1>7, <1>8
<1>10. /\ events' \in Seq(Events) /\ Len(events') = Len(events) + 1 /\ AskedFor'
       /\ (NoDone => NoDone') /\ (OneDone => OneDone') /\ TrailMatchesRow'
  <2>1. row'.status = row.status
    BY <1>1, <1>5, Driving
  <2> QED BY <1>2, <1>3, <1>4, <1>9, <2>1, ShownOnly
<1>11. Live' /\ Hand' = drive.state /\ ~Suspended'
  BY <1>5 DEF Live, Hand, Suspended
<1>12. TypeOK'
  <2>1. row' \in Rows
    BY <1>1, <1>5, Driving DEF Rows
  <2> QED BY <1>1, <1>2, <1>5, <1>9, <1>10, <2>1, Driving DEF TypeOK
<1>13. Account'
  <2>1. drive.state \in States /\ spent <= MaxTokens
    BY <1>1, Driving
  <2> QED BY <1>1, <1>2, <1>5, <1>11, <2>1 DEF Account
<1>14. Handed'
  <2>1. drive'.state = Restored'
    BY <1>5, <1>9 DEF Restored
  <2> QED BY <1>1, <1>5, <1>9, <1>11, <2>1, Driving DEF Handed
<1>15. Opening'
  <2>1. drive.state.flag = "none" /\ drive.node = 1 => Len(events) = 2
    BY <1>1, Driving DEF Opening
  <2>2. ASSUME drive.state.flag = "none", drive.node = 1 PROVE Len(events') = 3
    <3>1. Len(events') = Len(events) + 1
      BY <1>10
    <3>2. Len(events) = 2
      BY <2>1, <2>2
    <3> QED BY <3>1, <3>2
  <2>3. drive'.node # 1 /\ drive'.at = "enter" /\ (drive'.node = 2 => drive.node = 1)
    BY <1>1, <1>5
  <2> QED BY <1>5, <2>2, <2>3 DEF Opening
<1>16. ActedOnce'
  BY <1>1, <1>2, <1>5, Driving DEF ActedOnce
<1>17. Ends'
  <2>1. Answering' <=> Answering
    BY <1>1, <1>5 DEF Answering, Settled
  <2>2. IF Answering' THEN OneDone' ELSE NoDone'
    BY <1>1, <1>10, <2>1, Driving DEF Ends
  <2> QED BY <1>5, <1>11, <2>2 DEF Ends
<1> QED BY <1>10, <1>12, <1>13, <1>14, <1>15, <1>16, <1>17 DEF ChatInv

LEMMA CompleteKeeps ==
  ASSUME ChatInv, Complete(Len(Nodes)), UNCHANGED chat
  PROVE  ChatInv'
<1> DEFINE told == <<Event("audit", "completed")>>
<1>1. Live /\ drive.at = "enter" /\ drive.node = 7
  <2>1. drive.at = "enter" /\ drive.node > 6
    BY NodesAreSix DEF Complete
  <2>2. Live
    BY <2>1 DEF Live
  <2>3. drive.node \in 1 .. 7
    BY <2>2, Driving
  <2> QED BY <2>1, <2>2, <2>3
<1>2. UNCHANGED <<card, spent, acted>>
  BY DEF chat
<1>3. /\ TypeOK /\ ActedOnce /\ AskedFor /\ OneDone /\ events \in Seq(Events) /\ row \in Rows
      /\ drive.done = 6 /\ Len(chain) = 7 /\ spent <= MaxTokens
      /\ row.tokens = spent /\ row.steps = 6
  <2>1. Answering
    BY <1>1 DEF Answering
  <2>2. /\ Ends /\ Account /\ TypeOK /\ ActedOnce /\ AskedFor /\ events \in Seq(Events) /\ row \in Rows
        /\ drive.done = drive.node - 1 /\ Len(chain) = drive.node /\ spent <= MaxTokens
    BY <1>1, Driving
  <2> QED BY <1>1, <2>1, <2>2 DEF Ends, Account
<1>4. /\ told \in Seq(Events) /\ Len(told) = 1 /\ told[1].type = "audit" /\ told[1].of = "completed"
  BY DEF Events, EventTypes, Words
<1>5. /\ Emit(told) /\ drive' = Idle /\ UNCHANGED chain
      /\ row' = [row EXCEPT !.status = "completed"]
  BY DEF Complete, Mirrored
<1> HIDE DEF told
<1>6. row' \in Rows /\ row'.status = "completed" /\ row'.tokens = row.tokens /\ row'.steps = row.steps
  BY <1>3, <1>5 DEF Rows
<1>7. ~Live' /\ ~Suspended' /\ Idle \in Drives
  BY <1>5, <1>6 DEF Live, Idle, Suspended, Drives, Places
<1>8. TypeOK'
  BY <1>2, <1>3, <1>4, <1>5, <1>6, <1>7, Emitted DEF TypeOK
<1>9. Account'
  <2>1. chain' = chain /\ row'.steps = 6 /\ row'.tokens = spent /\ spent' = spent
    BY <1>2, <1>3, <1>5, <1>6
  <2>2. row'.steps = Len(chain') - 1
    BY <1>3, <2>1
  <2> QED BY <1>3, <1>6, <1>7, <2>1, <2>2 DEF Account
<1>10. Handed' /\ Opening'
  BY <1>7 DEF Handed, Opening
<1>11. ActedOnce'
  BY <1>2, <1>3, <1>5 DEF ActedOnce, Idle
<1>12. Ends'
  <2>1. \A k \in 1 .. Len(told) : AfterDone(told[k])
    BY <1>4 DEF AfterDone
  <2>2. OneDone'
    BY <1>3, <1>4, <1>5, <2>1, OneDoneStays
  <2> QED BY <1>7, <2>2 DEF Ends
<1>13. AskedFor'
  <2>1. PICK n \in Nat : n = Len(events)
    BY <1>3
  <2>2. \A k \in 1 .. Len(told) : Fine(told[k], n + k)'
    BY <1>4, HarmlessIsFine
  <2> QED BY <1>2, <1>3, <1>4, <1>5, <2>1, <2>2, AskedStays
<1>14. TrailMatchesRow'
  <2>1. Tells(told[Len(told)]) = row'.status
    BY <1>4, <1>6 DEF Tells
  <2>2. /\ events \in Seq(Events) /\ told \in Seq(Events) /\ Emit(told) /\ Len(told) > 0
        /\ row'.status # "queued"
    BY <1>3, <1>4, <1>5, <1>6
  <2> QED BY <2>1, <2>2, TrailTold
<1> QED BY <1>8, <1>9, <1>10, <1>11, <1>12, <1>13, <1>14 DEF ChatInv

LEMMA LaunchKeeps ==
  ASSUME ChatInv, NEW role \in DOMAIN VisibleTo, Launch(role)
  PROVE  ChatInv'
<1> DEFINE told == <<Event("audit", "running")>>
<1> DEFINE state == Handover(role)
<1> DEFINE seal == [node |-> "__input__", state |-> state]
<1>1. UNCHANGED <<card, spent, acted>> /\ row.status = "queued"
  BY DEF Launch, chat, StartDrive
<1>2. /\ TypeOK /\ Account /\ ActedOnce /\ row \in Rows /\ spent \in Nat
  BY DEF ChatInv, TypeOK
<1>3. /\ events = <<>> /\ chain = <<>> /\ spent = 0 /\ row.steps = 0 /\ row.tokens = 0
  BY <1>1, <1>2 DEF Account
<1>4. /\ told \in Seq(Events) /\ Len(told) = 1 /\ told[1].type = "audit" /\ told[1].of = "running"
  BY DEF Events, EventTypes, Words
<1>5. /\ state \in States /\ state.flag = "none" /\ state.gate = "none" /\ state.role = role
  BY DEF Handover, States
<1>6. /\ Emit(told) /\ chain' = Append(chain, seal) /\ row' = [row EXCEPT !.status = "running"]
      /\ drive' = [Idle EXCEPT !.at = "enter", !.node = 1, !.state = state]
  BY DEF Launch, StartDrive, Mirrored, Seal
<1>7. seal \in [node : SealNames, state : States] /\ seal.state = state
  BY <1>5 DEF SealNames
<1> HIDE DEF told, state, seal
<1>8. /\ chain' \in Seq([node : SealNames, state : States]) /\ Len(chain') = 1
      /\ chain'[1] = seal
  BY <1>3, <1>6, <1>7
<1>9. row' \in Rows /\ row'.status = "running" /\ row'.steps = 0 /\ row'.tokens = 0
  BY <1>2, <1>3, <1>6 DEF Rows
<1>10. /\ drive'.at = "enter" /\ drive'.node = 1 /\ drive'.done = 0 /\ drive'.steps = 0
       /\ drive'.tokens = 0 /\ drive'.state = state /\ drive' \in Drives
  BY <1>5, <1>6 DEF Idle, Drives, Places
<1>11. Live' /\ ~Suspended' /\ Hand' = state
  BY <1>9, <1>10 DEF Live, Suspended, Hand
<1>12. events' \in Seq(Events) /\ Len(events') = 1
  <2>1. events \in Seq(Events) /\ Len(events) = 0
    BY <1>3
  <2> QED BY <1>4, <1>6, <2>1, Emitted
<1>13. TypeOK'
  BY <1>1, <1>2, <1>8, <1>9, <1>10, <1>12 DEF TypeOK
<1>14. Account'
  BY <1>1, <1>3, <1>5, <1>9, <1>10, <1>11, RunTrailAssumption DEF Account
<1>15. Handed'
  <2>1. Restored' = state
    BY <1>7, <1>8 DEF Restored
  <2> QED BY <1>5, <1>7, <1>8, <1>10, <1>11, <2>1 DEF Handed
<1>16. Opening'
  BY <1>10, <1>12 DEF Opening
<1>17. ActedOnce'
  BY <1>1, <1>2, <1>10 DEF ActedOnce
<1>18. events \in Seq(Events) /\ NoDone /\ AskedFor
  BY <1>3 DEF NoDone, AskedFor
<1>19. Ends'
  <2>1. \A k \in 1 .. Len(told) : NotDone(told[k])
    BY <1>4 DEF NotDone
  <2>2. NoDone'
    BY <1>4, <1>6, <1>18, <2>1, NoDoneStays
  <2>3. ~Answering'
    BY <1>5, <1>10 DEF Answering, Settled
  <2> QED BY <1>9, <1>11, <2>2, <2>3 DEF Ends
<1>20. AskedFor'
  <2>1. PICK n \in Nat : n = Len(events)
    BY <1>18
  <2>2. \A k \in 1 .. Len(told) : Fine(told[k], n + k)'
    BY <1>4, HarmlessIsFine
  <2> QED BY <1>1, <1>3, <1>4, <1>6, <1>18, <2>1, <2>2, AskedStays
<1>21. TrailMatchesRow'
  <2>1. Tells(told[Len(told)]) = row'.status
    BY <1>4, <1>9 DEF Tells
  <2>2. /\ events \in Seq(Events) /\ told \in Seq(Events) /\ Emit(told) /\ Len(told) > 0
        /\ row'.status # "queued"
    BY <1>4, <1>6, <1>9, <1>18
  <2> QED BY <2>1, <2>2, TrailTold
<1> QED BY <1>13, <1>14, <1>15, <1>16, <1>17, <1>19, <1>20, <1>21 DEF ChatInv

\* the suspended run goes on with the state that was sealed and the account of the row
LEMMA ResumeKeeps ==
  ASSUME ChatInv, Resume
  PROVE  ChatInv'
<1> DEFINE told == <<Event("audit", "running")>>
<1>1. UNCHANGED <<card, spent, acted, chain>> /\ row.status = "awaiting_approval" /\ drive.at = "off"
  BY DEF Resume, chat, ResumeDrive
<1>2. /\ TypeOK /\ Account /\ Handed /\ ActedOnce /\ Ends /\ AskedFor
      /\ row \in Rows /\ spent \in Nat /\ events \in Seq(Events)
      /\ chain \in Seq([node : SealNames, state : States])
  BY DEF ChatInv, TypeOK
<1>3. /\ Suspended /\ ~Live /\ Len(chain) = 5 /\ row.tokens = spent /\ spent <= MaxTokens /\ row.steps = 4
  <2>1. Suspended /\ ~Live
    BY <1>1 DEF Suspended, Live
  <2>2. Len(chain) = 5 /\ row.tokens = spent /\ spent <= MaxTokens /\ row.steps = Len(chain) - 1
    BY <1>1, <1>2, <2>1 DEF Account, Handed
  <2> QED BY <2>1, <2>2
<1>4. /\ Restored \in States /\ Restored.flag = "none" /\ Restored.role = chain[1].state.role
      /\ Restored.gate \in {"allow", "require_approval"} => Restored.tool \in VisibleTo[Restored.role]
      /\ NoDone
  <2>1. Restored = chain[5].state /\ chain[5] \in [node : SealNames, state : States]
    <3>1. 5 \in 1 .. Len(chain)
      BY <1>3
    <3>2. chain[5] \in [node : SealNames, state : States]
      BY <1>2, <3>1, ElementOfSeq
    <3> QED BY <1>3, <3>2 DEF Restored
  <2>2. Hand = Restored
    BY <1>3 DEF Hand
  <2> QED BY <1>2, <1>3, <2>1, <2>2 DEF Handed, Ends
<1>5. /\ told \in Seq(Events) /\ Len(told) = 1 /\ told[1].type = "audit" /\ told[1].of = "running"
  BY DEF Events, EventTypes, Words
<1>6. /\ Emit(told) /\ row' = [row EXCEPT !.status = "running"]
      /\ drive' = [Idle EXCEPT !.at = "enter", !.node = Len(chain), !.done = row.steps,
                               !.steps = row.steps, !.tokens = row.tokens, !.state = Restored]
  BY DEF Resume, ResumeDrive, Mirrored, Resumed
<1> HIDE DEF told
<1>7. row' \in Rows /\ row'.status = "running" /\ row'.steps = 4 /\ row'.tokens = spent
  BY <1>2, <1>3, <1>6 DEF Rows
<1>8. /\ drive'.at = "enter" /\ drive'.node = 5 /\ drive'.done = 4 /\ drive'.steps = 4
      /\ drive'.tokens = spent /\ drive'.state = Restored /\ drive' \in Drives
  <2>1. drive' = [Idle EXCEPT !.at = "enter", !.node = 5, !.done = 4, !.steps = 4,
                              !.tokens = spent, !.state = Restored]
    BY <1>3, <1>6
  <2> QED BY <1>2, <1>4, <2>1 DEF Idle, Drives, Places
<1>9. Live' /\ ~Suspended' /\ Hand' = Restored /\ Restored' = Restored
  BY <1>1, <1>7, <1>8 DEF Live, Suspended, Hand, Restored
<1>10. TypeOK'
  BY <1>1, <1>2, <1>5, <1>6, <1>7, <1>8, Emitted DEF TypeOK
<1>11. Account'
  BY <1>1, <1>3, <1>4, <1>7, <1>8, <1>9 DEF Account
<1>12. Handed'
  BY <1>1, <1>3, <1>4, <1>8, <1>9 DEF Handed
<1>13. Opening'
  BY <1>8 DEF Opening
<1>14. ActedOnce'
  BY <1>1, <1>2, <1>8 DEF ActedOnce
<1>15. Ends'
  <2>1. \A k \in 1 .. Len(told) : NotDone(told[k])
    BY <1>5 DEF NotDone
  <2>2. NoDone'
    BY <1>2, <1>4, <1>5, <1>6, <2>1, NoDoneStays
  <2>3. ~Answering'
    BY <1>4, <1>8 DEF Answering, Settled
  <2> QED BY <1>7, <1>9, <2>2, <2>3 DEF Ends
<1>16. AskedFor'
  <2>1. PICK n \in Nat : n = Len(events)
    BY <1>2
  <2>2. \A k \in 1 .. Len(told) : Fine(told[k], n + k)'
    BY <1>5, HarmlessIsFine
  <2> QED BY <1>1, <1>2, <1>5, <1>6, <2>1, <2>2, AskedStays
<1>17. TrailMatchesRow'
  <2>1. Tells(told[Len(told)]) = row'.status
    BY <1>5, <1>7 DEF Tells
  <2>2. /\ events \in Seq(Events) /\ told \in Seq(Events) /\ Emit(told) /\ Len(told) > 0
        /\ row'.status # "queued"
    BY <1>2, <1>5, <1>6, <1>7
  <2> QED BY <2>1, <2>2, TrailTold
<1> QED BY <1>10, <1>11, <1>12, <1>13, <1>14, <1>15, <1>16, <1>17 DEF ChatInv

-----------------------------------------------------------------------------
(* The nodes *)

\* a body that only tells: no call, no end
LEMMA TellReturns ==
  ASSUME ChatInv, drive.at \in {"node", "await"}, NEW new \in Seq(Harmless), NEW cost \in Nat,
         NEW state \in States, Returns(new, cost, state), ~Exceeds(cost), spent' = spent + cost,
         UNCHANGED <<card, acted>>, state.role = drive.state.role, state.flag = drive.state.flag,
         state.gate \in {"allow", "require_approval"} => state.tool \in VisibleTo[state.role],
         drive.node <= 3 => state.gate = "none",
         (drive.node = 1 /\ state.flag = "none") => Len(new) = 0,
         drive.node = 6 => state.flag # "none"
  PROVE  ChatInv'
<1>1. Live /\ DeedStays
  BY DEF Live, DeedStays
<1>2. ActedOnce /\ Ends /\ card \in Cards /\ acted \in Seq(Tools) /\ drive.node \in 1 .. 6
  BY <1>1, Driving
<1>3. Emit(new) /\ UNCHANGED chain /\ drive'.at = "exit"
  <2>1. drive \in Drives
    BY <1>1, Driving
  <2> QED BY <2>1 DEF Returns, Drives
<1>4. PICK n \in Nat : n = Len(events)
  BY DEF ChatInv, TypeOK
<1>5. /\ new \in Seq(Events)
      /\ \A k \in 1 .. Len(new) : TellsNothing(new[k]) /\ Fine(new[k], n + k)'
  BY HarmlessSeq
<1>6. (NoDone => NoDone') /\ (OneDone => OneDone')
  BY <1>1, <1>3, ShownOnly
<1>7. IF state.flag # "none" \/ drive.node = 6 THEN OneDone' ELSE NoDone'
  <2>1. Answering <=> state.flag # "none"
    BY <1>2 DEF Answering, Settled
  <2>2. IF Answering THEN OneDone ELSE NoDone
    BY <1>1, <1>2 DEF Ends
  <2> QED BY <1>6, <2>1, <2>2
<1>8. ActedOnce'
  BY <1>2, <1>3 DEF ActedOnce
<1>9. card' \in Cards /\ acted' \in Seq(Tools)
  BY <1>2
<1> QED BY <1>1, <1>4, <1>5, <1>7, <1>8, <1>9, ReturnsKeeps

\* a body that ends the answer
LEMMA DoneReturns ==
  ASSUME ChatInv, drive.at = "node", ~Settled, NEW new \in Seq(Events), NEW cost \in Nat,
         NEW state \in States, Returns(new, cost, state), ~Exceeds(cost), spent' = spent + cost,
         UNCHANGED <<card, acted>>, state.role = drive.state.role,
         state.gate \in {"allow", "require_approval"} => state.tool \in VisibleTo[state.role],
         drive.node <= 3 => state.gate = "none",
         state.flag # "none" \/ drive.node = 6, Len(new) > 0, new[Len(new)] = Done,
         \A k \in 1 .. (Len(new) - 1) : new[k] \in Harmless
  PROVE  ChatInv'
<1>1. Live /\ DeedStays
  BY DEF Live, DeedStays
<1>2. /\ ActedOnce /\ Ends /\ card \in Cards /\ acted \in Seq(Tools) /\ drive.node \in 1 .. 6
      /\ events \in Seq(Events)
  BY <1>1, Driving
<1>3. Emit(new) /\ UNCHANGED chain /\ drive'.at = "exit"
  <2>1. drive \in Drives
    BY <1>1, Driving
  <2> QED BY <2>1 DEF Returns, Drives
<1>4. PICK n \in Nat : n = Len(events)
  BY <1>2
<1>5. ASSUME NEW k \in 1 .. Len(new)
      PROVE  TellsNothing(new[k]) /\ Fine(new[k], n + k)'
  <2>1. CASE k \in 1 .. (Len(new) - 1)
    <3>1. /\ new[k].type \notin {"tool_call", "approval_required", "tool_result", "error"}
          /\ TellsNothing(new[k])
      BY <2>1 DEF Harmless
    <3> QED BY <3>1, HarmlessIsFine
  <2>2. CASE k \notin 1 .. (Len(new) - 1)
    <3>1. k = Len(new)
      BY <2>2
    <3>2. new[k].type = "done"
      BY <3>1 DEF Done
    <3> QED BY <3>2, HarmlessIsFine DEF TellsNothing, Tells
  <2> QED BY <2>1, <2>2
<1>6. NoDone
  <2>1. ~Answering
    <3>1. drive.node # 7
      BY <1>2
    <3> QED BY <3>1 DEF Answering
  <2> QED BY <1>1, <1>2, <2>1 DEF Ends
<1>7. OneDone'
  <2>1. new[Len(new)].type = "done"
    BY DEF Done
  <2>2. \A k \in 1 .. (Len(new) - 1) : NotDone(new[k])
    BY DEF Harmless, NotDone
  <2> QED BY <1>2, <1>3, <1>6, <2>1, <2>2, DoneComes
<1>8. ActedOnce'
  BY <1>2, <1>3 DEF ActedOnce
<1>9. /\ card' \in Cards /\ acted' \in Seq(Tools)
      /\ state.flag = "none" => drive.state.flag = "none"
      /\ (drive.node = 1 /\ state.flag = "none") => Len(new) = 0
  BY <1>2 DEF Settled
<1> QED BY <1>1, <1>4, <1>5, <1>7, <1>8, <1>9, ReturnsKeeps

\* what the nodes find when they begin
LEMMA Begun ==
  ASSUME ChatInv, drive.at \in {"node", "await", "act"}
  PROVE  /\ Live /\ drive.node \in 1 .. 6 /\ drive.state \in States
         /\ ~Exceeds(0) /\ spent \in Nat /\ spent + 0 = spent
         /\ <<>> \in Seq(Harmless) /\ <<>> \in Seq(Events) /\ Len(<<>>) = 0
<1>1. Live
  BY DEF Live
<1>2. /\ drive.node \in 1 .. 6 /\ drive.state \in States
      /\ drive.tokens = spent /\ spent <= MaxTokens /\ spent \in Nat
  BY <1>1, Driving
<1> QED BY <1>1, <1>2, RunTrailAssumption DEF Exceeds

LEMMA SkipKeeps ==
  ASSUME ChatInv, drive.at = "node", Skip, UNCHANGED chat, drive.node = 6 => Settled
  PROVE  ChatInv'
<1>1. /\ drive.node \in 1 .. 6 /\ drive.state \in States /\ Live
      /\ ~Exceeds(0) /\ spent + 0 = spent /\ <<>> \in Seq(Harmless) /\ Len(<<>>) = 0
  BY Begun
<1>2. /\ drive.state.gate \in {"allow", "require_approval"} =>
           drive.state.tool \in VisibleTo[drive.state.role]
      /\ drive.node <= 3 => drive.state.gate = "none"
  BY <1>1, Driving
<1>3. Returns(<<>>, 0, drive.state) /\ UNCHANGED <<card, acted>> /\ spent' = spent + 0
  BY <1>1 DEF Skip, chat
<1>4. drive.node = 6 => drive.state.flag # "none"
  BY DEF Settled
<1> QED BY <1>1, <1>2, <1>3, <1>4, TellReturns

LEMMA PassKeeps ==
  ASSUME ChatInv, NEW name, Pass(name)
  PROVE  ChatInv'
BY SkipKeeps DEF Pass, In, Quiet

LEMMA InputGuardKeeps ==
  ASSUME ChatInv, InputGuard
  PROVE  ChatInv'
<1>1. In("input_guard") /\ UNCHANGED chat /\ drive.at = "node"
  BY DEF InputGuard, Quiet, In
<1>2. /\ drive.node \in 1 .. 6 /\ drive.state \in States /\ Live /\ ~Exceeds(0) /\ spent + 0 = spent
  BY <1>1, Begun
<1>3. drive.node = 1
  BY <1>1, <1>2, InIsWhere
<1>4. CASE Skip
  BY <1>1, <1>3, <1>4, SkipKeeps
<1>5. CASE Settle("refused", <<Token, Event("denied", "none")>>)
  <2> DEFINE new == <<Token, Event("denied", "none")>> \o <<Done>>
  <2> DEFINE state == [drive.state EXCEPT !.flag = "refused"]
  <2>1. Returns(new, 0, state)
    BY <1>5 DEF Settle
  <2>2. /\ state \in States /\ state.flag = "refused" /\ state.role = drive.state.role
        /\ state.gate = drive.state.gate /\ state.tool = drive.state.tool
    BY <1>2 DEF States
  <2>3. Token \in Harmless /\ Event("denied", "none") \in Harmless /\ Done \in Events
    BY HarmlessEvents DEF Token, Done, Events, EventTypes, Words
  <2>4. Len(new) = 3 /\ new[1] = Token /\ new[2] = Event("denied", "none") /\ new[3] = Done
    OBVIOUS
  <2>5. new \in Seq(Events)
    BY <2>3 DEF Harmless
  <2> HIDE DEF new, state
  <2>6. \A k \in 1 .. (Len(new) - 1) : new[k] \in Harmless
    BY <2>3, <2>4
  <2>7. /\ drive.state.gate \in {"allow", "require_approval"} =>
             drive.state.tool \in VisibleTo[drive.state.role]
        /\ drive.node <= 3 => drive.state.gate = "none"
    BY <1>2, Driving
  <2>8. /\ UNCHANGED <<card, acted>> /\ spent' = spent + 0
    BY <1>1, <1>2 DEF chat
  <2>9. ~Settled
    BY <1>1, <1>2, <1>3, Driving DEF Handed, Settled
  <2>10. /\ Len(new) > 0 /\ new[Len(new)] = Done /\ state.flag # "none" /\ state \in States
         /\ state.role = drive.state.role
         /\ state.gate \in {"allow", "require_approval"} => state.tool \in VisibleTo[state.role]
         /\ drive.node <= 3 => state.gate = "none"
    BY <2>2, <2>4, <2>7
  <2> QED BY <1>1, <1>2, <2>1, <2>5, <2>6, <2>8, <2>9, <2>10, DoneReturns
<1> QED BY <1>4, <1>5 DEF InputGuard

\* a call is announced, and awaited or carried out
LEMMA AnnounceKeeps ==
  ASSUME ChatInv, drive.at = "node", ~Settled, drive.node # 1, NEW new \in Seq(Events), Emit(new),
         NEW to \in {"await", "act"}, drive' = [drive EXCEPT !.at = to],
         UNCHANGED <<row, chain, chat>>,
         to = "await" => \/ drive.node = 2 /\ "get_alert" \in CHAT_READONLY_TOOLS
                         \/ drive.node = 5 /\ drive.state.tool \in CHAT_READONLY_TOOLS,
         to = "act" => /\ ~card.executed /\ card.status = "approved"
                       /\ card.tool = drive.state.tool /\ drive.node = 5
                       /\ drive.state.gate = "require_approval",
         NEW n \in Nat, n = Len(events), \A k \in 1 .. Len(new) : Fine(new[k], n + k)',
         \A k \in 1 .. Len(new) : TellsNothing(new[k]) /\ NotDone(new[k])
  PROVE  ChatInv'
<1>1. Live
  BY DEF Live
<1>2. UNCHANGED <<card, spent, acted>>
  BY DEF chat
<1>3. /\ TypeOK /\ Account /\ Handed /\ ActedOnce /\ Ends /\ AskedFor /\ TrailMatchesRow
      /\ drive \in Drives /\ events \in Seq(Events) /\ drive.node \in 1 .. 6 /\ row.status = "running"
  BY <1>1, Driving
<1>4. /\ drive'.at = to /\ drive'.node = drive.node /\ drive'.done = drive.done
      /\ drive'.steps = drive.steps /\ drive'.tokens = drive.tokens /\ drive'.state = drive.state
      /\ drive' \in Drives
  BY <1>3 DEF Drives, Places
<1>5. Live' /\ Hand' = drive.state /\ Hand = drive.state /\ ~Suspended'
  BY <1>1, <1>3, <1>4 DEF Live, Hand, Suspended
<1>6. TypeOK'
  BY <1>2, <1>3, <1>4, Emitted DEF TypeOK
<1>7. Account'
  BY <1>1, <1>2, <1>3, <1>4, <1>5 DEF Account
<1>8. Handed'
  BY <1>1, <1>3, <1>4, <1>5, Driving DEF Handed, Restored
<1>9. Opening'
  BY <1>4 DEF Opening
<1>10. ActedOnce'
  BY <1>2, <1>3, <1>4 DEF ActedOnce
<1>11. Ends'
  <2>1. ~Answering /\ ~Answering'
    <3>1. drive.node # 7
      BY <1>3
    <3> QED BY <1>4, <3>1 DEF Answering, Settled
  <2>2. NoDone
    BY <1>1, <1>3, <2>1 DEF Ends
  <2>3. NoDone'
    BY <1>3, <2>2, NoDoneStays
  <2> QED BY <1>3, <1>5, <2>1, <2>3 DEF Ends
<1>12. AskedFor'
  BY <1>2, <1>3, AskedStays
<1>13. TrailMatchesRow'
  BY <1>3, TrailStays
<1> QED BY <1>6, <1>7, <1>8, <1>9, <1>10, <1>11, <1>12, <1>13 DEF ChatInv

\* a read-only call, refused or announced: that of the context is the fifth event of the
\* run, that of the answer was asked for
LEMMA GatedKeeps ==
  ASSUME ChatInv, drive.at = "node", ~Settled, NEW tool, Gated(tool), UNCHANGED chat,
         \/ drive.node = 2 /\ tool = "get_alert"
         \/ drive.node = 5 /\ tool = drive.state.tool /\ drive.state.gate = "allow"
  PROVE  ChatInv'
<1>1. Live /\ <<>> \in Seq(Events) /\ Len(<<>>) = 0 /\ spent \in Nat
  BY Begun
<1>2. UNCHANGED <<card, spent, acted>>
  BY DEF chat
<1>3. PICK n \in Nat : n = Len(events)
  BY DEF ChatInv, TypeOK
<1>4. CASE Throws(<<>>, 0, "gate_denied")
  <2>1. \A k \in 1 .. Len(<<>>) : Fine(<<>>[k], n + k)'
    BY <1>1
  <2> QED BY <1>1, <1>2, <1>3, <1>4, <2>1, ThrowsKeeps
<1>5. CASE ~Throws(<<>>, 0, "gate_denied")
  <2> DEFINE new == <<Event("tool_call", tool)>>
  <2>1. /\ tool \in CHAT_READONLY_TOOLS /\ Emit(new) /\ drive' = [drive EXCEPT !.at = "await"]
        /\ UNCHANGED <<row, chain>>
    BY <1>5 DEF Gated
  <2>2. /\ new \in Seq(Events) /\ Len(new) = 1 /\ new[1] = Event("tool_call", tool)
    BY <2>1, ChatRunAssumption DEF Events, EventTypes
  <2> HIDE DEF new
  <2>3. Fine(new[1], n + 1)'
    <3>1. CASE drive.node = 2 /\ tool = "get_alert"
      <4>1. n = 4
        BY <1>1, <1>3, <3>1, Driving DEF Opening, Settled
      <4> QED BY <2>2, <3>1, <4>1 DEF Fine
    <3>2. CASE drive.node = 5 /\ tool = drive.state.tool /\ drive.state.gate = "allow"
      <4>1. tool \in VisibleTo[chain[1].state.role]
        BY <1>1, <3>2, Driving
      <4>2. tool \in VisibleTo[chain'[1].state.role]
        BY <2>1, <4>1
      <4> QED BY <2>2, <4>2 DEF Fine
    <3> QED BY <3>1, <3>2
  <2>4. \A k \in 1 .. Len(new) : Fine(new[k], n + k)'
    BY <2>2, <2>3
  <2>5. \A k \in 1 .. Len(new) : TellsNothing(new[k]) /\ NotDone(new[k])
    BY <2>2 DEF TellsNothing, Tells, NotDone
  <2>6. UNCHANGED <<row, chain, chat>> /\ drive.node # 1
    BY <2>1
  <2>7. \/ drive.node = 2 /\ "get_alert" \in CHAT_READONLY_TOOLS
        \/ drive.node = 5 /\ drive.state.tool \in CHAT_READONLY_TOOLS
    BY <2>1
  <2> QED BY <1>3, <2>1, <2>2, <2>4, <2>5, <2>6, <2>7, AnnounceKeeps
<1> QED BY <1>4, <1>5

LEMMA LoadContextKeeps ==
  ASSUME ChatInv, LoadContext
  PROVE  ChatInv'
<1>1. In("load_context") /\ ~Settled /\ UNCHANGED chat /\ drive.at = "node"
  BY DEF LoadContext, Quiet, In
<1>2. Live /\ <<>> \in Seq(Events) /\ Len(<<>>) = 0 /\ spent \in Nat /\ drive.node \in 1 .. 6
  BY <1>1, Begun
<1>3. drive.node = 2
  BY <1>1, <1>2, InIsWhere
<1>4. PICK n \in Nat : n = Len(events)
  BY DEF ChatInv, TypeOK
<1>5. CASE Skip
  BY <1>1, <1>3, <1>5, SkipKeeps
<1>6. CASE Gated("get_alert")
  BY <1>1, <1>3, <1>6, GatedKeeps
<1>7. CASE Throws(<<>>, 0, "node_error")
  <2>1. \A k \in 1 .. Len(<<>>) : Fine(<<>>[k], n + k)'
    BY <1>2
  <2>2. UNCHANGED <<card, acted>> /\ spent' \in Nat
    BY <1>1, <1>2 DEF chat
  <2> QED BY <1>2, <1>4, <1>7, <2>1, <2>2, ThrowsKeeps
<1> QED BY <1>5, <1>6, <1>7 DEF LoadContext

LEMMA ExecuteReadonlyKeeps ==
  ASSUME ChatInv, ExecuteReadonly
  PROVE  ChatInv'
<1>1. /\ In("execute") /\ ~Settled /\ UNCHANGED chat /\ drive.at = "node"
      /\ drive.state.gate = "allow" /\ Gated(drive.state.tool)
  BY DEF ExecuteReadonly, Quiet, In
<1>2. drive.node \in 1 .. 6
  BY <1>1, Begun
<1>3. drive.node = 5
  BY <1>1, <1>2, InIsWhere
<1> QED BY <1>1, <1>3, GatedKeeps

LEMMA AnsweredKeeps ==
  ASSUME ChatInv, Answered
  PROVE  ChatInv'
<1>0. PICK tool : tool = IF Nodes[drive.node] = "execute" THEN drive.state.tool ELSE "get_alert"
  OBVIOUS
<1> DEFINE new == <<Event("tool_result", tool)>>
<1>1. drive.at = "await" /\ UNCHANGED chat
  BY DEF Answered, Quiet
<1>2. /\ Live /\ <<>> \in Seq(Events) /\ Len(<<>>) = 0 /\ spent \in Nat /\ drive.node \in 1 .. 6
      /\ drive.state \in States /\ ~Exceeds(0) /\ spent + 0 = spent
  BY <1>1, Begun
<1>3. tool \in CHAT_READONLY_TOOLS /\ TierOf[tool] = "L0" /\ tool \in Tools
  <2>1. \/ drive.node = 2 /\ "get_alert" \in CHAT_READONLY_TOOLS
        \/ drive.node = 5 /\ drive.state.tool \in CHAT_READONLY_TOOLS
    BY <1>1, <1>2, Driving DEF Handed
  <2>2. tool \in CHAT_READONLY_TOOLS
    BY <1>0, <2>1, NodesAreSix
  <2> QED BY <2>2, ChatRunAssumption
<1>4. PICK n \in Nat : n = Len(events)
  BY DEF ChatInv, TypeOK
<1>5. Returns(new, 0, drive.state) \/ Throws(<<>>, 0, "node_error")
  BY <1>0 DEF Answered
<1>6. UNCHANGED <<card, acted>> /\ spent' = spent + 0 /\ spent' \in Nat
  BY <1>1, <1>2 DEF chat
<1>7. new \in Seq(Events) /\ Len(new) = 1 /\ new[1] = Event("tool_result", tool)
  BY <1>3 DEF Events, EventTypes
<1> HIDE DEF new
<1>8. CASE Returns(new, 0, drive.state)
  <2>1. \A k \in 1 .. Len(new) : Fine(new[k], n + k)'
    <3>1. Fine(new[1], n + 1)'
      BY <1>3, <1>7 DEF Fine
    <3> QED BY <1>7, <3>1
  <2>2. \A k \in 1 .. Len(new) : TellsNothing(new[k])
    BY <1>7 DEF TellsNothing, Tells
  <2>3. /\ card \in Cards /\ acted \in Seq(Tools) /\ ActedOnce /\ Ends /\ Handed /\ drive \in Drives
        /\ events \in Seq(Events)
        /\ drive.state.gate \in {"allow", "require_approval"} =>
             drive.state.tool \in VisibleTo[drive.state.role]
        /\ drive.node <= 3 => drive.state.gate = "none"
    BY <1>2, Driving
  <2>4. Emit(new) /\ drive'.at = "exit"
    BY <1>8, <2>3 DEF Returns, Drives
  <2>5. ActedOnce'
    BY <1>6, <2>3, <2>4 DEF ActedOnce
  <2>6. drive.node # 1 /\ drive.node # 6 /\ drive.node # 7
    BY <1>1, <1>2, <2>3 DEF Handed
  <2>7. IF drive.state.flag # "none" \/ drive.node = 6 THEN OneDone' ELSE NoDone'
    <3>1. \A k \in 1 .. Len(new) : NotDone(new[k]) /\ AfterDone(new[k])
      BY <1>7 DEF NotDone, AfterDone
    <3>2. (NoDone => NoDone') /\ (OneDone => OneDone')
      BY <1>7, <2>3, <2>4, <3>1, NoDoneStays, OneDoneStays
    <3>3. Answering <=> drive.state.flag # "none"
      BY <2>6 DEF Answering, Settled
    <3>4. IF Answering THEN OneDone ELSE NoDone
      BY <1>2, <2>3 DEF Ends
    <3> QED BY <2>6, <3>2, <3>3, <3>4
  <2>8. DeedStays
    BY <1>6 DEF DeedStays
  <2>9. card' \in Cards /\ acted' \in Seq(Tools)
    BY <1>6, <2>3
  <2>10. /\ drive.at \in {"node", "await", "act"} /\ new \in Seq(Events) /\ drive.state \in States
         /\ ~Exceeds(0) /\ spent' = spent + 0 /\ (drive.node = 1 => Len(new) = 0)
    BY <1>1, <1>2, <1>6, <1>7, <2>6
  <2>11. /\ drive.state.gate \in {"allow", "require_approval"} =>
              drive.state.tool \in VisibleTo[drive.state.role]
         /\ drive.node <= 3 => drive.state.gate = "none"
    BY <2>3
  <2> QED BY <1>4, <1>8, <2>1, <2>2, <2>5, <2>7, <2>8, <2>9, <2>10, <2>11, ReturnsKeeps
<1>9. CASE Throws(<<>>, 0, "node_error")
  <2>1. \A k \in 1 .. Len(<<>>) : Fine(<<>>[k], n + k)'
    BY <1>2
  <2> QED BY <1>2, <1>4, <1>6, <1>9, <2>1, ThrowsKeeps
<1> QED BY <1>5, <1>8, <1>9

\* a call of the model that fails, or whose tokens are too many
LEMMA ModelFails ==
  ASSUME ChatInv, drive.at = "node", NEW cost \in Costs,
         \/ Throws(<<>>, cost, "token_budget")
         \/ Throws(<<>>, cost, "llm_timeout"),
         spent' = spent + cost, UNCHANGED <<card, acted>>
  PROVE  ChatInv'
<1>1. Live /\ <<>> \in Seq(Events) /\ Len(<<>>) = 0 /\ spent \in Nat
  BY Begun
<1>2. cost \in Nat
  BY ChatRunAssumption
<1>3. PICK n \in Nat : n = Len(events)
  BY DEF ChatInv, TypeOK
<1>4. \A k \in 1 .. Len(<<>>) : Fine(<<>>[k], n + k)'
  BY <1>1
<1>5. spent' \in Nat
  BY <1>1, <1>2
<1>6. PICK why \in {"token_budget", "llm_timeout"} : Throws(<<>>, cost, why)
  OBVIOUS
<1> QED BY <1>1, <1>2, <1>3, <1>4, <1>5, <1>6, ThrowsKeeps

LEMMA IntentClassifyKeeps ==
  ASSUME ChatInv, IntentClassify
  PROVE  ChatInv'
<1>1. In("intent_classify") /\ ~Settled /\ UNCHANGED <<card, acted>> /\ drive.at = "node"
  BY DEF IntentClassify, In
<1>2. /\ Live /\ drive.node \in 1 .. 6 /\ drive.state \in States /\ <<>> \in Seq(Harmless)
      /\ Len(<<>>) = 0
  BY <1>1, Begun
<1>3. drive.node = 3
  BY <1>1, <1>2, InIsWhere
<1>4. drive.state.gate = "none"
  BY <1>2, <1>3, Driving
<1>5. PICK cost \in Costs :
        /\ spent' = spent + cost
        /\ \/ Exceeds(cost) /\ Throws(<<>>, cost, "token_budget")
           \/ ~Exceeds(cost) /\ Throws(<<>>, cost, "llm_timeout")
           \/ /\ ~Exceeds(cost)
              /\ \/ Returns(<<Token, Done>>, cost, [drive.state EXCEPT !.flag = "clarify"])
                 \/ \E tool \in Tools : Returns(<<>>, cost, [drive.state EXCEPT !.tool = tool])
  BY DEF IntentClassify
<1>6. cost \in Nat
  BY ChatRunAssumption
<1>7. CASE Throws(<<>>, cost, "token_budget") \/ Throws(<<>>, cost, "llm_timeout")
  BY <1>1, <1>5, <1>7, ModelFails
<1>8. CASE ~Exceeds(cost) /\ Returns(<<Token, Done>>, cost, [drive.state EXCEPT !.flag = "clarify"])
  <2>1. PICK state : state = [drive.state EXCEPT !.flag = "clarify"]
    OBVIOUS
  <2>2. /\ state \in States /\ state.flag # "none" /\ state.role = drive.state.role
        /\ state.gate = "none"
    BY <1>2, <1>4, <2>1 DEF States
  <2>3. PICK new : new = <<Token, Done>>
    OBVIOUS
  <2>4. /\ new \in Seq(Events) /\ Len(new) = 2 /\ new[1] \in Harmless /\ new[2] = Done
    BY <2>3, HarmlessEvents DEF Token, Done, Events, EventTypes, Words, Harmless
  <2>5. /\ Len(new) > 0 /\ new[Len(new)] = Done
        /\ \A k \in 1 .. (Len(new) - 1) : new[k] \in Harmless
    BY <2>4
  <2>6. Returns(new, cost, state) /\ ~Exceeds(cost)
    BY <1>8, <2>1, <2>3
  <2> QED BY <1>1, <1>5, <1>6, <2>2, <2>4, <2>5, <2>6, DoneReturns
<1>9. ASSUME ~Exceeds(cost), NEW tool \in Tools,
             Returns(<<>>, cost, [drive.state EXCEPT !.tool = tool])
      PROVE  ChatInv'
  <2>1. PICK state : state = [drive.state EXCEPT !.tool = tool]
    OBVIOUS
  <2>2. /\ state \in States /\ state.flag = drive.state.flag /\ state.role = drive.state.role
        /\ state.gate = "none"
    BY <1>2, <1>4, <2>1 DEF States
  <2>3. Returns(<<>>, cost, state) /\ ~Exceeds(cost)
    BY <1>9, <2>1
  <2>4. /\ state.gate \in {"allow", "require_approval"} => state.tool \in VisibleTo[state.role]
        /\ drive.node <= 3 => state.gate = "none"
        /\ drive.node # 1 /\ drive.node # 6
    BY <1>3, <2>2
  <2> QED BY <1>1, <1>2, <1>5, <1>6, <2>2, <2>3, <2>4, TellReturns
<1> QED BY <1>5, <1>7, <1>8, <1>9

\* the gate lets pass what the role can see, and nothing else
LEMMA IntentGateKeeps ==
  ASSUME ChatInv, IntentGate
  PROVE  ChatInv'
<1>1. In("intent_gate") /\ ~Settled /\ UNCHANGED chat /\ drive.at = "node"
  BY DEF IntentGate, In, Quiet
<1>2. /\ Live /\ drive.node \in 1 .. 6 /\ drive.state \in States /\ <<>> \in Seq(Harmless)
      /\ Len(<<>>) = 0 /\ ~Exceeds(0) /\ spent + 0 = spent
  BY <1>1, Begun
<1>3. drive.node = 4
  BY <1>1, <1>2, InIsWhere
<1>4. PICK fga \in {"allowed", "fga_denied", "unavailable"} :
        LET gate == DecideIntent(drive.state.role, drive.state.tool, fga) IN
        \/ gate = "deny" /\ Returns(<<Token, Event("denied", "none"), Done>>, 0,
                                    [drive.state EXCEPT !.gate = gate, !.flag = "denied"])
        \/ gate # "deny" /\ Returns(<<>>, 0, [drive.state EXCEPT !.gate = gate])
  BY DEF IntentGate
<1>5. PICK gate : gate = DecideIntent(drive.state.role, drive.state.tool, fga)
  OBVIOUS
<1>6. /\ gate \in {"deny", "allow", "require_approval"}
      /\ gate # "deny" => drive.state.tool \in VisibleTo[drive.state.role]
  BY <1>5 DEF DecideIntent
<1>7. UNCHANGED <<card, acted>> /\ spent' = spent + 0
  BY <1>1, <1>2 DEF chat
<1>8. CASE /\ gate = "deny"
           /\ Returns(<<Token, Event("denied", "none"), Done>>, 0,
                      [drive.state EXCEPT !.gate = gate, !.flag = "denied"])
  <2>1. PICK state : state = [drive.state EXCEPT !.gate = gate, !.flag = "denied"]
    OBVIOUS
  <2>2. /\ state \in States /\ state.flag # "none" /\ state.role = drive.state.role
        /\ state.gate = "deny"
    BY <1>2, <1>8, <2>1 DEF States
  <2>3. PICK new : new = <<Token, Event("denied", "none"), Done>>
    OBVIOUS
  <2>4. /\ new \in Seq(Events) /\ Len(new) = 3 /\ new[1] \in Harmless /\ new[2] \in Harmless
        /\ new[3] = Done
    BY <2>3, HarmlessEvents DEF Token, Done, Events, EventTypes, Words, Harmless
  <2>5. /\ Len(new) > 0 /\ new[Len(new)] = Done
        /\ \A k \in 1 .. (Len(new) - 1) : new[k] \in Harmless
    BY <2>4
  <2>6. Returns(new, 0, state)
    BY <1>8, <2>1, <2>3
  <2>7. /\ state.gate \in {"allow", "require_approval"} => state.tool \in VisibleTo[state.role]
        /\ drive.node <= 3 => state.gate = "none"
    BY <1>3, <2>2
  <2> QED BY <1>1, <1>2, <1>7, <2>2, <2>4, <2>5, <2>6, <2>7, DoneReturns
<1>9. CASE gate # "deny" /\ Returns(<<>>, 0, [drive.state EXCEPT !.gate = gate])
  <2>1. PICK state : state = [drive.state EXCEPT !.gate = gate]
    OBVIOUS
  <2>2. /\ state \in States /\ state.flag = drive.state.flag /\ state.role = drive.state.role
        /\ state.tool = drive.state.tool
    BY <1>2, <1>6, <2>1 DEF States
  <2>3. Returns(<<>>, 0, state) /\ state.tool \in VisibleTo[state.role]
    BY <1>6, <1>9, <2>1, <2>2
  <2>4. /\ state.gate \in {"allow", "require_approval"} => state.tool \in VisibleTo[state.role]
        /\ drive.node <= 3 => state.gate = "none"
        /\ drive.node # 1 /\ drive.node # 6
    BY <1>3, <2>3
  <2> QED BY <1>1, <1>2, <1>7, <2>2, <2>3, <2>4, TellReturns
<1> QED BY <1>4, <1>5, <1>8, <1>9

LEMMA AnswerLlmKeeps ==
  ASSUME ChatInv, AnswerLlm
  PROVE  ChatInv'
<1>1. In("answer_llm") /\ ~Settled /\ UNCHANGED <<card, acted>> /\ drive.at = "node"
  BY DEF AnswerLlm, In
<1>2. Live /\ drive.node \in 1 .. 6 /\ drive.state \in States
  BY <1>1, Begun
<1>3. drive.node = 6
  BY <1>1, <1>2, InIsWhere
<1>4. PICK cost \in Costs :
        /\ spent' = spent + cost
        /\ \/ Exceeds(cost) /\ Throws(<<>>, cost, "token_budget")
           \/ ~Exceeds(cost) /\ Throws(<<>>, cost, "llm_timeout")
           \/ ~Exceeds(cost) /\ Returns(<<Token, Done>>, cost, drive.state)
  BY DEF AnswerLlm
<1>5. cost \in Nat
  BY ChatRunAssumption
<1>6. CASE Throws(<<>>, cost, "token_budget") \/ Throws(<<>>, cost, "llm_timeout")
  BY <1>1, <1>4, <1>6, ModelFails
<1>7. CASE ~Exceeds(cost) /\ Returns(<<Token, Done>>, cost, drive.state)
  <2>1. PICK new : new = <<Token, Done>>
    OBVIOUS
  <2>2. /\ new \in Seq(Events) /\ Len(new) = 2 /\ new[1] \in Harmless /\ new[2] = Done
    BY <2>1, HarmlessEvents DEF Token, Done, Events, EventTypes, Words, Harmless
  <2>3. /\ Len(new) > 0 /\ new[Len(new)] = Done
        /\ \A k \in 1 .. (Len(new) - 1) : new[k] \in Harmless
    BY <2>2
  <2>4. /\ drive.state.gate \in {"allow", "require_approval"} =>
             drive.state.tool \in VisibleTo[drive.state.role]
        /\ drive.node <= 3 => drive.state.gate = "none"
    BY <1>2, Driving
  <2>5. Returns(new, cost, drive.state)
    BY <1>7, <2>1
  <2> QED BY <1>1, <1>2, <1>3, <1>4, <1>5, <1>7, <2>2, <2>3, <2>4, <2>5, DoneReturns
<1> QED BY <1>4, <1>6, <1>7

\* the last node but one, when an action was asked for
LEMMA AskingForApproval ==
  ASSUME ChatInv, ForApproval
  PROVE  /\ Live /\ drive.at = "node" /\ drive.node = 5 /\ ~Settled
         /\ drive.state.gate = "require_approval"
         /\ drive.state.tool \in Tools /\ drive.state.tool \in VisibleTo[chain[1].state.role]
<1>1. In("execute") /\ ~Settled /\ drive.at = "node" /\ drive.state.gate = "require_approval"
  BY DEF ForApproval, In
<1>2. Live /\ drive.node \in 1 .. 6
  BY <1>1, Begun
<1>3. drive.node = 5
  BY <1>1, <1>2, InIsWhere
<1>4. /\ drive.state.role \in DOMAIN VisibleTo /\ chain[1].state.role = drive.state.role
      /\ drive.state.tool \in VisibleTo[drive.state.role]
  BY <1>1, <1>2, Driving
<1> QED BY <1>1, <1>2, <1>3, <1>4, ChatRunAssumption

LEMMA RefuseKeeps ==
  ASSUME ChatInv, Refuse
  PROVE  ChatInv'
<1>1. ForApproval /\ UNCHANGED chat /\ Returns(<<Token>>, 0, [drive.state EXCEPT !.outcome = "rejected"])
  BY DEF Refuse, Quiet
<1>2. drive.at = "node" /\ drive.node = 5 /\ Live
  BY <1>1, AskingForApproval
<1>3. drive.state \in States /\ ~Exceeds(0) /\ spent + 0 = spent
  BY <1>2, Begun
<1>4. /\ drive.state.gate \in {"allow", "require_approval"} =>
           drive.state.tool \in VisibleTo[drive.state.role]
  BY <1>2, Driving
<1>5. PICK state : state = [drive.state EXCEPT !.outcome = "rejected"]
  OBVIOUS
<1>6. /\ state \in States /\ state.flag = drive.state.flag /\ state.role = drive.state.role
      /\ state.gate \in {"allow", "require_approval"} => state.tool \in VisibleTo[state.role]
      /\ Returns(<<Token>>, 0, state)
  BY <1>1, <1>3, <1>4, <1>5 DEF States
<1>7. <<Token>> \in Seq(Harmless)
  BY HarmlessEvents DEF Token
<1>8. UNCHANGED <<card, acted>> /\ spent' = spent + 0
  BY <1>1, <1>3 DEF chat
<1>9. /\ drive.node # 1 /\ drive.node # 6 /\ ~(drive.node <= 3)
  BY <1>2
<1> QED BY <1>2, <1>3, <1>6, <1>7, <1>8, <1>9, TellReturns

LEMMA ApprovalGateKeeps ==
  ASSUME ChatInv, ApprovalGate
  PROVE  ChatInv'
<1>1. ForApproval /\ card.status = "approved" /\ ~card.executed /\ UNCHANGED chat
  BY DEF ApprovalGate, Quiet
<1>2. /\ Live /\ drive.at = "node" /\ drive.node = 5 /\ ~Settled
      /\ drive.state.gate = "require_approval"
      /\ drive.state.tool \in Tools /\ drive.state.tool \in VisibleTo[chain[1].state.role]
  BY <1>1, AskingForApproval
<1>3. PICK tool : tool = drive.state.tool
  OBVIOUS
<1>4. PICK new : new = <<Token, Event("tool_call", tool)>>
  OBVIOUS
<1>5. \/ /\ card.tool = drive.state.tool
         /\ Emit(new) /\ drive' = [drive EXCEPT !.at = "act"] /\ UNCHANGED <<row, chain>>
      \/ Throws(new, 0, "gate_denied")
  BY <1>3, <1>4 DEF ApprovalGate
<1>6. chain' = chain
  BY <1>5 DEF Throws, Kill
<1>7. /\ new \in Seq(Events) /\ Len(new) = 2 /\ new[1] = Event("token", "none")
      /\ new[2] = Event("tool_call", tool)
  BY <1>2, <1>3, <1>4 DEF Events, EventTypes, Words, Token
<1>8. PICK n \in Nat : n = Len(events)
  BY DEF ChatInv, TypeOK
<1>9. \A k \in 1 .. Len(new) : Fine(new[k], n + k)'
  <2>1. Fine(new[1], n + 1)'
    BY <1>7, HarmlessIsFine
  <2>2. tool \in VisibleTo[chain'[1].state.role]
    BY <1>2, <1>3, <1>6
  <2>3. Fine(new[2], n + 2)'
    BY <1>7, <2>2 DEF Fine
  <2> QED BY <1>7, <2>1, <2>3
<1>10. \A k \in 1 .. Len(new) : TellsNothing(new[k]) /\ NotDone(new[k])
  BY <1>7 DEF TellsNothing, Tells, NotDone
<1>11. spent' \in Nat /\ UNCHANGED <<card, acted>>
  BY <1>1, <1>2, Begun DEF chat
<1>12. CASE Throws(new, 0, "gate_denied")
  BY <1>2, <1>7, <1>8, <1>9, <1>11, <1>12, ThrowsKeeps
<1>13. CASE /\ card.tool = drive.state.tool
            /\ Emit(new) /\ drive' = [drive EXCEPT !.at = "act"] /\ UNCHANGED <<row, chain>>
  <2>1. UNCHANGED <<row, chain, chat>> /\ drive.node # 1
    BY <1>1, <1>2, <1>13
  <2> QED BY <1>1, <1>2, <1>7, <1>8, <1>9, <1>10, <1>13, <2>1, AnnounceKeeps
<1> QED BY <1>5, <1>12, <1>13

\* the approved action is carried out: the first one, and the one of the card
LEMMA ActKeeps ==
  ASSUME ChatInv, Act
  PROVE  ChatInv'
<1>1. drive.at = "act" /\ spent' = spent
  BY DEF Act
<1>2. Live /\ drive.state \in States /\ ~Exceeds(0) /\ spent + 0 = spent
  BY <1>1, Begun
<1>3. /\ ~card.executed /\ card.status = "approved" /\ card.tool = drive.state.tool
      /\ drive.node = 5 /\ drive.state.gate = "require_approval" /\ acted = <<>>
      /\ card \in Cards /\ Ends /\ drive \in Drives /\ events \in Seq(Events)
  BY <1>1, <1>2, Driving DEF ActedOnce
<1>4. PICK tool : tool = drive.state.tool
  OBVIOUS
<1>5. tool \in Tools
  BY <1>2, <1>3, <1>4, Driving, ChatRunAssumption
<1>6. PICK state : state = [drive.state EXCEPT !.outcome = "executed"]
  OBVIOUS
<1>7. PICK new : new = <<Event("tool_result", tool)>>
  OBVIOUS
<1>8. /\ Returns(new, 0, state) /\ acted' = Append(acted, tool)
      /\ card' = [card EXCEPT !.executed = TRUE]
  BY <1>4, <1>6, <1>7 DEF Act
<1>9. /\ acted' = <<tool>> /\ acted' \in Seq(Tools)
      /\ card' \in Cards /\ card'.executed /\ card'.tool = tool /\ card'.status = "approved"
  <2>1. acted' = <<tool>> /\ acted' \in Seq(Tools)
    BY <1>3, <1>5, <1>8
  <2>2. card \in Cards /\ card.tool = tool /\ card.status = "approved"
    BY <1>3, <1>4
  <2>3. card' \in Cards /\ card'.executed /\ card'.tool = card.tool /\ card'.status = card.status
    BY <1>8, <2>2 DEF Cards
  <2> QED BY <2>1, <2>2, <2>3
<1>10. /\ state \in States /\ state.flag = drive.state.flag /\ state.role = drive.state.role
       /\ state.gate = drive.state.gate /\ state.tool = drive.state.tool
  BY <1>2, <1>6 DEF States
<1>11. /\ new \in Seq(Events) /\ Len(new) = 1 /\ new[1] = Event("tool_result", tool)
  BY <1>5, <1>7 DEF Events, EventTypes
<1>12. PICK n \in Nat : n = Len(events)
  BY <1>3
<1>13. \A k \in 1 .. Len(new) : Fine(new[k], n + k)'
  <2>1. Fine(new[1], n + 1)'
    BY <1>9, <1>11 DEF Fine
  <2> QED BY <1>11, <2>1
<1>14. \A k \in 1 .. Len(new) : TellsNothing(new[k]) /\ NotDone(new[k]) /\ AfterDone(new[k])
  BY <1>11 DEF TellsNothing, Tells, NotDone, AfterDone
<1>15. Emit(new) /\ drive'.at = "exit"
  BY <1>3, <1>8 DEF Returns, Drives
<1>16. ActedOnce'
  BY <1>9, <1>15 DEF ActedOnce
<1>17. DeedStays
  BY <1>3 DEF DeedStays
<1>18. IF state.flag # "none" \/ drive.node = 6 THEN OneDone' ELSE NoDone'
  <2>1. (NoDone => NoDone') /\ (OneDone => OneDone')
    BY <1>3, <1>11, <1>14, <1>15, NoDoneStays, OneDoneStays
  <2>2. Answering <=> state.flag # "none"
    BY <1>3, <1>10 DEF Answering, Settled
  <2>3. IF Answering THEN OneDone ELSE NoDone
    BY <1>2, <1>3 DEF Ends
  <2> QED BY <1>3, <2>1, <2>2, <2>3
<1>19. /\ state.gate \in {"allow", "require_approval"} => state.tool \in VisibleTo[state.role]
       /\ drive.node # 1 /\ ~(drive.node <= 3)
  BY <1>2, <1>3, <1>10, Driving
<1>20. spent' = spent + 0 /\ drive.at \in {"node", "await", "act"}
  BY <1>1, <1>2
<1> QED BY <1>2, <1>8, <1>9, <1>10, <1>11, <1>12, <1>13, <1>14, <1>16, <1>17, <1>18, <1>19, <1>20,
           ReturnsKeeps

\* the run is suspended: its books are closed and its state is the sealed one
LEMMA SuspendKeeps ==
  ASSUME ChatInv, Suspend
  PROVE  ChatInv'
<1>1. /\ ForApproval /\ card.status = "none" /\ UNCHANGED <<chain, spent, acted>> /\ drive' = Idle
      /\ row' = Saved(drive, "awaiting_approval")
      /\ card' = [NoCard EXCEPT !.status = "pending", !.tool = drive.state.tool]
  BY DEF Suspend
<1>2. /\ Live /\ drive.at = "node" /\ drive.node = 5 /\ ~Settled
      /\ drive.state.tool \in Tools /\ drive.state.tool \in VisibleTo[chain[1].state.role]
  BY <1>1, AskingForApproval
<1>3. /\ TypeOK /\ ActedOnce /\ Ends /\ AskedFor /\ events \in Seq(Events) /\ spent \in Nat
      /\ drive.done = 4 /\ drive.tokens = spent /\ spent <= MaxTokens /\ Len(chain) = 5
      /\ Restored = drive.state /\ chain[1].state.role = drive.state.role
      /\ drive.state.gate \in {"allow", "require_approval"} =>
           drive.state.tool \in VisibleTo[drive.state.role]
  BY <1>2, Driving
<1>4. PICK tool : tool = drive.state.tool
  OBVIOUS
<1>5. PICK new : new = <<Token, Event("approval_required", tool)>>
  OBVIOUS
<1>6. Emit(new)
  BY <1>4, <1>5 DEF Suspend
<1>7. /\ new \in Seq(Events) /\ Len(new) = 2 /\ new[1] = Event("token", "none")
      /\ new[2] = Event("approval_required", tool)
  BY <1>2, <1>4, <1>5 DEF Events, EventTypes, Words, Token
<1>8. PICK n \in Nat : n = Len(events)
  BY <1>3
<1>9. row' \in Rows /\ row'.status = "awaiting_approval" /\ row'.steps = 4 /\ row'.tokens = spent
  BY <1>1, <1>3 DEF Saved, Rows
<1>10. ~Live' /\ Suspended' /\ Idle \in Drives /\ Restored' = Restored /\ Hand' = Restored
  BY <1>1, <1>9 DEF Live, Suspended, Idle, Drives, Places, Restored, Hand
<1>11. /\ card' \in Cards /\ ~card'.executed /\ acted = <<>>
  <2>1. ~card.executed
    BY <1>1, <1>3 DEF ActedOnce
  <2> QED BY <1>1, <1>2, <1>3, <2>1 DEF ActedOnce, NoCard, Cards
<1>12. TypeOK'
  BY <1>1, <1>3, <1>6, <1>7, <1>9, <1>10, <1>11, Emitted DEF TypeOK
<1>13. Account'
  <2>1. row'.steps = Len(chain') - 1
    BY <1>1, <1>3, <1>9
  <2> QED BY <1>1, <1>3, <1>9, <1>10, <2>1 DEF Account
<1>14. Handed' /\ Opening'
  BY <1>1, <1>3, <1>10 DEF Handed, Opening
<1>15. ActedOnce'
  BY <1>1, <1>11 DEF ActedOnce, Idle
<1>16. NoDone'
  <2>1. ~Answering
    BY <1>2 DEF Answering
  <2>2. NoDone
    BY <1>2, <1>3, <2>1 DEF Ends
  <2>3. \A k \in 1 .. Len(new) : NotDone(new[k])
    BY <1>7 DEF NotDone
  <2> QED BY <1>3, <1>6, <1>7, <2>2, <2>3, NoDoneStays
<1>17. Ends'
  BY <1>2, <1>3, <1>9, <1>10, <1>16 DEF Ends, Settled
<1>18. AskedFor'
  <2>1. Fine(new[1], n + 1)'
    BY <1>7, HarmlessIsFine
  <2>2. tool \in VisibleTo[chain'[1].state.role]
    BY <1>1, <1>2, <1>4
  <2>3. Fine(new[2], n + 2)'
    BY <1>7, <2>2 DEF Fine
  <2>4. \A k \in 1 .. Len(new) : Fine(new[k], n + k)'
    BY <1>7, <2>1, <2>3
  <2> QED BY <1>1, <1>3, <1>6, <1>7, <1>8, <1>11, <2>4, AskedStays
<1>19. TrailMatchesRow'
  <2>1. Len(new) > 0 /\ Tells(new[Len(new)]) = row'.status /\ row'.status # "queued"
    BY <1>7, <1>9 DEF Tells
  <2> QED BY <1>3, <1>6, <1>7, <2>1, TrailTold
<1> QED BY <1>12, <1>13, <1>14, <1>15, <1>17, <1>18, <1>19 DEF ChatInv

-----------------------------------------------------------------------------
(* The card, and what happens while no drive is under way *)

LEMMA DecideKeeps ==
  ASSUME ChatInv, NEW to \in {"approved", "rejected"}, Decide(to)
  PROVE  ChatInv'
<1> DEFINE new == <<Event("approval_decided", to)>>
<1>1. /\ Suspended /\ card.status = "pending" /\ card' = [card EXCEPT !.status = to]
      /\ Emit(new) /\ UNCHANGED <<row, chain, drive, spent, acted>>
  BY DEF Decide, Pending, Suspended
<1>2. new \in Seq(Harmless)
  BY HarmlessEvents
<1> HIDE DEF new
<1>3. /\ TypeOK /\ Account /\ Handed /\ ActedOnce /\ Ends /\ TrailMatchesRow
      /\ card \in Cards
  BY DEF ChatInv, TypeOK
<1>4. ~card.executed /\ acted = <<>> /\ ~Live
  BY <1>1, <1>3 DEF ActedOnce, Account, Suspended
<1>5. card' \in Cards /\ ~card'.executed
  BY <1>1, <1>3, <1>4 DEF Cards
<1>6. DeedStays
  BY <1>4 DEF DeedStays
<1>7. events' \in Seq(Events) /\ AskedFor' /\ (NoDone => NoDone') /\ TrailMatchesRow'
  BY <1>1, <1>2, <1>6, ShownOnly
<1>8. TypeOK'
  BY <1>1, <1>3, <1>5, <1>7 DEF TypeOK
<1>9. ~Live' /\ Suspended' /\ Restored' = Restored /\ Hand' = Hand
  BY <1>1, <1>4 DEF Live, Suspended, Restored, Hand
<1>10. Account'
  BY <1>1, <1>3, <1>9 DEF Account, Suspended
<1>11. Handed' /\ Opening'
  BY <1>1, <1>3, <1>9 DEF Handed, Opening
<1>12. ActedOnce'
  BY <1>1, <1>4, <1>5, <1>9 DEF ActedOnce, Live
<1>13. Ends'
  BY <1>1, <1>3, <1>7, <1>9 DEF Ends, Suspended
<1> QED BY <1>7, <1>8, <1>10, <1>11, <1>12, <1>13 DEF ChatInv

\* the run of an expired card fails, and its event says so
LEMMA ExpireCardKeeps ==
  ASSUME ChatInv, ExpireCard
  PROVE  ChatInv'
<1>1. PICK new : new = <<Event("approval_decided", "expired")>>
  OBVIOUS
<1>2. /\ Suspended /\ card.status = "pending" /\ card' = [card EXCEPT !.status = "expired"]
      /\ Emit(new) /\ row' = [row EXCEPT !.status = "failed"]
      /\ UNCHANGED <<chain, drive, spent, acted>>
  BY <1>1 DEF ExpireCard, Pending, Suspended
<1>3. /\ new \in Seq(Events) /\ Len(new) = 1 /\ new[1].type = "approval_decided" /\ new[1].of = "expired"
  BY <1>1 DEF Events, EventTypes, Words
<1>4. /\ TypeOK /\ Account /\ ActedOnce /\ AskedFor /\ card \in Cards /\ row \in Rows
      /\ events \in Seq(Events)
  BY DEF ChatInv, TypeOK
<1>5. ~card.executed /\ acted = <<>> /\ ~Live
  BY <1>2, <1>4 DEF ActedOnce, Account, Suspended
<1>6. card' \in Cards /\ ~card'.executed /\ row' \in Rows /\ row'.status = "failed"
  BY <1>2, <1>4, <1>5 DEF Cards, Rows
<1>7. ~Live' /\ ~Suspended'
  BY <1>2, <1>5, <1>6 DEF Live, Suspended
<1>8. TypeOK'
  BY <1>2, <1>3, <1>4, <1>6, Emitted DEF TypeOK
<1>9. Account' /\ Handed' /\ Opening' /\ Ends'
  BY <1>6, <1>7 DEF Account, Handed, Opening, Ends
<1>10. ActedOnce'
  BY <1>2, <1>5, <1>6, <1>7 DEF ActedOnce, Live
<1>11. AskedFor'
  <2>1. PICK n \in Nat : n = Len(events)
    BY <1>4
  <2>2. \A k \in 1 .. Len(new) : Fine(new[k], n + k)'
    BY <1>3, HarmlessIsFine
  <2> QED BY <1>2, <1>3, <1>4, <1>5, <2>1, <2>2, AskedStays
<1>12. TrailMatchesRow'
  <2>1. Len(new) > 0 /\ Tells(new[Len(new)]) = row'.status /\ row'.status # "queued"
    BY <1>3, <1>6 DEF Tells
  <2> QED BY <1>2, <1>3, <1>4, <2>1, TrailTold
<1> QED BY <1>8, <1>9, <1>10, <1>11, <1>12 DEF ChatInv

LEMMA LapseTokenKeeps ==
  ASSUME ChatInv, LapseToken
  PROVE  ChatInv'
<1>1. /\ UNCHANGED <<row, events, chain, drive, spent, acted>>
      /\ card' = [card EXCEPT !.lapsed = TRUE]
  BY DEF LapseToken, trail, run
<1>2. /\ TypeOK /\ Account /\ Handed /\ Opening /\ ActedOnce /\ Ends /\ AskedFor /\ TrailMatchesRow
      /\ card \in Cards
  BY DEF ChatInv, TypeOK
<1>3. /\ card' \in Cards /\ card'.status = card.status /\ card'.tool = card.tool
      /\ card'.executed = card.executed
  BY <1>1, <1>2 DEF Cards
<1>4. TypeOK'
  BY <1>1, <1>2, <1>3 DEF TypeOK
<1>5. Live' = Live /\ Hand' = Hand /\ Restored' = Restored /\ Suspended' = Suspended
  BY <1>1 DEF Live, Hand, Restored, Suspended
<1>6. Account' /\ Handed' /\ Opening'
  BY <1>1, <1>2, <1>5 DEF Account, Handed, Opening
<1>7. ActedOnce'
  BY <1>1, <1>2, <1>3 DEF ActedOnce
<1>8. Ends'
  BY <1>1, <1>2, <1>5 DEF Ends, Answering, Settled, OneDone, NoDone
<1>9. AskedFor'
  BY <1>1, <1>2, <1>3 DEF AskedFor, Fine
<1>10. TrailMatchesRow'
  BY <1>1, <1>2 DEF TrailMatchesRow, Silent
<1> QED BY <1>4, <1>6, <1>7, <1>8, <1>9, <1>10 DEF ChatInv

\* no drive before, none after
LEMMA NoDriveKeeps ==
  ASSUME ChatInv, ~Live, drive' \in Drives, drive'.at \in {"off", "gone"},
         UNCHANGED <<row, events, chain, chat>>
  PROVE  ChatInv'
<1>1. UNCHANGED <<card, spent, acted>>
  BY DEF chat
<1>2. /\ TypeOK /\ Account /\ Handed /\ ActedOnce /\ Ends /\ AskedFor /\ TrailMatchesRow
  BY DEF ChatInv
<1>3. TypeOK'
  BY <1>1, <1>2 DEF TypeOK
<1>4. ~Live' /\ Restored' = Restored /\ Hand' = Hand /\ Suspended' = Suspended
  BY DEF Live, Hand, Restored, Suspended
<1>5. Account' /\ Handed' /\ Opening'
  BY <1>1, <1>2, <1>4 DEF Account, Handed, Opening
<1>6. ActedOnce'
  BY <1>1, <1>2 DEF ActedOnce
<1>7. Ends'
  BY <1>2, <1>4 DEF Ends, OneDone, NoDone
<1>8. AskedFor'
  BY <1>1, <1>2 DEF AskedFor, Fine
<1>9. TrailMatchesRow'
  BY <1>2 DEF TrailMatchesRow, Silent
<1> QED BY <1>3, <1>5, <1>6, <1>7, <1>8, <1>9 DEF ChatInv

LEMMA MintFailsKeeps ==
  ASSUME ChatInv, MintFails
  PROVE  ChatInv'
<1>1. /\ drive.at = "off" /\ drive' = Gone /\ UNCHANGED <<row, events, chain, chat>>
  BY DEF MintFails
<1>2. Gone \in Drives /\ Gone.at = "gone"
  BY DEF Gone, Idle, Drives, Places
<1>3. ~Live
  BY <1>1 DEF Live
<1> QED BY <1>1, <1>2, <1>3, NoDriveKeeps

\* a restart: the run that was under way fails as orphaned, no other is touched
LEMMA CrashKeeps ==
  ASSUME ChatInv, Crash, UNCHANGED chat
  PROVE  ChatInv'
<1>1. /\ TypeOK /\ Account /\ ActedOnce /\ AskedFor /\ events \in Seq(Events) /\ row \in Rows
      /\ card \in Cards
  BY DEF ChatInv, TypeOK
<1>2. /\ Gone \in Drives /\ Gone.at = "gone" /\ Idle \in Drives /\ Idle.at = "off"
  BY DEF Gone, Idle, Drives, Places
<1>3. /\ drive' = (IF row.status = "queued" THEN Gone ELSE Idle) /\ UNCHANGED chain
      /\ IF row.status = "running" THEN Orphaned ELSE UNCHANGED <<row, events>>
  BY DEF Crash
<1>4. CASE row.status # "running"
  <2>1. ~Live /\ drive' \in Drives /\ drive'.at \in {"off", "gone"} /\ UNCHANGED <<row, events, chain, chat>>
    BY <1>1, <1>2, <1>3, <1>4 DEF Account
  <2> QED BY <2>1, NoDriveKeeps
<1>5. CASE row.status = "running"
  <2>1. Live /\ UNCHANGED <<card, spent, acted>>
    BY <1>1, <1>5 DEF Account, chat
  <2>2. PICK new : new = <<Event("error", "orphaned_by_restart")>>
    OBVIOUS
  <2>3. /\ Emit(new) /\ row' = [row EXCEPT !.status = "failed"] /\ drive' = Idle
    BY <1>3, <1>5, <2>2 DEF Orphaned
  <2>4. /\ new \in Seq(Events) /\ Len(new) = 1 /\ new[1] = Event("error", "orphaned_by_restart")
    BY <2>2 DEF Events, EventTypes, Words
  <2>5. row' \in Rows /\ row'.status = "failed"
    BY <1>1, <2>3 DEF Rows
  <2>6. ~Live' /\ ~Suspended'
    BY <1>2, <2>3, <2>5 DEF Live, Suspended
  <2>7. TypeOK'
    BY <1>1, <1>2, <1>3, <2>1, <2>3, <2>4, <2>5, Emitted DEF TypeOK
  <2>8. Account' /\ Handed' /\ Opening' /\ Ends'
    BY <2>5, <2>6 DEF Account, Handed, Opening, Ends
  <2>9. ActedOnce'
    BY <1>1, <1>2, <2>1, <2>3 DEF ActedOnce
  <2>10. AskedFor'
    <3>1. PICK n \in Nat : n = Len(events)
      BY <1>1
    <3>2. Fine(new[1], n + 1)'
      BY <2>4 DEF Fine
    <3>3. \A k \in 1 .. Len(new) : Fine(new[k], n + k)'
      BY <2>4, <3>2
    <3> QED BY <1>1, <1>3, <2>1, <2>3, <2>4, <3>1, <3>3, AskedStays
  <2>11. TrailMatchesRow'
    <3>1. Len(new) > 0 /\ Tells(new[Len(new)]) = row'.status /\ row'.status # "queued"
      BY <2>4, <2>5 DEF Tells
    <3> QED BY <1>1, <2>3, <2>4, <3>1, TrailTold
  <2> QED BY <2>7, <2>8, <2>9, <2>10, <2>11 DEF ChatInv
<1> QED BY <1>4, <1>5

\* what the browser does changes nothing of the run
LEMMA SameRunKeeps ==
  ASSUME ChatInv, UNCHANGED <<run, chat>>
  PROVE  ChatInv'
<1>1. UNCHANGED <<row, events, chain, drive, card, spent, acted>>
  BY DEF run, chat
<1>2. /\ TypeOK' /\ Account' /\ Handed' /\ Opening' /\ ActedOnce'
  BY <1>1 DEF ChatInv, TypeOK, Account, Handed, Opening, ActedOnce, Live, Hand, Restored, Suspended
<1>3. Ends'
  BY <1>1 DEF ChatInv, Ends, Live, Suspended, Restored, Answering, Settled, OneDone, NoDone
<1>4. AskedFor' /\ TrailMatchesRow'
  BY <1>1 DEF ChatInv, AskedFor, Fine, TrailMatchesRow, Silent
<1> QED BY <1>2, <1>3, <1>4 DEF ChatInv

-----------------------------------------------------------------------------
(* The theorems *)

LEMMA ChatInvInit ==
  ASSUME Init
  PROVE  ChatInv
<1>1. /\ row = [status |-> "queued", steps |-> 0, tokens |-> 0] /\ events = <<>> /\ chain = <<>>
      /\ drive = Idle /\ card = NoCard /\ spent = 0 /\ acted = <<>>
  BY DEF Init, TrailInit
<1>2. TypeOK
  <2>1. row \in Rows
    BY <1>1 DEF Rows
  <2>2. drive \in Drives
    BY <1>1 DEF Idle, Drives, Places
  <2>3. card \in Cards
    BY <1>1 DEF NoCard, Cards
  <2> QED BY <1>1, <2>1, <2>2, <2>3 DEF TypeOK
<1>3. ~Live /\ ~Suspended /\ row.status = "queued"
  BY <1>1 DEF Live, Idle, Suspended
<1>4. Account
  BY <1>1, <1>3 DEF Account
<1>5. Handed /\ Opening /\ Ends
  BY <1>3 DEF Handed, Opening, Ends
<1>6. ActedOnce
  BY <1>1 DEF ActedOnce, NoCard, Idle
<1>7. AskedFor
  BY <1>1 DEF AskedFor
<1>8. TrailMatchesRow
  BY <1>1, <1>3 DEF TrailMatchesRow, Silent
<1> QED BY <1>2, <1>4, <1>5, <1>6, <1>7, <1>8 DEF ChatInv

LEMMA DriveKeeps ==
  ASSUME ChatInv, Drive
  PROVE  ChatInv'
<1>1. CASE EnterNode(Len(Nodes)) /\ Quiet
  BY <1>1, EnterNodeKeeps DEF Quiet
<1>2. ASSUME NEW name \in {Nodes[i] : i \in 2..6}, Pass(name) PROVE ChatInv'
  BY <1>2, PassKeeps
<1>3. CASE drive.at = "exit" /\ ExitNode(Nodes[drive.node]) /\ Quiet
  BY <1>3, ExitNodeKeeps DEF Quiet
<1>4. CASE Complete(Len(Nodes)) /\ Quiet
  BY <1>4, CompleteKeeps DEF Quiet
<1>5. CASE InputGuard \/ LoadContext \/ Answered \/ IntentClassify \/ IntentGate
  BY <1>5, InputGuardKeeps, LoadContextKeeps, AnsweredKeeps, IntentClassifyKeeps, IntentGateKeeps
<1>6. CASE ExecuteReadonly \/ Suspend \/ Refuse \/ ApprovalGate \/ Act \/ AnswerLlm
  BY <1>6, ExecuteReadonlyKeeps, SuspendKeeps, RefuseKeeps, ApprovalGateKeeps, ActKeeps, AnswerLlmKeeps
<1> QED BY <1>1, <1>2, <1>3, <1>4, <1>5, <1>6 DEF Drive

LEMMA ChatInvStep ==
  ASSUME ChatInv, [Next]_vars
  PROVE  ChatInv'
<1>1. CASE UNCHANGED vars
  BY <1>1, SameRunKeeps DEF vars, trail
<1>2. ASSUME NEW role \in DOMAIN VisibleTo, Launch(role) PROVE ChatInv'
  BY <1>2, LaunchKeeps
<1>3. CASE MintFails \/ Resume \/ Drive
  BY <1>3, MintFailsKeeps, ResumeKeeps, DriveKeeps
<1>4. ASSUME NEW to \in {"approved", "rejected"}, Decide(to) PROVE ChatInv'
  BY <1>4, DecideKeeps
<1>5. CASE ExpireCard \/ LapseToken
  BY <1>5, ExpireCardKeeps, LapseTokenKeeps
<1>6. CASE Stream
  <2>1. Push \/ Connect => UNCHANGED run
    BY Zenon DEF Push, Connect
  <2> QED BY <1>6, <2>1, SameRunKeeps DEF Stream
<1>7. CASE (Drop \/ Leave \/ Crash) /\ UNCHANGED chat
  <2>1. CASE Drop \/ Leave
    BY <1>7, <2>1, SameRunKeeps DEF Drop, Leave
  <2>2. CASE Crash
    BY <1>7, <2>2, CrashKeeps
  <2> QED BY <1>7, <2>1, <2>2
<1> QED BY <1>1, <1>2, <1>3, <1>4, <1>5, <1>6, <1>7 DEF Next

\* The inductive invariant of a question: what its drive, its row, its events, its
\* checkpoints and its card say of one another at every moment.
THEOREM ChatInvHolds == Spec => []ChatInv
<1>1. Init => ChatInv
  BY ChatInvInit
<1>2. ChatInv /\ [Next]_vars => ChatInv'
  BY ChatInvStep
<1> QED BY <1>1, <1>2, PTL DEF Spec

\* What a run leaves on the disk agrees, for any budget and costs and any number of
\* restarts: its events tell the status of its row, its row has what its drives spent.
THEOREM RowKeepsBooksHolds == Spec => []RowKeepsBooks
<1>1. ASSUME ChatInv PROVE RowKeepsBooks
  <2>1. Account /\ AskedFor /\ TrailMatchesRow
    BY <1>1 DEF ChatInv
  <2>2. row.status \in {"awaiting_approval", "completed"} =>
          row.tokens = spent /\ spent <= MaxTokens /\ row.steps = Len(chain) - 1
    BY <2>1 DEF Account
  <2>3. MaxSteps >= Len(Nodes) => \A i \in DOMAIN events : events[i] # Event("error", "max_steps")
    BY <2>1 DEF AskedFor, Fine
  <2> QED BY <2>1, <2>2, <2>3 DEF RowKeepsBooks, BudgetSurvives
<1> QED BY <1>1, ChatInvHolds, PTL

LEMMA OneDoneIsOneAnswer ==
  ASSUME OneDone
  PROVE  /\ Occurs("done") = 1
         /\ LET end == CHOOSE i \in DOMAIN events : events[i].type = "done" IN
              \A i \in DOMAIN events : i > end => events[i].type \notin {"tool_call", "approval_required"}
<1>1. PICK d \in DOMAIN events :
        /\ events[d].type = "done"
        /\ \A i \in DOMAIN events : i # d => events[i].type # "done"
        /\ \A i \in DOMAIN events : i > d => events[i].type \notin {"tool_call", "approval_required"}
  BY DEF OneDone
<1>2. {i \in DOMAIN events : events[i].type = "done"} = {d}
  BY <1>1
<1>3. Occurs("done") = 1
  BY <1>2, FS_Singleton DEF Occurs
<1>4. (CHOOSE i \in DOMAIN events : events[i].type = "done") = d
  BY <1>1
<1> QED BY <1>1, <1>3, <1>4

\* A question is answered once and a tool is called as it was asked for, whatever the
\* tools, their tiers, the roles and what they see: what the gate let pass is what the
\* role sees after an approval and a restart too, and the approved action is the only one.
THEOREM AnswersAsAskedHolds == Spec => []AnswersAsAsked
<1>1. ASSUME ChatInv PROVE AnswersAsAsked
  <2>1. ActedOnce /\ Ends /\ AskedFor /\ acted \in Seq(Tools)
    BY <1>1 DEF ChatInv, TypeOK
  <2>2. OneAnswer
    BY <2>1, OneDoneIsOneAnswer DEF OneAnswer, Ends
  <2>3. \A i \in DOMAIN events : events[i].type \in {"tool_call", "approval_required"} =>
          events[i].of \in VisibleTo[chain[1].state.role] \/ OfContext(i)
    BY <2>1 DEF AskedFor, Fine, OfContext
  <2>4. \A i \in DOMAIN events : events[i].type = "tool_result" =>
          \/ TierOf[events[i].of] = "L0" /\ events[i].of \in CHAT_READONLY_TOOLS
          \/ acted = <<events[i].of>> /\ card.tool = events[i].of /\ card.status = "approved"
    BY <2>1 DEF AskedFor, Fine
  <2>5. Len(acted) <= 1
    <3>1. CASE card.executed
      <4>1. acted = <<card.tool>>
        BY <2>1, <3>1 DEF ActedOnce
      <4>2. Len(<<card.tool>>) = 1
        OBVIOUS
      <4> QED BY <4>1, <4>2
    <3>2. CASE ~card.executed
      <4>1. acted = <<>>
        BY <2>1, <3>2 DEF ActedOnce
      <4> QED BY <4>1
    <3> QED BY <3>1, <3>2
  <2> QED BY <2>2, <2>3, <2>4, <2>5 DEF AnswersAsAsked
<1> QED BY <1>1, ChatInvHolds, PTL

=============================================================================
