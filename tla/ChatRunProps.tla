------------------------------ MODULE ChatRunProps ------------------------------
(***************************************************************************)
(* What a question must and must never do, and what is seen of it.         *)
(***************************************************************************)
EXTENDS ChatRun

\* A browser is handed every event of the run once and in order, from the first
\* on, however often its connection breaks in the middle of a push (eventsAfter,
\* the cursor of ReconnectingSse).
EventsOnce == got.inOrder /\ browser.cursor = got.n

\* the status an event tells of, or "none" when it tells of none
Tells(e) ==
  IF e.type = "audit" THEN e.of
  ELSE IF e.type = "approval_required" THEN "awaiting_approval"
  ELSE IF e.type = "error" \/ (e.type = "approval_decided" /\ e.of = "expired") THEN "failed"
  ELSE "none"
TellsNothing(e) == Tells(e) = "none"
Silent(from) == \A i \in from .. Len(events) : TellsNothing(events[i])

\* Who reads the events from the beginning knows the status of the row: no change
\* of a status is without its event, whichever of runner, approval and recovery
\* makes it.
TrailMatchesRow ==
  IF row.status = "queued" THEN Silent(1)
  ELSE \E i \in DOMAIN events : Tells(events[i]) = row.status /\ Silent(i + 1)

\* One account per run: what the drives before and after an approval have charged
\* is on the row together, a run that completes stayed within MAX_TOKENS_PER_RUN as
\* a whole, and a node entered again after the approval is not counted twice: as many
\* steps as there are nodes are always enough.
BudgetSurvives ==
  /\ row.status \in {"awaiting_approval", "completed"} =>
       row.tokens = spent /\ spent <= MaxTokens /\ row.steps = Len(chain) - 1
  /\ MaxSteps >= Len(Nodes) => \A i \in DOMAIN events : events[i] # Event("error", "max_steps")

Occurs(type) == Cardinality({i \in DOMAIN events : events[i].type = type})

\* one `done`, and either the answer of the model or the refusal or question of the
\* node that ended it early, after which no tool was called and no approval asked for
OneAnswer ==
  row.status = "completed" =>
    /\ Occurs("done") = 1
    /\ LET end == CHOOSE i \in DOMAIN events : events[i].type = "done" IN
         \A i \in DOMAIN events : i > end => events[i].type \notin {"tool_call", "approval_required"}

\* the first alert of the case is looked up for whoever asks, a role that sees no tool
\* too: after the start, the first node, and the entry of the second
OfContext(i) == i = 5 /\ events[i] = Event("tool_call", "get_alert")

\* A completed run has given one answer.  A tool is called for the one who asked: the
\* role handed over at the launch can see it, unless it is the lookup of the context; it
\* is read-only and on the ticket, or it is the action of the approved card, and then it
\* was performed once at most (chat/flow.ts:146-339: refused, clarified and denied are
\* flags in a state that is restored after an approval).
AnswersAsAsked ==
  /\ OneAnswer
  /\ \A i \in DOMAIN events : events[i].type \in {"tool_call", "approval_required"} =>
       events[i].of \in VisibleTo[chain[1].state.role] \/ OfContext(i)
  /\ \A i \in DOMAIN events : events[i].type = "tool_result" =>
       \/ TierOf[events[i].of] = "L0" /\ events[i].of \in CHAT_READONLY_TOOLS
       \/ acted = <<events[i].of>> /\ card.tool = events[i].of /\ card.status = "approved"
  /\ Len(acted) <= 1

\* A started run ends or waits for an approval, and a browser that watches it is not
\* left waiting for one that is over, also when its last event does not say so (an
\* expired card): the server ends the stream, the browser gives up.
StreamEnds ==
  row.status \in {"running", "completed", "failed"} ~> Stopped \/ row.status = "awaiting_approval"

\* Of a run one is told all, once and in order, and then that there is no more
\* (events.ts:64-88, the event stream of app.ts, sse.ts).
StreamDelivers == []EventsOnce /\ StreamEnds

\* What the run leaves on the disk agrees: its events with its row, its counters with
\* what its drives spent (runs.ts:87-119, graph.ts:485-568).
RowKeepsBooks == TrailMatchesRow /\ BudgetSurvives

-----------------------------------------------------------------------------
(* The inductive invariant *)

Places == {"off", "gone", "enter", "node", "exit", "await", "act"}

Live == drive.at \in {"enter", "node", "exit", "await", "act"}

States ==
  [role : DOMAIN VisibleTo, flag : {"none", "refused", "clarify", "denied"},
   tool : Tools \cup {"none"}, gate : {"none", "allow", "require_approval", "deny"},
   outcome : {"none", "rejected", "executed"}]

EventTypes ==
  {"audit", "node_enter", "node_exit", "token", "denied", "done", "tool_call", "tool_result",
   "approval_required", "approval_decided", "error"}

\* what an event is about: a status, a decision, a reason
Words ==
  {"none", "running", "completed", "approved", "rejected", "expired", "max_steps", "gate_denied",
   "node_error", "token_budget", "llm_timeout", "orphaned_by_restart"}

Events == [type : EventTypes, of : Words \cup Tools]

SealNames == {"__input__"} \cup {Nodes[i] : i \in 1 .. 6}

Rows ==
  [status : {"queued", "running", "awaiting_approval", "completed", "failed"},
   steps : Nat, tokens : Nat]

Drives ==
  [at : Places, node : Nat, done : Nat, steps : Nat, tokens : Nat, state : States \cup {<<>>}]

Cards ==
  [status : {"none", "pending", "approved", "rejected", "expired"},
   tool : Tools \cup {"none"}, lapsed : BOOLEAN, executed : BOOLEAN]

\* The type invariant of the run, its trail and its card.
TypeOK ==
  /\ row \in Rows /\ events \in Seq(Events) /\ chain \in Seq([node : SealNames, state : States])
  /\ drive \in Drives /\ card \in Cards
  /\ spent \in Nat /\ acted \in Seq(Tools)

\* what a drive counts is what it has sealed and spent, and the row has it whenever
\* no node is under way
Account ==
  /\ Live <=> row.status = "running"
  /\ row.status = "queued" =>
       events = <<>> /\ chain = <<>> /\ spent = 0 /\ row.steps = 0 /\ row.tokens = 0
  /\ Live =>
       /\ drive.state \in States /\ drive.node \in 1 .. 7 /\ drive.done = drive.node - 1
       /\ drive.at # "enter" => drive.node <= 6
       /\ drive.at = "enter" => drive.steps = drive.done
       /\ drive.at # "enter" => drive.steps = drive.node
       /\ drive.tokens = spent /\ spent <= MaxTokens
       /\ drive.at = "enter" => row.tokens = spent /\ row.steps = drive.done
  /\ row.status \in {"awaiting_approval", "completed"} =>
       row.tokens = spent /\ spent <= MaxTokens /\ row.steps = Len(chain) - 1

\* the state in hand, or the one to be restored
Hand == IF Live THEN drive.state ELSE Restored

Suspended == row.status = "awaiting_approval"

\* the state is the last one sealed until a node changes it, its role is that of the
\* launch, and what passed the gate can be seen by the role
Handed ==
  /\ Live => /\ Len(chain) = drive.node
             /\ drive.at # "exit" => drive.state = Restored
             /\ drive.node <= 3 => drive.state.gate = "none"
             /\ drive.node = 1 /\ drive.at # "exit" => drive.state.flag = "none"
             /\ drive.at = "await" => \/ drive.node = 2 /\ "get_alert" \in CHAT_READONLY_TOOLS
                                      \/ drive.node = 5 /\ drive.state.tool \in CHAT_READONLY_TOOLS
  /\ Suspended => Len(chain) = 5
  /\ Live \/ Suspended =>
       /\ Hand.role = chain[1].state.role
       /\ Hand.gate \in {"allow", "require_approval"} => Hand.tool \in VisibleTo[Hand.role]

\* the events a run starts with, up to its second node
Opening ==
  Live /\ drive.state.flag = "none" =>
    /\ drive.node = 1 /\ drive.at = "enter" => Len(events) = 1
    /\ drive.node = 1 /\ drive.at # "enter" => Len(events) = 2
    /\ drive.node = 2 /\ drive.at = "enter" => Len(events) = 3
    /\ drive.node = 2 /\ drive.at = "node" => Len(events) = 4

\* the approved action is performed once
ActedOnce ==
  /\ card.executed <=> acted # <<>>
  /\ card.executed => acted = <<card.tool>> /\ card.status = "approved"
  /\ drive.at = "act" =>
       /\ ~card.executed /\ card.status = "approved" /\ card.tool = drive.state.tool
       /\ drive.node = 5 /\ drive.state.gate = "require_approval"

NoDone == \A i \in DOMAIN events : events[i].type # "done"

OneDone ==
  \E d \in DOMAIN events :
    /\ events[d].type = "done"
    /\ \A i \in DOMAIN events : i # d => events[i].type # "done"
    /\ \A i \in DOMAIN events : i > d => events[i].type \notin {"tool_call", "approval_required"}

\* a drive whose answer is given
Answering == Settled \/ drive.node = 7 \/ (drive.node = 6 /\ drive.at = "exit")

Ends ==
  /\ Live => IF Answering THEN OneDone ELSE NoDone
  /\ Suspended => NoDone /\ Restored.flag = "none"
  /\ row.status = "completed" => OneDone

\* of the event e at i what AnswersAsAsked asks
Fine(e, i) ==
  /\ e.type \in {"tool_call", "approval_required"} =>
       e.of \in VisibleTo[chain[1].state.role] \/ (i = 5 /\ e = Event("tool_call", "get_alert"))
  /\ e.type = "tool_result" =>
       \/ TierOf[e.of] = "L0" /\ e.of \in CHAT_READONLY_TOOLS
       \/ acted = <<e.of>> /\ card.tool = e.of /\ card.status = "approved"
  /\ MaxSteps >= Len(Nodes) => e # Event("error", "max_steps")

AskedFor == \A i \in DOMAIN events : Fine(events[i], i)

ChatInv ==
  /\ TypeOK /\ Account /\ Handed /\ Opening /\ ActedOnce /\ Ends /\ AskedFor
  /\ TrailMatchesRow

=============================================================================
