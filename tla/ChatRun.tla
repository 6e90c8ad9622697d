-------------------------------- MODULE ChatRun --------------------------------
(***************************************************************************)
(* A question to the copilot: the chat graph (workers/chat/flow.ts) taken  *)
(* from node to node by the runner, its intent gate (gate.ts), its ticket, *)
(* and the approval of an action, which suspends the run.                  *)
(***************************************************************************)
EXTENDS RunTrail

CONSTANTS
  Tools,               \* tools the model may name
  TierOf,              \* the tier of a tool: "L0", "L1", "L2", or "none"
  VisibleTo,           \* the tools a role may see and ask for
  CHAT_READONLY_TOOLS, \* the tools of the chat ticket
  Costs                \* tokens a call of the model takes

ASSUME ChatRunAssumption ==
  /\ TierOf \in [Tools -> {"L0", "L1", "L2", "none"}]
  /\ \A role \in DOMAIN VisibleTo : VisibleTo[role] \subseteq Tools
  /\ CHAT_READONLY_TOOLS \subseteq Tools /\ "get_alert" \in CHAT_READONLY_TOOLS
  /\ \A tool \in CHAT_READONLY_TOOLS : TierOf[tool] = "L0"
  /\ Costs \subseteq Nat

VARIABLES
  card,   \* the approval card of the run: [status, tool, lapsed, executed]
  spent,  \* history: tokens charged to the run
  acted   \* history: the actions performed, in order

chat == <<card, spent, acted>>
vars == <<trail, chat>>

NoCard == [status |-> "none", tool |-> "none", lapsed |-> FALSE, executed |-> FALSE]

Init ==
  /\ TrailInit
  /\ card = NoCard /\ spent = 0 /\ acted = <<>>

Nodes == <<"input_guard", "load_context", "intent_classify", "intent_gate", "execute", "answer_llm">>

Handover(role) ==
  [role |-> role, flag |-> "none", tool |-> "none", gate |-> "none", outcome |-> "none"]

Token == Event("token", "none")
Done == Event("done", "none")

-----------------------------------------------------------------------------
(* Launch *)

\* launchChatRun: the run is started in the request that created it
Launch(role) == StartDrive(Handover(role)) /\ UNCHANGED <<crashes, console, chat>>

\* or the ticket cannot be minted: the request is answered 502
MintFails ==
  /\ row.status = "queued" /\ drive.at = "off" /\ drive' = Gone
  /\ UNCHANGED <<row, events, chain, crashes, console, chat>>

\* executeResumeJob, enqueued by the decision
Resume ==
  /\ card.status \in {"approved", "rejected"} /\ ResumeDrive
  /\ UNCHANGED <<crashes, console, chat>>

-----------------------------------------------------------------------------
(* The nodes *)

In(name) == drive.at = "node" /\ Nodes[drive.node] = name
Quiet == UNCHANGED <<crashes, console, chat>>

\* a fault: the node does not ask what the earlier ones decided
NeverSettled == FALSE

\* refused, clarified or denied: the nodes that follow return at once
Settled == drive.state.flag # "none"

\* an early end: what is said, and the flag that is left in the state
Settle(flag, said) == Returns(said \o <<Done>>, 0, [drive.state EXCEPT !.flag = flag])

Skip == Returns(<<>>, 0, drive.state)

\* a node hands over to the next
Pass(name) ==
  /\ In(name) /\ Settled /\ Skip /\ Quiet

\* the scan blocks, also when the guard does not answer
InputGuard ==
  /\ In("input_guard") /\ Quiet
  /\ \/ Skip
     \/ Settle("refused", <<Token, Event("denied", "none")>>)

\* gated: the ticket is valid for the tool, the call is announced, the answer awaited
Gated(tool) ==
  \/ /\ tool \in CHAT_READONLY_TOOLS
     /\ Emit(<<Event("tool_call", tool)>>) /\ drive' = [drive EXCEPT !.at = "await"]
     /\ UNCHANGED <<row, chain>>
  \/ Throws(<<>>, 0, "gate_denied")

\* no case, or a case without alerts; a case and its first alert; no such case
LoadContext ==
  /\ In("load_context") /\ ~Settled /\ Quiet
  /\ Skip \/ Gated("get_alert") \/ Throws(<<>>, 0, "node_error")

\* the awaited answer of the read-only side, or its error
Answered ==
  /\ drive.at = "await" /\ Quiet
  /\ LET tool == IF Nodes[drive.node] = "execute" THEN drive.state.tool ELSE "get_alert" IN
       Returns(<<Event("tool_result", tool)>>, 0, drive.state) \/ Throws(<<>>, 0, "node_error")

\* the model names a tool, or none it is sure of
IntentClassify ==
  /\ In("intent_classify") /\ ~Settled
  /\ \E cost \in Costs :
       /\ spent' = spent + cost
       /\ \/ Exceeds(cost) /\ Throws(<<>>, cost, "token_budget")
          \/ ~Exceeds(cost) /\ Throws(<<>>, cost, "llm_timeout")
          \/ /\ ~Exceeds(cost)
             /\ \/ Returns(<<Token, Done>>, cost, [drive.state EXCEPT !.flag = "clarify"])
                \/ \E tool \in Tools : Returns(<<>>, cost, [drive.state EXCEPT !.tool = tool])
  /\ UNCHANGED <<crashes, console, card, acted>>

\* a fault: what the role may see is left to the authorization
DecideIntentUnseen(role, tool, fga) ==
  IF TierOf[tool] = "none" \/ fga = "unavailable" THEN "deny"
  ELSE IF TierOf[tool] # "L0" THEN "require_approval"
  ELSE IF fga = "allowed" THEN "allow" ELSE "deny"

\* decideIntent: the visible tools, then the answer of OpenFGA, which may fail
DecideIntent(role, tool, fga) ==
  IF tool \notin VisibleTo[role] \/ TierOf[tool] = "none" \/ fga = "unavailable" THEN "deny"
  ELSE IF TierOf[tool] # "L0" THEN "require_approval"
  ELSE IF fga = "allowed" THEN "allow" ELSE "deny"

IntentGate ==
  /\ In("intent_gate") /\ ~Settled /\ Quiet
  /\ \E fga \in {"allowed", "fga_denied", "unavailable"} :
       LET gate == DecideIntent(drive.state.role, drive.state.tool, fga) IN
       \/ gate = "deny" /\ Returns(<<Token, Event("denied", "none"), Done>>, 0,
                                   [drive.state EXCEPT !.gate = gate, !.flag = "denied"])
       \/ gate # "deny" /\ Returns(<<>>, 0, [drive.state EXCEPT !.gate = gate])

\* allow: one of the read-only tools
ExecuteReadonly ==
  /\ In("execute") /\ ~Settled /\ drive.state.gate = "allow"
  /\ Gated(drive.state.tool) /\ Quiet

ForApproval == In("execute") /\ ~Settled /\ drive.state.gate = "require_approval"

\* openApprovalCard and interrupt: the run is suspended with its progress
Suspend ==
  /\ ForApproval /\ card.status = "none"
  /\ card' = [NoCard EXCEPT !.status = "pending", !.tool = drive.state.tool]
  /\ row' = Saved(drive, "awaiting_approval")
  /\ Emit(<<Token, Event("approval_required", drive.state.tool)>>)
  /\ drive' = Idle
  /\ UNCHANGED <<chain, crashes, console, spent, acted>>

\* on re-entry the rejected card says no
Refuse ==
  /\ ForApproval /\ card.status = "rejected" /\ Quiet
  /\ Returns(<<Token>>, 0, [drive.state EXCEPT !.outcome = "rejected"])

\* the approved one is announced, then the gate verifies its token: signature,
\* life, single use, tool and parameters
ApprovalGate ==
  /\ ForApproval /\ card.status = "approved" /\ ~card.executed /\ Quiet
  /\ LET announced == <<Token, Event("tool_call", drive.state.tool)>> IN
     \/ /\ ~card.lapsed /\ card.tool = drive.state.tool
        /\ Emit(announced) /\ drive' = [drive EXCEPT !.at = "act"] /\ UNCHANGED <<row, chain>>
     \/ Throws(announced, 0, "gate_denied")

\* the action runs, the token is burned, the card marked
Act ==
  /\ drive.at = "act"
  /\ acted' = Append(acted, drive.state.tool)
  /\ card' = [card EXCEPT !.executed = TRUE]
  /\ Returns(<<Event("tool_result", drive.state.tool)>>, 0, [drive.state EXCEPT !.outcome = "executed"])
  /\ UNCHANGED <<crashes, console, spent>>

AnswerLlm ==
  /\ In("answer_llm") /\ ~Settled
  /\ \E cost \in Costs :
       /\ spent' = spent + cost
       /\ \/ Exceeds(cost) /\ Throws(<<>>, cost, "token_budget")
          \/ ~Exceeds(cost) /\ Throws(<<>>, cost, "llm_timeout")
          \/ ~Exceeds(cost) /\ Returns(<<Token, Done>>, cost, drive.state)
  /\ UNCHANGED <<crashes, console, card, acted>>

Drive ==
  \/ EnterNode(Len(Nodes)) /\ Quiet
  \/ \E name \in {Nodes[i] : i \in 2..6} : Pass(name)
  \/ InputGuard \/ LoadContext \/ Answered \/ IntentClassify \/ IntentGate
  \/ ExecuteReadonly \/ Suspend \/ Refuse \/ ApprovalGate \/ Act \/ AnswerLlm
  \/ drive.at = "exit" /\ ExitNode(Nodes[drive.node]) /\ Quiet
  \/ Complete(Len(Nodes)) /\ Quiet

-----------------------------------------------------------------------------
(* The card *)

Pending == card.status = "pending" /\ row.status = "awaiting_approval"

\* decideApproval
Decide(to) ==
  /\ Pending /\ card' = [card EXCEPT !.status = to]
  /\ Emit(<<Event("approval_decided", to)>>)
  /\ UNCHANGED <<row, chain, drive, crashes, console, spent, acted>>

\* expireApprovalCard: the run fails in the same transaction
ExpireCard ==
  /\ Pending /\ card' = [card EXCEPT !.status = "expired"]
  /\ Emit(<<Event("approval_decided", "expired")>>)
  /\ row' = [row EXCEPT !.status = "failed"]
  /\ UNCHANGED <<chain, drive, crashes, console, spent, acted>>

\* the approval token lives for minutes
LapseToken ==
  /\ card.status = "approved" /\ ~card.lapsed /\ ~card.executed
  /\ card' = [card EXCEPT !.lapsed = TRUE]
  /\ UNCHANGED <<trail, spent, acted>>

Stream == (Push \/ Connect) /\ UNCHANGED chat

Next ==
  \/ \E role \in DOMAIN VisibleTo : Launch(role)
  \/ MintFails \/ Resume \/ Drive
  \/ \E to \in {"approved", "rejected"} : Decide(to)
  \/ ExpireCard \/ LapseToken
  \/ Stream
  \/ (Drop \/ Leave \/ Crash) /\ UNCHANGED chat

Spec == Init /\ [][Next]_vars

\* the calls of a drive are answered or time out; a push comes every interval, and
\* the timer of the browser connects again
FairSpec == Spec /\ WF_vars(Drive) /\ WF_vars(Stream)

=============================================================================
