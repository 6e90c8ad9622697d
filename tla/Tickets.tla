------------------------------- MODULE Tickets -------------------------------
(***************************************************************************)
(* The tickets of one run: minted by the gateway (gateway/mint.py, or the  *)
(* external gateway behind jiaotu/*.ts), asked for by the run's kind       *)
(* (run-kinds.ts), and judged before every tool call by verify-ticket.ts.  *)
(*                                                                         *)
(* A task ticket opens the tools on it until it lapses.  An approval token *)
(* opens one tool with one set of parameters, once: what is burnt is told  *)
(* by a ledger in another service, asked before the gate and written after *)
(* the call without waiting.                                               *)
(*                                                                         *)
(* The signature is a flag: a token was sealed with the shared key or not. *)
(* A hash of parameters is the parameters themselves.                      *)
(***************************************************************************)
EXTENDS Naturals, FiniteSets

CONSTANTS
  RunIds, CaseIds, Params,
  Asked,         \* tools the workers ask for, whether or not they may
  Approvals,     \* approval cards the run may open
  TASK_TTL, APPROVAL_TTL,
  MaxNow,        \* bound on the clock
  MaxTokens      \* bound on tokens minted

ASSUME TicketsAssumption ==
  /\ TASK_TTL \in Nat \ {0} /\ APPROVAL_TTL \in Nat \ {0}
  /\ MaxNow \in Nat /\ MaxTokens \in Nat
  /\ Params # {}
  /\ "" \notin CaseIds /\ "" \notin Asked

Nowhere == ""  \* what mint writes for the case of a run that has none
NoTask == ""

-----------------------------------------------------------------------------
(* The registry *)

L0Tools ==
  {"kb_lookup", "search_cases_by_host", "get_alert", "siem_query", "related_alerts", "kb_verify",
   "file_change_query", "outbound_conn_query", "web_access_query", "proc_lineage_query",
   "playbook_lookup", "graph_query", "vt_lookup", "ip_reputation", "extract_knowledge"}
L2Tools == {"kb_write", "isolate_host", "block_ip", "deisolate_host", "unblock_ip"}

\* a tool that is not in the registry counts as a writing one
TierOf(tool) == IF tool \in L0Tools THEN 0 ELSE IF tool \in L2Tools THEN 2 ELSE 1

TRIAGE_TOOLS ==
  {"get_alert", "kb_lookup", "search_cases_by_host", "create_case", "merge_alert", "close_alert"}
INVESTIGATION_TOOLS ==
  {"get_alert", "siem_query", "related_alerts", "kb_verify", "add_timeline_entry", "add_task_log"}
ENRICHMENT_TOOLS == {"vt_lookup", "ip_reputation", "add_observable", "add_timeline_entry"}
KNOWLEDGE_TOOLS == {"get_case", "kb_propose"}
CHAT_READONLY_TOOLS == {"get_alert", "kb_lookup", "related_alerts", "siem_query"}

DefaultMenu == {"kb_lookup", "siem_query", "related_alerts"}
\* the menus of the templates, together
TemplateMenus ==
  {"playbook_lookup", "graph_query", "file_change_query", "outbound_conn_query",
   "web_access_query", "proc_lineage_query"}
HuntFlowTicketFace == DefaultMenu \cup TemplateMenus \cup {"hypothesis_register"}

RunKinds ==
  {"alert_flow", "knowledge_flow", "chat_flow", "case_flow", "close_flow", "hunt_flow", "hunt_task"}

RequireRunKind(kind) ==
  CASE kind = "alert_flow"     -> TRIAGE_TOOLS \cup INVESTIGATION_TOOLS \cup ENRICHMENT_TOOLS
    [] kind = "knowledge_flow" -> KNOWLEDGE_TOOLS
    [] kind = "chat_flow"      -> CHAT_READONLY_TOOLS
    [] kind = "case_flow"      -> INVESTIGATION_TOOLS \cup ENRICHMENT_TOOLS
    [] kind = "close_flow"     -> {"get_alert", "close_alert"}
    [] OTHER                   -> HuntFlowTicketFace

\* a hunt task with a task to do gets the one tool of the task
Narrows(run) == run.kind = "hunt_task" /\ run.task # NoTask

\* a fault: a task outside the menu falls back on the menu
TicketSpecForAnyTask(run) ==
  IF Narrows(run) /\ run.task \in HuntFlowTicketFace THEN {run.task} ELSE RequireRunKind(run.kind)

\* a task outside the parent's menu throws: no tools, and nothing is minted
TicketSpecFor(run) ==
  IF Narrows(run) THEN {run.task} \cap HuntFlowTicketFace ELSE RequireRunKind(run.kind)

-----------------------------------------------------------------------------
VARIABLES
  now,
  launch,    \* the run: id, kind, task, case
  external,  \* tickets come from the external gateway
  tokens,    \* tokens minted so far
  held,      \* the task ticket the run's graph was made with, in a set
  approval,  \* the run's approval cards
  burnt,     \* used_tokens, or the external gateway's ledger
  burns,     \* burns posted and not yet answered
  gating,    \* executeApproved under way: the card, what the ledger said
  call,      \* the last call that went ahead
  opened,    \* calls made under each approval
  failed     \* the run was killed

ticketVars ==
  <<now, launch, external, tokens, held, approval, burnt, burns, gating, call, opened, failed>>

Cases == CaseIds \cup {Nowhere}
Tools == Asked \cup L0Tools \cup L2Tools \cup HuntFlowTicketFace
           \cup UNION {RequireRunKind(k) : k \in RunKinds}
Launches == [id : RunIds, kind : RunKinds, task : Asked \cup {NoTask}, case : Cases]
Token ==
  [jti : Nat, form : {"task", "approval"}, signed : BOOLEAN, whole : BOOLEAN,
   run : RunIds, case : Cases, tools : SUBSET Tools, params : Params, exp : Nat]
AnyParams == CHOOSE p \in Params : TRUE
NoApproval == [status |-> "none", tool |-> "", params |-> AnyParams, token |-> {}]
Idle == [step |-> "idle", card |-> {}, used |-> {}, sick |-> FALSE]

\* A hunt task alone brings a task.  Triage, the confirmed close and the hunts are
\* launched without a case, a chat with or without one.
TicketsInit ==
  /\ now = 0
  /\ launch \in {l \in Launches :
                   /\ l.task # NoTask => l.kind = "hunt_task"
                   /\ l.kind \in {"knowledge_flow", "case_flow"} => l.case # Nowhere
                   /\ l.case # Nowhere => l.kind \in {"knowledge_flow", "case_flow", "chat_flow"}}
  /\ external \in BOOLEAN
  /\ tokens = {} /\ held = {}
  /\ approval = [c \in Approvals |-> NoApproval]
  /\ burnt = {} /\ burns = {}
  /\ gating = Idle
  /\ call = {}
  /\ opened = [c \in Approvals |-> 0]
  /\ failed = FALSE

-----------------------------------------------------------------------------
(* The gate *)

\* What a call is judged by: the moment, the run and case it is made for (Nowhere
\* is not compared), what is known to be burnt, and whether asking for it failed.
Context == [now : Nat, run : RunIds, case : Cases, used : SUBSET Nat, sick : BOOLEAN]

VerifyTaskTicket(t, tool, ctx) ==
  IF ~t.signed \/ ~t.whole \/ t.form # "task" THEN "signature_invalid"
  ELSE IF ctx.now >= t.exp THEN "token_expired"
  ELSE IF ctx.sick THEN "signature_invalid"
  ELSE IF t.jti \in ctx.used THEN "token_used"
  ELSE IF tool \notin t.tools THEN "scope_insufficient"
  ELSE IF ctx.case # Nowhere /\ t.case # ctx.case THEN "scope_insufficient"
  ELSE IF t.run # ctx.run THEN "scope_insufficient"
  ELSE "allow"

\* a fault: the parameters alone are compared
VerifyApprovalForAnyTool(t, tool, params, ctx) ==
  IF ~t.signed \/ ~t.whole \/ t.form # "approval" THEN "signature_invalid"
  ELSE IF ctx.now >= t.exp THEN "token_expired"
  ELSE IF ctx.sick THEN "signature_invalid"
  ELSE IF t.jti \in ctx.used THEN "token_used"
  ELSE IF params # t.params THEN "params_mismatch"
  ELSE IF ctx.case # Nowhere /\ t.case # ctx.case THEN "scope_insufficient"
  ELSE "allow"

VerifyApproval(t, tool, params, ctx) ==
  IF ~t.signed \/ ~t.whole \/ t.form # "approval" THEN "signature_invalid"
  ELSE IF ctx.now >= t.exp THEN "token_expired"
  ELSE IF ctx.sick THEN "signature_invalid"
  ELSE IF t.jti \in ctx.used THEN "token_used"
  ELSE IF tool \notin t.tools THEN "scope_insufficient"
  ELSE IF params # t.params THEN "params_mismatch"
  ELSE IF ctx.case # Nowhere /\ t.case # ctx.case THEN "scope_insufficient"
  ELSE "allow"

\* the token of a field that has one
The(field) == CHOOSE t \in field : TRUE

\* the order of the branches: a token for the call, a ticket for the run, nothing
VerifyTicket(approvalToken, ticket, tool, params, ctx) ==
  IF approvalToken # {} THEN VerifyApproval(The(approvalToken), tool, params, ctx)
  ELSE IF ticket # {} THEN VerifyTaskTicket(The(ticket), tool, ctx)
  ELSE IF TierOf(tool) = 0 THEN "allow"
  ELSE IF TierOf(tool) = 2 THEN "require_approval" ELSE "no_ticket"

\* the minting side's own verify, over the same fixtures: it knows no run, no case,
\* and of an approval only the parameters
PyVerify(t, tool, params, at, used) ==
  IF ~t.signed THEN "signature_invalid"
  ELSE IF at >= t.exp THEN "token_expired"
  ELSE IF t.jti \in used THEN "token_used"
  ELSE IF t.form = "approval" /\ params # t.params THEN "params_mismatch"
  ELSE IF t.form = "task" /\ tool \notin t.tools THEN "scope_insufficient"
  ELSE "allow"

-----------------------------------------------------------------------------
(* Minting *)

Jti == Cardinality(tokens) + 1

\* The gateway of this system seals with the shared key and writes every field.  What
\* the external one returns is only known to be a string.
Seals ==
  {s \in [signed : BOOLEAN, whole : BOOLEAN] :
     \/ s.signed /\ s.whole
     \/ external /\ (s.signed \/ s.whole)}

\* executeStartJob, rebuildResumeNodes, launchChatRun: a ticket of its own for every
\* execution of the run
MintTaskTicket ==
  /\ ~failed /\ gating = Idle
  /\ Jti <= MaxTokens
  /\ TicketSpecFor(launch) # {}
  /\ \E s \in Seals :
       LET t == [jti |-> Jti, form |-> "task", signed |-> s.signed, whole |-> s.whole,
                 run |-> launch.id, case |-> launch.case, tools |-> TicketSpecFor(launch),
                 params |-> AnyParams, exp |-> now + TASK_TTL]
       IN tokens' = tokens \cup {t} /\ held' = {t}
  /\ UNCHANGED <<now, launch, external, approval, burnt, burns, gating, call, opened, failed>>

\* ticketSpecFor throws: the run is failed without a ticket
MintRefused ==
  /\ ~failed /\ held = {}
  /\ TicketSpecFor(launch) = {}
  /\ failed' = TRUE
  /\ UNCHANGED <<now, launch, external, tokens, held, approval, burnt, burns, gating, call, opened>>

\* executeApproved finds no card for the call and opens one
OpenCard(c, tool, params) ==
  /\ ~failed /\ held # {} /\ gating = Idle
  /\ approval[c].status = "none"
  /\ \A d \in Approvals : approval[d].status # "none" => <<approval[d].tool, approval[d].params>> # <<tool, params>>
  /\ approval' = [approval EXCEPT ![c] = [status |-> "pending", tool |-> tool, params |-> params, token |-> {}]]
  /\ UNCHANGED <<now, launch, external, tokens, held, burnt, burns, gating, call, opened, failed>>

\* approve: minted here, or relayed from the external gateway's answer
Approve(c) ==
  /\ approval[c].status = "pending"
  /\ Jti <= MaxTokens
  /\ \E s \in Seals :
       LET t == [jti |-> Jti, form |-> "approval", signed |-> s.signed, whole |-> s.whole,
                 run |-> launch.id, case |-> launch.case, tools |-> {approval[c].tool},
                 params |-> approval[c].params, exp |-> now + APPROVAL_TTL]
       IN /\ tokens' = tokens \cup {t}
          /\ approval' = [approval EXCEPT ![c] = [@ EXCEPT !.status = "approved", !.token = {t}]]
  /\ UNCHANGED <<now, launch, external, held, burnt, burns, gating, call, opened, failed>>

-----------------------------------------------------------------------------
(* Calls *)

\* chat and knowledge bind their calls to the case of the run
CallCase == IF launch.kind \in {"chat_flow", "knowledge_flow"} THEN launch.case ELSE Nowhere

At(moment, used, sick) ==
  [now |-> moment, run |-> launch.id, case |-> CallCase, used |-> used, sick |-> sick]

\* makeGatedCall with the run's ticket: let through, or the node throws and the run
\* is killed.  No ledger is asked for a ticket that many calls may use.
WorkerCalls(tool, params) ==
  /\ ~failed /\ held # {} /\ gating = Idle
  /\ IF VerifyTicket({}, held, tool, params, At(now, {}, FALSE)) = "allow"
     THEN /\ call' = {[tool |-> tool, params |-> params, at |-> now, by |-> held]}
          /\ UNCHANGED failed
     ELSE failed' = TRUE /\ UNCHANGED call
  /\ UNCHANGED <<now, launch, external, tokens, held, approval, burnt, burns, gating, opened>>

\* jtiFromWire: the identity is read off the token before anything is verified; from
\* what is not a token nothing can be read, and nothing is asked
Readable(t) == t.whole

\* resolveUsed: the ledger is asked whether the token is burnt, and may not answer
AskLedger(c) ==
  /\ ~failed /\ held # {} /\ gating = Idle
  /\ approval[c].status = "approved"
  /\ LET t == The(approval[c].token)
     IN \E sick \in BOOLEAN :
          /\ sick => Readable(t)
          /\ gating' = [step |-> "asked", card |-> {c}, sick |-> sick,
                        used |-> IF sick \/ ~Readable(t) THEN {} ELSE burnt \cap {t.jti}]
  /\ UNCHANGED <<now, launch, external, tokens, held, approval, burnt, burns, call, opened, failed>>

\* the gate judges the card's call by what the ledger said before
ApprovedCall(c) ==
  /\ gating.step = "asked" /\ gating.card = {c}
  /\ LET a == approval[c]
     IN IF VerifyTicket(a.token, {}, a.tool, a.params, At(now, gating.used, gating.sick)) = "allow"
        THEN /\ call' = {[tool |-> a.tool, params |-> a.params, at |-> now, by |-> a.token]}
             /\ opened' = [opened EXCEPT ![c] = @ + 1]
             /\ gating' = [gating EXCEPT !.step = "acting"]
             /\ UNCHANGED failed
        ELSE failed' = TRUE /\ gating' = Idle /\ UNCHANGED <<call, opened>>
  /\ UNCHANGED <<now, launch, external, tokens, held, approval, burnt, burns>>

\* a fault: the card can be decided on again
ActionReturnedUnmarked(c) ==
  /\ gating.step = "acting" /\ gating.card = {c}
  /\ burns' = burns \cup {t.jti : t \in approval[c].token}
  /\ gating' = Idle
  /\ UNCHANGED <<now, launch, external, tokens, held, approval, burnt, call, opened, failed>>

\* the burn is posted, the card is executed and never found again
ActionReturned(c) ==
  /\ gating.step = "acting" /\ gating.card = {c}
  /\ burns' = burns \cup {t.jti : t \in approval[c].token}
  /\ approval' = [approval EXCEPT ![c].status = "executed"]
  /\ gating' = Idle
  /\ UNCHANGED <<now, launch, external, tokens, held, burnt, call, opened, failed>>

\* the action threw: the token is not burnt, and the run is killed
ActionThrew(c) ==
  /\ gating.step = "acting" /\ gating.card = {c}
  /\ failed' = TRUE /\ gating' = Idle
  /\ UNCHANGED <<now, launch, external, tokens, held, approval, burnt, burns, call, opened>>

BurnLands(j) ==
  /\ j \in burns
  /\ burns' = burns \ {j} /\ burnt' = burnt \cup {j}
  /\ UNCHANGED <<now, launch, external, tokens, held, approval, gating, call, opened, failed>>

\* refused or timed out: a line in the log
BurnLost(j) ==
  /\ j \in burns
  /\ burns' = burns \ {j}
  /\ UNCHANGED <<now, launch, external, tokens, held, approval, burnt, gating, call, opened, failed>>

\* the approver was handed the token as well, and may use it elsewhere
UsedElsewhere(c) ==
  /\ approval[c].status = "approved"
  /\ burnt' = burnt \cup {t.jti : t \in approval[c].token}
  /\ UNCHANGED <<now, launch, external, tokens, held, approval, burns, gating, call, opened, failed>>

Clock ==
  /\ now < MaxNow
  /\ now' = now + 1
  /\ UNCHANGED <<launch, external, tokens, held, approval, burnt, burns, gating, call, opened, failed>>

TicketsNext ==
  \/ MintTaskTicket \/ MintRefused \/ Clock
  \/ \E tool \in Asked, p \in Params : WorkerCalls(tool, p)
  \/ \E c \in Approvals :
       \/ \E tool \in Asked \cap L2Tools, p \in Params : OpenCard(c, tool, p)
       \/ Approve(c) \/ AskLedger(c) \/ ApprovedCall(c) \/ ActionReturned(c) \/ ActionThrew(c)
       \/ UsedElsewhere(c)
  \/ \E j \in burns : BurnLands(j) \/ BurnLost(j)

TicketsSpec == TicketsInit /\ [][TicketsNext]_ticketVars

=============================================================================
