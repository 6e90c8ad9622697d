---------------------------- MODULE TicketsProps ----------------------------
(***************************************************************************)
(* What the tickets are for, over everything that was called.              *)
(***************************************************************************)
EXTENDS Tickets

CallRecord == [tool : Asked, params : Params, at : Nat, by : SUBSET Token]

Approval ==
  [status : {"none", "pending", "approved", "executed"}, tool : Asked \cup {""},
   params : Params, token : SUBSET Token]

\* every variable keeps its type, and a token in any hand was minted
TypeOK ==
  /\ now \in Nat /\ launch \in Launches /\ external \in BOOLEAN /\ failed \in BOOLEAN
  /\ tokens \subseteq Token /\ IsFiniteSet(tokens)
  /\ held \subseteq tokens
  /\ approval \in [Approvals -> Approval] /\ \A c \in Approvals : approval[c].token \subseteq tokens
  /\ burnt \subseteq Nat /\ burns \subseteq Nat
  /\ gating \in [step : {"idle", "asked", "acting"}, card : SUBSET Approvals,
                  used : SUBSET Nat, sick : BOOLEAN]
  /\ call \subseteq CallRecord /\ \A c \in call : c.by \subseteq tokens
  /\ opened \in [Approvals -> Nat]

\* c was made under the token t while t was good for it
CoveredBy(c, t) ==
  /\ t \in tokens /\ t.signed /\ c.at < t.exp
  /\ c.tool \in t.tools
  /\ t.form = "task" => TierOf(c.tool) < 2 /\ t.run = launch.id
  /\ t.form = "approval" => c.params = t.params

\* Every call that went ahead stands under a token that was minted for it and had
\* not lapsed: a dangerous tool under an approval of these parameters, any other
\* under the ticket of its own run, the tool of its task for a hunt task.  An
\* approval opens one call, whatever becomes of its burn (verify-ticket.ts,
\* run-kinds.ts ticketSpecFor, graph.ts executeApproved).
CallsAreCovered ==
  /\ \A c \in call : \E t \in c.by : CoveredBy(c, t)
  /\ Narrows(launch) => \A c \in call : TierOf(c.tool) < 2 => c.tool = launch.task
  /\ \A a \in Approvals : opened[a] <= 1

\* A ticket is the run's own and holds what its kind may do, nothing dangerous; an
\* approval is asked for dangerous tools only.
TicketsAreNarrow ==
  /\ \A t \in tokens : t.form = "task" => t.run = launch.id /\ t.tools = TicketSpecFor(launch)
  /\ \A c \in Approvals : approval[c].status # "none" => approval[c].tool \in L2Tools

\* An approval under which a call was made cannot be found again: it is executed, its
\* action is under way, or the run is over.
OpenedOnce ==
  /\ \/ gating.step = "idle"
     \/ ~failed /\ held # {} /\ \E c \in Approvals : gating.card = {c} /\ approval[c].status = "approved"
  /\ \A a \in Approvals :
       \/ opened[a] = 0
       \/ /\ opened[a] = 1
          /\ approval[a].status = "executed" \/ failed \/ (gating.step = "acting" /\ a \in gating.card)

\* what makes CallsAreCovered inductive
TicketsInv == TypeOK /\ TicketsAreNarrow /\ OpenedOnce /\ CallsAreCovered

\* What the gate asks of a token beyond what the minting side's verify asks.
Bound(t, tool, r, k) ==
  /\ t.whole
  /\ k = Nowhere \/ t.case = k
  /\ IF t.form = "task" THEN t.run = r ELSE tool \in t.tools

\* The two implementations of the ticket contract never drift apart: at any moment,
\* for any call and any token in the world, the gate lets through exactly what
\* gateway/mint.py verify lets through and is bound to this run, case and tool.
GatesAgree ==
  \A t \in tokens, tool \in Asked, p \in Params, r \in RunIds, k \in Cases :
    LET ctx == [now |-> now, run |-> r, case |-> k, used |-> burnt, sick |-> FALSE]
        asToken  == IF t.form = "approval" THEN {t} ELSE {}
        asTicket == IF t.form = "task" THEN {t} ELSE {}
    IN VerifyTicket(asToken, asTicket, tool, p, ctx) = "allow"
         <=> PyVerify(t, tool, p, now, burnt) = "allow" /\ Bound(t, tool, r, k)

=============================================================================
