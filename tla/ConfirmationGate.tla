-------------------------- MODULE ConfirmationGate --------------------------
(***************************************************************************)
(* The gate of the harness replica in front of its tools                   *)
(* (confirmation_gate.py): a call that destroys waits for a confirmation   *)
(* bound to the tool and all its arguments, which is good once.            *)
(***************************************************************************)
EXTENDS Naturals

CONSTANTS
  Calls,       \* calls, a tool with its arguments each
  Destroying,  \* those that classify as dangerous
  MaxIssues    \* bound: confirmations of one call

ASSUME GateAssumption == Destroying \subseteq Calls

VARIABLES
  pending,   \* _pending: the tokens out; a token is computed from its call alone
  issued,    \* history: confirmations given, by call
  executed,  \* history: executions, by call
  denied    \* history: dangerous calls that were not executed

gateVars == <<pending, issued, executed, denied>>

NoToken == "none"

GateInit ==
  /\ pending = {} /\ issued = [c \in Calls |-> 0] /\ executed = [c \in Calls |-> 0] /\ denied = 0

\* the token of a call confirmed again is the one it had
IssueConfirmation(c) ==
  /\ issued[c] < MaxIssues
  /\ pending' = pending \cup {c} /\ issued' = [issued EXCEPT ![c] = @ + 1]
  /\ UNCHANGED <<executed, denied>>

ExecuteCall(c) == executed' = [executed EXCEPT ![c] = IF c \in Destroying THEN @ + 1 ELSE 1]

\* a fault: the token stays out
DispatchUnspent(c, token) ==
  /\ c \notin Destroying \/ (token = c /\ token \in pending)
  /\ ExecuteCall(c) /\ UNCHANGED <<pending, issued, denied>>

\* A token is spent when it is shown, also with a call it is not for.
DispatchCall(c, token) ==
  /\ \/ c \notin Destroying /\ ExecuteCall(c) /\ UNCHANGED <<pending, denied>>
     \/ c \in Destroying /\ token = c /\ token \in pending
        /\ pending' = pending \ {token} /\ ExecuteCall(c) /\ UNCHANGED denied
     \/ c \in Destroying /\ ~(token = c /\ token \in pending)
        /\ pending' = pending \ {token} /\ denied' = 1 /\ UNCHANGED executed
  /\ UNCHANGED issued

GateNext ==
  \/ \E c \in Calls : IssueConfirmation(c)
  \/ \E c \in Calls, token \in Calls \cup {NoToken} : DispatchCall(c, token)

\* However calls, confirmations and tokens shown for other calls are mixed: a call that
\* destroys was executed no more often than it was itself confirmed, and less often
\* while its token is out (confirmation_gate.py:58-81).
ConfirmedEachTime ==
  \A c \in Destroying : executed[c] + (IF c \in pending THEN 1 ELSE 0) <= issued[c]

=============================================================================
