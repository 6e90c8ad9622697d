----------------------------- MODULE HuntPromise -----------------------------
(***************************************************************************)
(* What the hunt of one hypothesis promises its analyst, without runs,     *)
(* relays or crashes: rounds are recorded in order, each once and no more  *)
(* than the template allows; a verdict follows a round whose evidence was  *)
(* sufficient; a case is filed once, after the verdict; a cancelled        *)
(* hypothesis stays cancelled, for the reason first given; a planner is    *)
(* called broken only after two rounds without a plan.                     *)
(***************************************************************************)
EXTENDS Naturals

CONSTANTS
  MaxRounds,  \* template.maxRounds
  RoundNos    \* the round numbers the hunt may write, from 1 on

VARIABLES
  verdict,  \* the hypothesis: [status, reason]
  record,   \* what each round was recorded as
  cases     \* cases filed for the hypothesis

pvars == <<verdict, record, cases>>

Recorded(k, kinds) == k \in RoundNos /\ record[k] \in kinds
LastRound(k) == k \in RoundNos /\ \A j \in RoundNos : record[j] # "none" <=> j <= k

Init ==
  /\ verdict = [status |-> "proposed", reason |-> "none"]
  /\ record = [k \in RoundNos |-> "none"]
  /\ cases = 0

Begin ==
  /\ verdict.status = "proposed"
  /\ verdict' = [verdict EXCEPT !.status = "hunting"]
  /\ UNCHANGED <<record, cases>>

\* a round that was under way when the hypothesis was cancelled is still recorded
Record(k, kind) ==
  /\ verdict.status \in {"hunting", "cancelled"}
  /\ k <= MaxRounds /\ record[k] = "none"
  /\ \A j \in RoundNos : j < k => record[j] \in {"blank", "insufficient"}
  /\ record' = [record EXCEPT ![k] = kind]
  /\ UNCHANGED <<verdict, cases>>

Conclude(status) ==
  /\ verdict.status = "hunting"
  /\ \E k \in RoundNos : LastRound(k) /\ record[k] = "sufficient"
  /\ verdict' = [verdict EXCEPT !.status = status]
  /\ UNCHANGED <<record, cases>>

File ==
  /\ verdict.status \in {"concluded", "refuted"} /\ cases = 0
  /\ cases' = 1
  /\ UNCHANGED <<verdict, record>>

Cancel(why) ==
  /\ verdict.status = "hunting"
  /\ why = "planner_broken" =>
       \E k \in RoundNos : LastRound(k) /\ Recorded(k, {"blank"}) /\ Recorded(k - 1, {"blank"})
  /\ why = "spin" => \E k \in RoundNos : LastRound(k) /\ record[k] = "insufficient"
  /\ why = "budget_rounds" => LastRound(MaxRounds)
  /\ verdict' = [status |-> "cancelled", reason |-> why]
  /\ UNCHANGED <<record, cases>>

Next ==
  \/ Begin \/ File
  \/ \E k \in RoundNos, kind \in {"blank", "insufficient", "sufficient"} : Record(k, kind)
  \/ \E status \in {"concluded", "refuted"} : Conclude(status)
  \/ \E why \in {"user_cancelled", "planner_broken", "spin", "budget", "time", "budget_rounds"} : Cancel(why)

Spec == Init /\ [][Next]_pvars

=============================================================================
