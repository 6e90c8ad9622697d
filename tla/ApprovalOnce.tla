----------------------------- MODULE ApprovalOnce -----------------------------
(***************************************************************************)
(* What the approval loop promises, without jobs, drivers or crashes: an   *)
(* L2 action is performed at most once per card, only on an approved card, *)
(* and only while the run that asked is not over; a decision is final; and *)
(* an expired card ends the run that waited for it.                        *)
(***************************************************************************)
EXTENDS Naturals

CONSTANTS Runs, Cards, NoRun

VARIABLES owner,      \* the run a card was opened for
          decision,   \* "none" before the card is opened
          performed,  \* how often the card's action was performed
          over        \* runs that have ended

ovars == <<owner, decision, performed, over>>

Init ==
  /\ owner = [c \in Cards |-> NoRun]
  /\ decision = [c \in Cards |-> "none"]
  /\ performed = [c \in Cards |-> 0]
  /\ over = {}

\* a run that is not over asks for a decision
Ask(c, r) ==
  /\ decision[c] = "none" /\ r \notin over
  /\ decision' = [decision EXCEPT ![c] = "pending"]
  /\ owner' = [owner EXCEPT ![c] = r]
  /\ UNCHANGED <<performed, over>>

\* a person decides, even when the run is over by then
Decide(c) ==
  /\ decision[c] = "pending"
  /\ decision' \in {[decision EXCEPT ![c] = d] : d \in {"approved", "rejected"}}
  /\ UNCHANGED <<owner, performed, over>>

\* time decides: the cards expire and the runs that asked are over
Expire(S) ==
  /\ \A c \in S : decision[c] = "pending"
  /\ decision' = [c \in Cards |-> IF c \in S THEN "expired" ELSE decision[c]]
  /\ over' = over \cup {owner[c] : c \in S}
  /\ UNCHANGED <<owner, performed>>

Perform(c) ==
  /\ decision[c] = "approved" /\ performed[c] = 0 /\ owner[c] \notin over
  /\ performed' = [performed EXCEPT ![c] = 1]
  /\ UNCHANGED <<owner, decision, over>>

\* runs end, completed or failed, for any other reason
End(R) ==
  /\ over' = over \cup R
  /\ UNCHANGED <<owner, decision, performed>>

Next ==
  \/ \E c \in Cards, r \in Runs : Ask(c, r)
  \/ \E c \in Cards : Decide(c) \/ Perform(c)
  \/ \E S \in SUBSET Cards : Expire(S)
  \/ \E R \in SUBSET Runs : End(R)

Spec == Init /\ [][Next]_ovars

=============================================================================
