------------------------------ MODULE CardPage ------------------------------
(***************************************************************************)
(* The approvals page of the web console (ApprovalsPage.tsx,               *)
(* approvals.ts): the cards are polled every two seconds and merged into   *)
(* what is shown; an approver decides a card and the page reads again,     *)
(* whatever the answer was.  Polls overlap and are not numbered, so an old *)
(* answer may come after a newer one.  The cards themselves are those of   *)
(* RunDispatcher, reduced to their status.                                 *)
(***************************************************************************)
EXTENDS Naturals, FiniteSets, FiniteSetsExt

CONSTANTS
  Cards,     \* approval cards
  Polls,     \* polls the page may have under way at once, numbers
  MaxMoves,  \* decisions and changes of the filter at this page
  MaxLost    \* polls that fail

NoCard == "no card"
Verdicts == {"approved", "rejected"}

VARIABLES
  card,      \* the status of each card at the agent
  cards,     \* the status the page shows, "absent" for a card it has not read
  filter,
  deciding,  \* the card whose buttons wait
  asking,      \* decisions under way: card to verdict, then to its answer
  poll,      \* the polls under way, by slot
  moves,
  lost

cardVars == <<card, cards, filter, deciding, asking, poll, moves, lost>>

NoCall == "none"
FreePoll == [under |-> NoCard, served |-> FALSE, answer |-> [c \in {} |-> "absent"]]

CardPageInit ==
  /\ card = [c \in Cards |-> "pending"]
  /\ cards = [c \in Cards |-> "absent"]
  /\ filter = "all" /\ deciding = NoCard
  /\ asking = [c \in Cards |-> NoCall]
  /\ poll = [s \in Polls |-> FreePoll]
  /\ moves = 0 /\ lost = 0

-----------------------------------------------------------------------------
(* The agent: somebody else decides, the card expires, the run goes on *)

Elsewhere(c) ==
  /\ \/ /\ card[c] = "pending"
        /\ \E to \in Verdicts \cup {"expired"} : card' = [card EXCEPT ![c] = to]
     \/ /\ card[c] = "approved"
        /\ card' = [card EXCEPT ![c] = "executed"]
  /\ UNCHANGED <<cards, filter, deciding, asking, poll, moves, lost>>

-----------------------------------------------------------------------------
(* load() and its interval *)

FreePolls == {s \in Polls : poll[s] = FreePoll}

Load(under) ==
  /\ FreePolls # {}
  /\ poll' = [poll EXCEPT ![Min(FreePolls)] = [FreePoll EXCEPT !.under = under]]

\* the interval fires whether or not the poll before it has been answered
Tick ==
  /\ Load(filter)
  /\ UNCHANGED <<card, cards, filter, deciding, asking, moves, lost>>

Listed(under) == {c \in Cards : under = "all" \/ card[c] = "pending"}

PollServed(s) ==
  /\ poll[s] # FreePoll /\ ~poll[s].served
  /\ poll' = [poll EXCEPT ![s].served = TRUE,
                          ![s].answer = [c \in Listed(poll[s].under) |-> card[c]]]
  /\ UNCHANGED <<card, cards, filter, deciding, asking, moves, lost>>

PollFails(s) ==
  /\ lost < MaxLost
  /\ poll[s] # FreePoll /\ ~poll[s].served
  /\ poll' = [poll EXCEPT ![s] = FreePoll]
  /\ lost' = lost + 1
  /\ UNCHANGED <<card, cards, filter, deciding, asking, moves>>

\* a fault: a card that is there already is skipped, as the audit page does
MergeSkipping(existing, incoming) ==
  [c \in Cards |-> IF existing[c] = "absent" /\ c \in DOMAIN incoming
                   THEN incoming[c] ELSE existing[c]]

\* what was read replaces what is shown; cards that were not read stay as they are
MergeApprovals(existing, incoming) ==
  [c \in Cards |-> IF c \in DOMAIN incoming THEN incoming[c] ELSE existing[c]]

PollAnswered(s) ==
  /\ poll[s].served
  /\ cards' = MergeApprovals(cards, poll[s].answer)
  /\ poll' = [poll EXCEPT ![s] = FreePoll]
  /\ UNCHANGED <<card, filter, deciding, asking, moves, lost>>

\* a new filter makes a new load, which runs at once; cards shown are not dropped
SetFilter(f) ==
  /\ moves < MaxMoves /\ filter # f
  /\ filter' = f /\ moves' = moves + 1
  /\ Load(f)
  /\ UNCHANGED <<card, cards, deciding, asking, lost>>

-----------------------------------------------------------------------------
(* decide() *)

\* the buttons stand on a card shown as pending, unless it is the one that waits
\* (a bound: no second decision of this page on a card before the first returns)
Press(c, verdict) ==
  /\ moves < MaxMoves
  /\ cards[c] = "pending" /\ deciding # c /\ asking[c] = NoCall
  /\ deciding' = c /\ moves' = moves + 1
  /\ asking' = [asking EXCEPT ![c] = verdict]
  /\ UNCHANGED <<card, cards, filter, poll, lost>>

\* the agent decides the card, or refuses one that is decided
Decided(c) ==
  /\ asking[c] \in Verdicts
  /\ card' = IF card[c] = "pending" THEN [card EXCEPT ![c] = asking[c]] ELSE card
  /\ asking' = [asking EXCEPT ![c] = "answered"]
  /\ UNCHANGED <<cards, filter, deciding, poll, moves, lost>>

\* in any case the buttons are free again and the page reads
Returned(c) ==
  /\ asking[c] = "answered"
  /\ asking' = [asking EXCEPT ![c] = NoCall]
  /\ deciding' = NoCard
  /\ Load(filter)
  /\ UNCHANGED <<card, cards, filter, moves, lost>>

CardPageStep ==
  \/ \E c \in Cards : Decided(c) \/ Returned(c)
  \/ \E s \in Polls : PollServed(s) \/ PollAnswered(s)
  \/ Tick

CardPageNext ==
  \/ CardPageStep
  \/ \E c \in Cards : Elsewhere(c)
  \/ \E c \in Cards, verdict \in Verdicts : Press(c, verdict)
  \/ \E f \in {"all", "pending"} : SetFilter(f)
  \/ \E s \in Polls : PollFails(s)

=============================================================================
