------------------------------- MODULE Pages --------------------------------
(***************************************************************************)
(* The pages of the web console, of which the shell mounts one at a time.  *)
(* They share no state: a behaviour is one of one page; the others stand   *)
(* still.                                                                  *)
(***************************************************************************)
EXTENDS HuntPage, CardPage, CasePage

VARIABLE part  \* the page the route names

vars == <<part, huntVars, cardVars, caseVars>>

Init ==
  /\ part \in {"hunting", "approvals", "cases"}
  /\ HuntPageInit /\ CardPageInit /\ CasePageInit

OnHunting(Step) == part = "hunting" /\ Step /\ UNCHANGED <<part, cardVars, caseVars>>

OnApprovals(Step) == part = "approvals" /\ Step /\ UNCHANGED <<part, huntVars, caseVars>>

OnCases(Step) == part = "cases" /\ Step /\ UNCHANGED <<part, huntVars, cardVars>>

Next ==
  \/ OnHunting(HuntPageNext)
  \/ OnApprovals(CardPageNext)
  \/ OnCases(CasePageNext)

\* At a page something goes on as long as an answer, a frame, a drawing or a tick of
\* the interval is due; which of them comes first is anybody's guess.  The hunt
\* itself and the people may stop at any time, and so may a run.
Fairness ==
  /\ WF_vars(OnHunting(HuntPageStep))
  /\ WF_vars(OnApprovals(CardPageStep))

Spec == Init /\ [][Next]_vars /\ Fairness

-----------------------------------------------------------------------------
(* What must hold *)

\* nothing is under way that could still change the hunting page
AtRest ==
  /\ \A s \in Slots : req[s] = Free
  /\ sel = None \/ Drained
  /\ open => Coming = {}

\* what is shown is the hunt that is open, and the stream is that of the newest
\* run any of its answers named
OnNewest == detail # NoDetail => detail.of = sel /\ (told # NoRun => sub = told)

\* The hunting page comes to rest, however its reads overlap and although each
\* frame may make it read and each answer may make it follow another stream; and
\* it rests on the hunt that is open and on the newest run it was told of, unless
\* an answer was lost or named no run.  A late answer for another hunt, or an older
\* one, does turn the page back: the replay of the stream it then follows makes it
\* read again (HuntingPage.tsx:212-238, 300-317).
PageSettles == part = "hunting" => <>[](AtRest /\ (blind \/ OnNewest))

\* With all cards in view a card decided anywhere is in the end shown as what it
\* is, also to the approver whose decision came too late, although an old answer
\* may put a decided card back to pending (ApprovalsPage.tsx:33-49, 66-70;
\* approvals.ts:11-15).
PollHeals ==
  part = "approvals" =>
    (<>[](filter = "all") => <>[](\A c \in Cards : cards[c] = card[c]))

\* An exchange holds frames of its own question, in order, and when its answer has
\* ended without an error it holds all of them, wherever the pieces were cut
\* (CasePage.tsx:95-124 writes to the last exchange, chat.ts:45-81).
AnswerBelongs ==
  \A i \in DOMAIN exchanges :
    LET ex == exchanges[i]
        over == \A st \in streams : st.question # i
        n == Len(ex.turn) IN
    /\ ex.turn = [k \in 1 .. n |-> [of |-> i, no |-> k]]
    /\ over /\ ~ex.error => n = Frames /\ ex.done

=============================================================================
