------------------------------ MODULE CasePage ------------------------------
(***************************************************************************)
(* The case page of the web console (CasePage.tsx, chat.ts): a case is     *)
(* chosen and read, and questions are asked about it.  The answer to a     *)
(* question is a stream of frames, read in pieces that end anywhere and    *)
(* written into whichever exchange is the last one.  The frames themselves *)
(* are those of ChatRun, reduced to the question they answer.              *)
(***************************************************************************)
EXTENDS Naturals, Sequences

CONSTANTS
  CaseList,     \* cases to choose from
  Frames,    \* frames of an answer, the last one is "done"
  MaxAsks,   \* questions asked
  MaxChoices \* cases chosen

ASSUME CasePageAssumption == Frames \in Nat \ {0}

NoCase == "no case"

VARIABLES
  chosen,     \* selected
  caseShown,  \* the case whose detail and rows are shown
  loads,      \* the cases whose reads are under way
  exchanges,  \* question, frames of its turn, whether it is over
  sending,    \* the input is locked
  streams,    \* the answers under way: question, half frames read, frames given
  choices

caseVars == <<chosen, caseShown, loads, exchanges, sending, streams, choices>>

CasePageInit ==
  /\ chosen = NoCase /\ caseShown = NoCase /\ loads = {}
  /\ exchanges = << >> /\ sending = FALSE /\ streams = {}
  /\ choices = 0

-----------------------------------------------------------------------------
(* load() *)

\* a bound: a case is read once at a time
Chooses(k) ==
  /\ choices < MaxChoices /\ k \notin loads
  /\ choices' = choices + 1
  /\ chosen' = k /\ loads' = loads \cup {k}
  /\ UNCHANGED <<caseShown, exchanges, sending, streams>>

\* detail and cards come together or not at all; the answer is shown although
\* another case may have been chosen since
CaseRead(k) ==
  /\ k \in loads
  /\ loads' = loads \ {k}
  /\ caseShown' \in {k, caseShown}
  /\ UNCHANGED <<chosen, exchanges, sending, streams, choices>>

-----------------------------------------------------------------------------
(* send() and streamChat() *)

\* a fault: the input is not locked
MayAskAlways == chosen # NoCase

\* there is a case, and the input and its button are free
MayAsk == chosen # NoCase /\ ~sending

\* the question opens an exchange, and the answers to all questions go to the last one
Send ==
  /\ MayAsk /\ Len(exchanges) < MaxAsks
  /\ exchanges' = Append(exchanges, [turn |-> << >>, done |-> FALSE, error |-> FALSE])
  /\ sending' = TRUE
  /\ streams' = streams \cup {[question |-> Len(exchanges) + 1, halves |-> 0, given |-> 0]}
  /\ UNCHANGED <<chosen, caseShown, loads, choices>>

\* the frames of stream st from the one after those given up to frame n
Upto(st, n) == [i \in 1 .. n - st.given |-> [of |-> st.question, no |-> st.given + i]]

\* a frame adds to the turn, the last one closes it
ApplyChatFrames(ex, st, n) ==
  [ex EXCEPT !.turn = @ \o Upto(st, n), !.done = @ \/ n = Frames]

ToLast(st, n) == [exchanges EXCEPT ![Len(exchanges)] = ApplyChatFrames(@, st, n)]

\* a piece ends after any half frame; whole frames are handed on, half ones wait
PieceRead(st) ==
  \E h \in st.halves + 1 .. 2 * Frames :
    /\ exchanges' = ToLast(st, h \div 2)
    /\ streams' = (streams \ {st}) \cup {[st EXCEPT !.halves = h, !.given = h \div 2]}
    /\ UNCHANGED <<chosen, caseShown, loads, sending, choices>>

\* a fault: what waits in the buffer is dropped at the end
AtEndDropped(st) == st.given

\* what waits in the buffer at the end is handed on, closed by a blank line
AtEnd(st) == st.given + (st.halves % 2)

\* the answer ends: the last frame may have come without its blank line
AnswerEnds(st) ==
  /\ st.halves >= 2 * Frames - 1
  /\ exchanges' = ToLast(st, AtEnd(st))
  /\ streams' = streams \ {st} /\ sending' = FALSE
  /\ UNCHANGED <<chosen, caseShown, loads, choices>>

\* the request is refused or the connection breaks: the exchange carries the error
AnswerBreaks(st) ==
  /\ exchanges' = [exchanges EXCEPT ![Len(exchanges)].error = TRUE]
  /\ streams' = streams \ {st} /\ sending' = FALSE
  /\ UNCHANGED <<chosen, caseShown, loads, choices>>

CasePageNext ==
  \/ \E k \in CaseList : Chooses(k) \/ CaseRead(k)
  \/ Send
  \/ \E st \in streams : PieceRead(st) \/ AnswerEnds(st) \/ AnswerBreaks(st)

=============================================================================
