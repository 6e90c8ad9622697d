----------------------------- MODULE PagesProofs -----------------------------
(***************************************************************************)
(* What TLAPS proves of the pages of the console, for any cases, any       *)
(* number of frames to an answer and any number of questions: what the     *)
(* case page shows under a question is the answer to it.                   *)
(***************************************************************************)
EXTENDS Pages, SequenceTheorems, TLAPS

\* the first n frames of the answer to question q
FirstFrames(q, n) == [k \in 1 .. n |-> [of |-> q, no |-> k]]

FrameOf == [of : Nat, no : Nat]
Exchange == [turn : Seq(FrameOf), done : BOOLEAN, error : BOOLEAN]
Stream == [question : Nat, halves : 0 .. 2 * Frames, given : 0 .. Frames]

\* The input is locked while the one answer is under way, and it is the answer
\* to the last question: so the last exchange is the one it belongs to.
OneStream ==
  /\ streams \subseteq Stream
  /\ \A st, other \in streams : st = other
  /\ streams # {} => sending
  /\ \A st \in streams :
       /\ exchanges # << >> /\ st.question = Len(exchanges)
       /\ st.given = st.halves \div 2
       /\ Len(exchanges[st.question].turn) = st.given

\* an exchange holds the first frames of its answer, and all of them once that has
\* ended well
Written ==
  /\ exchanges \in Seq(Exchange)
  /\ \A i \in DOMAIN exchanges :
       /\ \E n \in 0 .. Frames : exchanges[i].turn = FirstFrames(i, n)
       /\ Len(exchanges[i].turn) = Frames => exchanges[i].done
       /\ exchanges[i].error
          \/ Len(exchanges[i].turn) = Frames \/ \E st \in streams : st.question = i

CaseInv == OneStream /\ Written

-----------------------------------------------------------------------------
(* Half frames and frames *)

LEMMA Halves ==
  ASSUME NEW h \in 0 .. 2 * Frames
  PROVE  /\ h \div 2 \in 0 .. Frames
         /\ h >= 2 * Frames - 1 => (h \div 2) + (h % 2) = Frames
BY CasePageAssumption

LEMMA HalvesGrow ==
  ASSUME NEW g \in Nat, NEW h \in Nat, g <= h
  PROVE  g \div 2 <= h \div 2
OBVIOUS

LEMMA FirstFramesAre ==
  ASSUME NEW q \in Nat, NEW n \in Nat
  PROVE  FirstFrames(q, n) \in Seq(FrameOf) /\ Len(FirstFrames(q, n)) = n
<1>1. FirstFrames(q, n) \in [1 .. n -> FrameOf] BY DEF FirstFrames, FrameOf
<1>2. FirstFrames(q, n) \in Seq(FrameOf) BY <1>1, SeqDef
<1>3. DOMAIN FirstFrames(q, n) = 1 .. n BY DEF FirstFrames
<1>4. QED BY <1>2, <1>3, LenProperties

LEMMA FramesGoOn ==
  ASSUME NEW st \in Stream, NEW n \in 0 .. Frames, st.given <= n
  PROVE  FirstFrames(st.question, st.given) \o Upto(st, n) = FirstFrames(st.question, n)
<1> DEFINE q == st.question
           s == FirstFrames(q, st.given)
           u == Upto(st, n)
<1>1. q \in Nat /\ st.given \in Nat /\ n \in Nat /\ n - st.given \in Nat
  BY CasePageAssumption DEF Stream
<1>2. s \in Seq(FrameOf) /\ Len(s) = st.given BY <1>1, FirstFramesAre
<1>3. u \in Seq(FrameOf) /\ Len(u) = n - st.given
  <2>1. u \in [1 .. n - st.given -> FrameOf] BY <1>1 DEF Upto, FrameOf
  <2>2. u \in Seq(FrameOf) BY <1>1, <2>1, SeqDef
  <2>3. DOMAIN u = 1 .. n - st.given BY DEF Upto
  <2>4. QED BY <1>1, <2>2, <2>3, LenProperties
<1>4. \A k \in 1 .. n : (s \o u)[k] = FirstFrames(q, n)[k]
  <2>1. ASSUME NEW k \in 1 .. n, k <= st.given PROVE (s \o u)[k] = FirstFrames(q, n)[k]
    <3>1. (s \o u)[k] = s[k] BY <1>1, <1>2, <1>3, <2>1, ConcatProperties
    <3>2. QED BY <1>1, <2>1, <3>1 DEF FirstFrames
  <2>2. ASSUME NEW k \in 1 .. n, ~(k <= st.given) PROVE (s \o u)[k] = FirstFrames(q, n)[k]
    <3>1. (s \o u)[k] = u[k - st.given] BY <1>1, <1>2, <1>3, <2>2, ConcatProperties
    <3>2. k - st.given \in 1 .. n - st.given /\ st.given + (k - st.given) = k BY <1>1, <2>2
    <3>3. u[k - st.given] = [of |-> q, no |-> k] BY <3>2 DEF Upto
    <3>4. QED BY <3>1, <3>3 DEF FirstFrames
  <2>3. QED BY <2>1, <2>2
<1>5. s \o u \in Seq(FrameOf) /\ Len(s \o u) = n
  <2>1. s \o u \in Seq(FrameOf) /\ Len(s \o u) = Len(s) + Len(u) BY <1>2, <1>3, ConcatProperties
  <2>2. QED BY <1>1, <1>2, <1>3, <2>1
<1>6. FirstFrames(q, n) \in Seq(FrameOf) /\ Len(FirstFrames(q, n)) = n BY <1>1, FirstFramesAre
<1>7. QED BY <1>4, <1>5, <1>6, SeqEqual

-----------------------------------------------------------------------------
(* The steps of the case page *)

LEMMA CaseInitial == ASSUME CasePageInit PROVE CaseInv
BY DEF CasePageInit, CaseInv, OneStream, Written

\* a stream writes up to frame n into the exchange of its own question
LEMMA WritesToItsOwn ==
  ASSUME CaseInv, NEW st \in streams, NEW n \in 0 .. Frames, st.given <= n, exchanges' = ToLast(st, n)
  PROVE  LET q == st.question IN
         /\ exchanges' \in Seq(Exchange) /\ Len(exchanges') = Len(exchanges) /\ q = Len(exchanges) /\ q \in DOMAIN exchanges
         /\ exchanges'[q].turn = FirstFrames(q, n) /\ Len(exchanges'[q].turn) = n
         /\ n = Frames => exchanges'[q].done
         /\ \A i \in DOMAIN exchanges \ {q} : exchanges'[i] = exchanges[i]
<1> DEFINE q == st.question
<1>1. /\ st \in Stream /\ q = Len(exchanges) /\ exchanges \in Seq(Exchange) /\ exchanges # << >>
      /\ Len(exchanges[q].turn) = st.given
  BY DEF CaseInv, OneStream, Written
<1>2. q \in DOMAIN exchanges /\ exchanges[q] \in Exchange /\ q \in Nat
  BY <1>1, LenProperties, EmptySeq, ElementOfSeq
<1>3. exchanges[q].turn = FirstFrames(q, st.given)
  <2>1. PICK m \in 0 .. Frames : exchanges[q].turn = FirstFrames(q, m) BY <1>2 DEF CaseInv, Written
  <2>2. m \in Nat BY CasePageAssumption
  <2>3. m = st.given BY <1>1, <1>2, <2>1, <2>2, FirstFramesAre
  <2>4. QED BY <2>1, <2>3
<1>4. n \in Nat BY CasePageAssumption
<1>5. ApplyChatFrames(exchanges[q], st, n)
        = [exchanges[q] EXCEPT !.turn = FirstFrames(q, n), !.done = exchanges[q].done \/ n = Frames]
  <2>1. exchanges[q].turn \o Upto(st, n) = FirstFrames(q, n) BY <1>1, <1>3, FramesGoOn
  <2>2. QED BY <1>2, <2>1 DEF ApplyChatFrames, Exchange
<1>6. FirstFrames(q, n) \in Seq(FrameOf) /\ Len(FirstFrames(q, n)) = n BY <1>2, <1>4, FirstFramesAre
<1> DEFINE new == ApplyChatFrames(exchanges[q], st, n)
<1>7. /\ new \in Exchange /\ new.turn = FirstFrames(q, n)
      /\ n = Frames => new.done
  BY <1>2, <1>5, <1>6 DEF Exchange
<1> HIDE DEF new
<1>8. exchanges' = [exchanges EXCEPT ![q] = new]
  <2>1. exchanges' = [exchanges EXCEPT ![q] = ApplyChatFrames(@, st, n)] BY <1>1 DEF ToLast
  <2>2. QED BY <1>2, <2>1 DEF new
<1>9. exchanges' \in Seq(Exchange) /\ Len(exchanges') = Len(exchanges)
  <2>1. q \in 1 .. Len(exchanges) BY <1>1, <1>2, LenProperties
  <2>2. QED BY <1>1, <1>7, <1>8, <2>1, ExceptSeq
<1>10. exchanges'[q] = new /\ \A i \in DOMAIN exchanges \ {q} : exchanges'[i] = exchanges[i]
  BY <1>2, <1>8
<1>11. QED BY <1>1, <1>2, <1>6, <1>7, <1>9, <1>10

LEMMA CaseSends == ASSUME CaseInv, Send PROVE CaseInv'
<1> DEFINE new == [turn |-> << >>, done |-> FALSE, error |-> FALSE]
           st == [question |-> Len(exchanges) + 1, halves |-> 0, given |-> 0]
<1>1. /\ streams = {} /\ streams' = {st} /\ sending' /\ exchanges' = Append(exchanges, new)
      /\ exchanges \in Seq(Exchange)
  BY DEF CaseInv, OneStream, Written, Send, MayAsk
<1>2. Len(exchanges) \in Nat BY <1>1, LenProperties
<1>3. new \in Exchange /\ new.turn = << >> /\ Len(new.turn) = 0 BY EmptySeq DEF Exchange
<1>4. st \in Stream /\ st.question = Len(exchanges) + 1 /\ st.halves = 0 /\ st.given = 0
  BY <1>2, CasePageAssumption DEF Stream
<1>5. /\ exchanges' \in Seq(Exchange) /\ Len(exchanges') = Len(exchanges) + 1
      /\ exchanges'[Len(exchanges) + 1] = new
      /\ \A i \in 1 .. Len(exchanges) : exchanges'[i] = exchanges[i]
  BY <1>1, <1>3, AppendProperties
<1> HIDE DEF new, st
<1>6. OneStream'
  <2>1. exchanges' # << >> BY <1>2, <1>5, EmptySeq
  <2>2. 0 \div 2 = 0 OBVIOUS
  <2>3. QED BY <1>1, <1>2, <1>3, <1>4, <1>5, <2>1, <2>2 DEF OneStream
<1>7. ASSUME NEW i \in DOMAIN exchanges'
      PROVE  /\ \E n \in 0 .. Frames : exchanges'[i].turn = FirstFrames(i, n)
             /\ Len(exchanges'[i].turn) = Frames => exchanges'[i].done
             /\ exchanges'[i].error
                \/ Len(exchanges'[i].turn) = Frames \/ \E s \in streams' : s.question = i
  <2>1. i \in 1 .. Len(exchanges) + 1 BY <1>2, <1>5, LenProperties
  <2>2. CASE i = Len(exchanges) + 1
    <3>1. FirstFrames(i, 0) = << >> BY DEF FirstFrames
    <3>2. 0 \in 0 .. Frames /\ 0 # Frames BY CasePageAssumption
    <3>3. QED BY <1>1, <1>3, <1>4, <1>5, <2>2, <3>1, <3>2
  <2>3. CASE i # Len(exchanges) + 1
    <3>1. i \in 1 .. Len(exchanges) /\ i \in DOMAIN exchanges BY <1>1, <1>2, <2>1, <2>3, LenProperties
    <3>2. exchanges'[i] = exchanges[i] BY <1>5, <3>1
    <3>3. QED BY <1>1, <3>1, <3>2 DEF CaseInv, Written
  <2>4. QED BY <2>2, <2>3
<1>8. QED BY <1>5, <1>6, <1>7 DEF CaseInv, Written

\* the last exchange takes what came, and nothing else is touched
LEMMA CaseWritten ==
  ASSUME CaseInv, NEW st \in streams, NEW n \in 0 .. Frames, st.given <= n, exchanges' = ToLast(st, n),
         n = Frames \/ \E s \in streams' : s.question = st.question
  PROVE  Written'
<1> DEFINE q == st.question
<1>1. /\ exchanges' \in Seq(Exchange) /\ Len(exchanges') = Len(exchanges) /\ q = Len(exchanges) /\ q \in DOMAIN exchanges
      /\ exchanges'[q].turn = FirstFrames(q, n) /\ Len(exchanges'[q].turn) = n
      /\ n = Frames => exchanges'[q].done
      /\ \A i \in DOMAIN exchanges \ {q} : exchanges'[i] = exchanges[i]
  BY WritesToItsOwn
<1>2. DOMAIN exchanges' = DOMAIN exchanges BY <1>1, LenProperties DEF CaseInv, Written
<1>3. ASSUME NEW i \in DOMAIN exchanges, i # q
      PROVE  exchanges[i].error \/ Len(exchanges[i].turn) = Frames
  <2>1. ~ \E s \in streams : s.question = i BY <1>1, <1>3 DEF CaseInv, OneStream
  <2>2. QED BY <2>1 DEF CaseInv, Written
<1>4. QED BY <1>1, <1>2, <1>3 DEF CaseInv, Written

LEMMA CaseReads == ASSUME CaseInv, NEW st \in streams, PieceRead(st) PROVE CaseInv'
<1>1. PICK h \in st.halves + 1 .. 2 * Frames :
        /\ exchanges' = ToLast(st, h \div 2)
        /\ streams' = (streams \ {st}) \cup {[st EXCEPT !.halves = h, !.given = h \div 2]}
        /\ sending' = sending
  BY DEF PieceRead
<1> DEFINE new == [st EXCEPT !.halves = h, !.given = h \div 2]
<1>2. st \in Stream /\ st.given = st.halves \div 2 /\ st.question = Len(exchanges) /\ sending
  BY DEF CaseInv, OneStream
<1>3. h \in 0 .. 2 * Frames /\ h \in Nat /\ st.halves \in Nat /\ st.halves <= h
  BY <1>2, CasePageAssumption DEF Stream
<1>4. h \div 2 \in 0 .. Frames /\ st.given <= h \div 2 BY <1>2, <1>3, Halves, HalvesGrow
<1>5. new \in Stream /\ new.question = st.question /\ new.halves = h /\ new.given = h \div 2
  BY <1>2, <1>3, <1>4 DEF Stream
<1>6. streams' = {new} BY <1>1 DEF CaseInv, OneStream
<1> HIDE DEF new
<1>7. Written' BY <1>1, <1>4, <1>5, <1>6, CaseWritten
<1>8. /\ exchanges' \in Seq(Exchange) /\ Len(exchanges') = Len(exchanges)
      /\ st.question \in DOMAIN exchanges /\ Len(exchanges'[st.question].turn) = h \div 2
  BY <1>1, <1>4, WritesToItsOwn
<1>9. exchanges' # << >> BY <1>8, LenProperties, EmptySeq DEF CaseInv, Written
<1>10. OneStream' BY <1>1, <1>2, <1>5, <1>6, <1>8, <1>9 DEF OneStream
<1>11. QED BY <1>7, <1>10 DEF CaseInv

LEMMA CaseAnswered == ASSUME CaseInv, NEW st \in streams, AnswerEnds(st) PROVE CaseInv'
<1>1. st \in Stream /\ st.given = st.halves \div 2 /\ streams' = {}
  BY DEF CaseInv, OneStream, AnswerEnds
<1>2. AtEnd(st) = Frames
  <2>1. st.halves \in 0 .. 2 * Frames BY <1>1 DEF Stream
  <2>2. QED BY <1>1, <2>1, Halves DEF AnswerEnds, AtEnd
<1>3. Frames \in 0 .. Frames /\ st.given <= Frames BY <1>1, CasePageAssumption DEF Stream
<1>4. Written' BY <1>2, <1>3, CaseWritten DEF AnswerEnds
<1>5. OneStream' BY <1>1 DEF OneStream
<1>6. QED BY <1>4, <1>5 DEF CaseInv

LEMMA CaseBroken == ASSUME CaseInv, NEW st \in streams, AnswerBreaks(st) PROVE CaseInv'
<1> DEFINE q == st.question
           new == [exchanges[q] EXCEPT !.error = TRUE]
<1>1. st \in Stream /\ q = Len(exchanges) /\ exchanges \in Seq(Exchange) /\ exchanges # << >> /\ streams' = {}
  BY DEF CaseInv, OneStream, Written, AnswerBreaks
<1>2. q \in DOMAIN exchanges /\ exchanges[q] \in Exchange BY <1>1, LenProperties, EmptySeq, ElementOfSeq
<1>3. new \in Exchange /\ new.turn = exchanges[q].turn /\ new.done = exchanges[q].done /\ new.error
  BY <1>2 DEF Exchange
<1>4. exchanges' = [exchanges EXCEPT ![q] = new] BY <1>1, <1>2 DEF AnswerBreaks
<1> HIDE DEF new
<1>5. exchanges' \in Seq(Exchange) BY <1>1, <1>2, <1>3, <1>4, ExceptSeq
<1>6. DOMAIN exchanges' = DOMAIN exchanges /\ exchanges'[q] = new
      /\ \A i \in DOMAIN exchanges \ {q} : exchanges'[i] = exchanges[i]
  BY <1>2, <1>4
<1>7. ASSUME NEW i \in DOMAIN exchanges, i # q
      PROVE  exchanges[i].error \/ Len(exchanges[i].turn) = Frames
  <2>1. ~ \E s \in streams : s.question = i BY <1>7 DEF CaseInv, OneStream
  <2>2. QED BY <2>1 DEF CaseInv, Written
<1>8. Written' BY <1>3, <1>5, <1>6, <1>7 DEF CaseInv, Written
<1>9. OneStream' BY <1>1 DEF OneStream
<1>10. QED BY <1>8, <1>9 DEF CaseInv

LEMMA CaseMoves == ASSUME CaseInv, [CasePageNext]_caseVars PROVE CaseInv'
<1>1. ASSUME UNCHANGED <<exchanges, sending, streams>> PROVE CaseInv'
  BY <1>1 DEF CaseInv, OneStream, Written
<1>2. ASSUME NEW k \in CaseList, Chooses(k) \/ CaseRead(k) PROVE CaseInv'
  BY <1>1, <1>2 DEF Chooses, CaseRead
<1>3. CASE UNCHANGED caseVars BY <1>1, <1>3 DEF caseVars
<1>4. QED BY <1>2, <1>3, CaseSends, CaseReads, CaseAnswered, CaseBroken DEF CasePageNext

-----------------------------------------------------------------------------

\* However the pieces of an answer are cut and whatever breaks, an exchange holds frames
\* of the answer to its own question, in order, and all of them when the answer ended
\* well, for any number of frames and questions (CasePage.tsx:95-124, chat.ts:45-81).
THEOREM AnswerBelongsHolds == Spec => []AnswerBelongs
<1>1. Init => CaseInv BY CaseInitial DEF Init
<1>2. CaseInv /\ [Next]_vars => CaseInv'
  <2>1. [Next]_vars => [CasePageNext]_caseVars BY DEF Next, OnHunting, OnApprovals, OnCases, vars
  <2>2. QED BY <2>1, CaseMoves
<1>3. ASSUME CaseInv PROVE AnswerBelongs
  <2>1. SUFFICES ASSUME NEW i \in DOMAIN exchanges
        PROVE  LET ex == exchanges[i]
                   over == \A st \in streams : st.question # i
                   n == Len(ex.turn) IN
               /\ ex.turn = [k \in 1 .. n |-> [of |-> i, no |-> k]]
               /\ over /\ ~ex.error => n = Frames /\ ex.done
    BY DEF AnswerBelongs
  <2>2. PICK n \in 0 .. Frames : exchanges[i].turn = FirstFrames(i, n) BY <1>3 DEF CaseInv, Written
  <2>3. i \in Nat /\ n \in Nat BY <1>3, LenProperties, CasePageAssumption DEF CaseInv, Written
  <2>4. Len(exchanges[i].turn) = n BY <2>2, <2>3, FirstFramesAre
  <2>5. exchanges[i].turn = [k \in 1 .. Len(exchanges[i].turn) |-> [of |-> i, no |-> k]]
    BY <2>2, <2>4 DEF FirstFrames
  <2>6. QED BY <1>3, <2>5 DEF CaseInv, Written
<1>4. QED BY <1>1, <1>2, <1>3, PTL DEF Spec

=============================================================================
