-------------------------- MODULE SideBySideProofs --------------------------
(***************************************************************************)
(* Proofs about the parts side by side, one after the other.  A step of    *)
(* the product is a step of one part and leaves the others alone, so an    *)
(* invariant of a part is one of the product.                              *)
(***************************************************************************)
EXTENDS SideBySide, FiniteSetTheorems, SequenceTheorems, WellFoundedInduction, TLAPS

-----------------------------------------------------------------------------
(* The confirmation gate: a call is executed or its token is out for a      *)
(* confirmation of its own each                                             *)

GateInv ==
  /\ pending \subseteq Calls
  /\ issued \in [Calls -> Nat] /\ executed \in [Calls -> Nat]
  /\ ConfirmedEachTime

LEMMA GateInitial == ASSUME GateInit PROVE GateInv
BY GateAssumption DEF GateInit, GateInv, ConfirmedEachTime

LEMMA GateMoves == ASSUME GateInv, GateNext PROVE GateInv'
<1>1. ASSUME NEW c \in Calls, IssueConfirmation(c) PROVE GateInv'
  BY <1>1, GateAssumption DEF IssueConfirmation, GateInv, ConfirmedEachTime
<1>2. ASSUME NEW c \in Calls, NEW token \in Calls \cup {NoToken}, DispatchCall(c, token) PROVE GateInv'
  BY <1>2, GateAssumption DEF DispatchCall, ExecuteCall, GateInv, ConfirmedEachTime
<1>3. QED BY <1>1, <1>2 DEF GateNext

LEMMA GateStep == ASSUME GateInv, [Next]_vars PROVE GateInv'
<1>1. [GateNext]_gateVars BY DEF Next, OthersStill, vars
<1>2. CASE UNCHANGED gateVars
  BY <1>2 DEF gateVars, GateInv, ConfirmedEachTime
<1>3. QED BY <1>1, <1>2, GateMoves

\* A call that destroys is executed no more often than it was confirmed, for any calls
\* and confirmations (confirmation_gate.py:58-81).
THEOREM ConfirmedEachTimeHolds == Spec => []ConfirmedEachTime
<1>1. Init => GateInv BY GateInitial DEF Init
<1>2. GateInv /\ [Next]_vars => GateInv' BY GateStep
<1>3. GateInv => ConfirmedEachTime BY DEF GateInv
<1>4. QED BY <1>1, <1>2, <1>3, PTL DEF Spec

-----------------------------------------------------------------------------
(* The vault: what a thread has recorded is in the table or in the open      *)
(* transaction, what it has committed is in the table; so is what was handed *)
(* out, and what a question under way is owed                                *)

Recorded ==
  /\ work \in [Threads -> [at : {"idle", "recorded", "committed"}, pairs : SUBSET UNION Texts]]
  /\ \A t \in Threads :
       /\ work[t].at = "recorded" => work[t].pairs \subseteq vault \cup uncommitted
       /\ work[t].at = "committed" => work[t].pairs \subseteq vault
  /\ out \subseteq vault

Owed ==
  \A a \in ask : a.by \in Readers /\ a.by.role \in PII_REVEAL_ROLES
                 /\ a.due \subseteq {p \in out : p.placeholder = a.placeholder}

\* shown to readers of the right role, and posted
ShownTell ==
  \A s \in shown :
    /\ s.by \in Readers /\ s.by.role \in PII_REVEAL_ROLES
    /\ {p.original : p \in s.due} \subseteq s.originals
    /\ \E e \in posts : e.by = s.by.user /\ e.placeholder = s.placeholder
                        /\ e.result = "SUCCESS" /\ e.count = Cardinality(s.originals)

DeniedTell ==
  /\ \A r \in turned : \E e \in posts : e.by = r.by /\ e.placeholder = r.placeholder /\ e.result = "DENIED"
  /\ \A e \in posts : e.result = "DENIED" => \E b \in Readers : b.user = e.by /\ b.role \notin PII_REVEAL_ROLES

VaultInv == Recorded /\ Owed /\ ShownTell /\ DeniedTell

LEMMA VaultInitial == ASSUME VaultInit PROVE VaultInv
BY DEF VaultInit, VaultInv, Recorded, Owed, ShownTell, DeniedTell, IdleThread

LEMMA GuardsMove ==
  ASSUME VaultInv,
         GuardsRestart \/ \E t \in Threads : RecordPairs(t) \/ CommitRows(t) \/ RecordFails(t) \/ Anonymized(t)
  PROVE  VaultInv'
<1>1. ASSUME NEW t \in Threads, RecordPairs(t) PROVE Recorded' /\ Owed'
  BY <1>1 DEF RecordPairs, VaultInv, Recorded, Owed, IdleThread
<1>2. ASSUME NEW t \in Threads, CommitRows(t) PROVE Recorded' /\ Owed'
  BY <1>2 DEF CommitRows, VaultInv, Recorded, Owed
<1>3. ASSUME NEW t \in Threads, RecordFails(t) PROVE Recorded' /\ Owed'
  BY <1>3 DEF RecordFails, VaultInv, Recorded, Owed
<1>4. ASSUME NEW t \in Threads, Anonymized(t) PROVE Recorded' /\ Owed'
  BY <1>4 DEF Anonymized, VaultInv, Recorded, Owed, IdleThread
<1>5. CASE GuardsRestart
  <2>1. Recorded' /\ Owed' BY <1>5 DEF GuardsRestart, VaultInv, Recorded, Owed, IdleThread
  <2>2. UNCHANGED <<posts, shown, turned>> BY <1>5 DEF GuardsRestart
  <2>3. QED BY <2>1, <2>2 DEF VaultInv, ShownTell, DeniedTell
<1>6. ASSUME NEW t \in Threads, RecordPairs(t) \/ CommitRows(t) \/ RecordFails(t) \/ Anonymized(t)
      PROVE VaultInv'
  <2>1. Recorded' /\ Owed' BY <1>1, <1>2, <1>3, <1>4, <1>6
  <2>2. UNCHANGED <<posts, shown, turned>>
    BY <1>6 DEF RecordPairs, CommitRows, RecordFails, Anonymized
  <2>3. QED BY <2>1, <2>2 DEF VaultInv, ShownTell, DeniedTell
<1>7. QED BY <1>5, <1>6

LEMMA AskMoves ==
  ASSUME VaultInv, NEW by \in Readers, NEW p \in Placeholders, AskReveal(by, p)
  PROVE  VaultInv'
<1>1. Recorded' BY DEF AskReveal, VaultInv, Recorded
<1>2. UNCHANGED <<shown, out>> /\ posts \subseteq posts' BY DEF AskReveal, Post
<1>3. Owed' BY <1>2 DEF AskReveal, VaultInv, Owed
<1>4. ShownTell' BY <1>2 DEF VaultInv, ShownTell
<1>5. DeniedTell'
  <2>1. CASE by.role \notin PII_REVEAL_ROLES \cup {"none"}
    <3> DEFINE e == [by |-> by.user, placeholder |-> p, result |-> "DENIED", count |-> 0]
    <3>1. /\ posts' = posts \cup {e}
          /\ turned' = turned \cup {[by |-> by.user, placeholder |-> p]}
      BY <2>1 DEF AskReveal, Post
    <3>2. e.by = by.user /\ e.placeholder = p /\ e.result = "DENIED" OBVIOUS
    <3>3. ASSUME NEW r \in turned' PROVE \E x \in posts' : x.by = r.by /\ x.placeholder = r.placeholder /\ x.result = "DENIED"
      <4>1. CASE r \in turned BY <3>1, <4>1 DEF VaultInv, DeniedTell
      <4>2. CASE r \notin turned
        <5>1. r.by = by.user /\ r.placeholder = p /\ e \in posts' BY <3>1, <4>2
        <5> HIDE DEF e
        <5>2. QED BY <3>2, <5>1
      <4>3. QED BY <4>1, <4>2
    <3>4. ASSUME NEW x \in posts', x.result = "DENIED" PROVE \E b \in Readers : b.user = x.by /\ b.role \notin PII_REVEAL_ROLES
      BY <2>1, <3>1, <3>2, <3>4 DEF VaultInv, DeniedTell
    <3>5. QED BY <3>3, <3>4 DEF DeniedTell
  <2>2. CASE by.role \in PII_REVEAL_ROLES \cup {"none"}
    <3>1. UNCHANGED <<posts, turned>> BY <2>2 DEF AskReveal, PII_REVEAL_ROLES
    <3>2. QED BY <3>1 DEF VaultInv, DeniedTell
  <2>3. QED BY <2>1, <2>2
<1>6. QED BY <1>1, <1>3, <1>4, <1>5 DEF VaultInv

LEMMA AnswersMove ==
  ASSUME VaultInv, Revealed \/ RevealFails \/ AgentDies
  PROVE  VaultInv'
<1>1. Recorded' BY DEF Revealed, RevealFails, AgentDies, VaultInv, Recorded
<1>2. Owed' BY DEF Revealed, RevealFails, AgentDies, Owed
<1>3. posts \subseteq posts' /\ UNCHANGED turned /\ \A e \in posts' \ posts : e.result # "DENIED"
  BY DEF Revealed, RevealFails, AgentDies, Post
<1>4. DeniedTell' BY <1>3 DEF VaultInv, DeniedTell
<1>5. ShownTell'
  <2>1. CASE Revealed
    <3>1. PICK a \in ask :
            LET originals == Reveal(a.placeholder) IN
            IF originals = {}
            THEN UNCHANGED shown
            ELSE /\ Post(a.by, a.placeholder, "SUCCESS", Cardinality(originals))
                 /\ shown' = shown \cup {[by |-> a.by, placeholder |-> a.placeholder,
                                          originals |-> originals, due |-> a.due]}
      BY <2>1 DEF Revealed
    <3>2. a.by \in Readers /\ a.by.role \in PII_REVEAL_ROLES
          /\ {p.original : p \in a.due} \subseteq Reveal(a.placeholder)
      BY DEF VaultInv, Owed, Recorded, Reveal
    <3> DEFINE O == Reveal(a.placeholder)
               e == [by |-> a.by.user, placeholder |-> a.placeholder, result |-> "SUCCESS", count |-> Cardinality(O)]
               new == [by |-> a.by, placeholder |-> a.placeholder, originals |-> O, due |-> a.due]
    <3>3. UNCHANGED shown \/ (shown' = shown \cup {new} /\ posts' = posts \cup {e})
      BY <3>1 DEF Post
    <3>4. ASSUME NEW s \in shown PROVE \E x \in posts' : x.by = s.by.user /\ x.placeholder = s.placeholder
                                        /\ x.result = "SUCCESS" /\ x.count = Cardinality(s.originals)
      BY <1>3 DEF VaultInv, ShownTell
    <3>5. ASSUME NEW s \in shown', s \notin shown
          PROVE  /\ s.by \in Readers /\ s.by.role \in PII_REVEAL_ROLES
                 /\ {p.original : p \in s.due} \subseteq s.originals
                 /\ \E x \in posts' : x.by = s.by.user /\ x.placeholder = s.placeholder
                                     /\ x.result = "SUCCESS" /\ x.count = Cardinality(s.originals)
      <4>1. s = new /\ e \in posts' BY <3>3, <3>5
      <4>2. s.by = a.by /\ s.placeholder = a.placeholder /\ s.originals = O /\ s.due = a.due BY <4>1
      <4>3. e.by = a.by.user /\ e.placeholder = a.placeholder /\ e.result = "SUCCESS" /\ e.count = Cardinality(O)
        OBVIOUS
      <4> HIDE DEF O, e, new
      <4>4. \E x \in posts' : x.by = s.by.user /\ x.placeholder = s.placeholder
                             /\ x.result = "SUCCESS" /\ x.count = Cardinality(s.originals)
        BY <4>1, <4>2, <4>3
      <4>5. {p.original : p \in s.due} \subseteq s.originals BY <3>2, <4>2 DEF O
      <4>6. QED BY <3>2, <4>2, <4>4, <4>5
    <3>6. ASSUME NEW s \in shown PROVE /\ s.by \in Readers /\ s.by.role \in PII_REVEAL_ROLES
                                      /\ {p.original : p \in s.due} \subseteq s.originals
      BY DEF VaultInv, ShownTell
    <3> HIDE DEF O, e, new
    <3>7. QED BY <3>4, <3>5, <3>6 DEF ShownTell
  <2>2. CASE RevealFails \/ AgentDies
    <3>1. UNCHANGED shown BY <2>2 DEF RevealFails, AgentDies
    <3>2. QED BY <1>3, <3>1 DEF VaultInv, ShownTell
  <2>3. QED BY <2>1, <2>2
<1>6. QED BY <1>1, <1>2, <1>4, <1>5 DEF VaultInv

LEMMA VaultStep == ASSUME VaultInv, [Next]_vars PROVE VaultInv'
<1>1. [VaultNext]_vaultVars BY DEF Next, OthersStill, vars
<1>2. CASE UNCHANGED vaultVars
  BY <1>2 DEF vaultVars, VaultInv, Recorded, Owed, ShownTell, DeniedTell
<1>3. QED BY <1>1, <1>2, GuardsMove, AskMoves, AnswersMove DEF VaultNext

\* Nothing is handed out that cannot be looked up, every answer is whole, is for a
\* leader or an administrator and was posted, and who is turned away is posted, for
\* any threads, texts, readers and restarts (pii.py:93-129, app.ts:696-739).
THEOREM RevealsAreWholeHolds == Spec => []RevealsAreWhole
<1>1. Init => VaultInv BY VaultInitial DEF Init
<1>2. VaultInv /\ [Next]_vars => VaultInv' BY VaultStep
<1>3. VaultInv => RevealsAreWhole
  BY VaultAssumption DEF VaultInv, Recorded, ShownTell, DeniedTell, RevealsAreWhole
<1>4. QED BY <1>1, <1>2, <1>3, PTL DEF Spec

-----------------------------------------------------------------------------
(* The way to the model: what reached it was looked through under the key it *)
(* was sent with, what the agent was told are keys of such requests, and     *)
(* every request that is over has its one line                               *)

Places == {Named, Unknown} \cup {Value(k) : k \in Nat}

OnTheLine ==
  [at : {"gateway", "model"}, object : BOOLEAN, visible : SUBSET Places, aside : SUBSET Places,
   declared : SUBSET Places, key : Nat]

LineTells ==
  /\ requests \in Nat /\ key \in Nat /\ keys \in Nat /\ context \subseteq Places
  /\ line \subseteq OnTheLine /\ \A r, q \in line : r = q
  /\ \A r \in line :
       /\ requests >= 1
       /\ r.visible \subseteq context /\ r.aside \subseteq context
       /\ r.at = "gateway" => r.declared \subseteq {Named, Unknown} \cup context
       /\ r.at = "model" => /\ r.declared \subseteq {Named, Unknown, Value(r.key)} \cup context
                            /\ \E u \in upstream : u.at = requests /\ u.key = r.key

ReachedTell ==
  /\ \A u \in upstream :
       /\ u.key # 0
       /\ u.object => /\ u.key \notin ShortKeys => Value(u.key) \notin u.visible
                      /\ u.declared \subseteq {Value(u.key)} \cup context
  /\ \A v \in context : \E u \in upstream : v = Value(u.key)

\* the lines of request n, and that it has one that tells what became of it
LinesOf(n) == {e \in trail : e.request = n}
Entered(n) ==
  \E e \in trail : LinesOf(n) = {e} /\ (e.result = "allow" => \E r \in upstream : r.at = n)

TrailTells ==
  /\ \A e \in trail : e.request \in Nat /\ e.request <= requests
  /\ line # {} => LinesOf(requests) = {}
  /\ \A n \in 1 .. requests : n < requests \/ line = {} => Entered(n)

GatewayInv == LineTells /\ ReachedTell /\ TrailTells

LEMMA GatewayInitial == ASSUME GatewayInit PROVE GatewayInv
BY DEF GatewayInit, GatewayInv, LineTells, ReachedTell, TrailTells

\* what the request under way leaves behind when it is over
LEMMA LineEnds ==
  ASSUME GatewayInv, NEW result \in {"allow", "deny"}, line # {}, Audit(result), line' = {},
         UNCHANGED <<requests, upstream>>,
         result = "allow" => \E u \in upstream : u.at = requests
  PROVE  TrailTells'
<1> DEFINE e == [request |-> requests, result |-> result]
<1>1. trail' = trail \cup {e} /\ e.request = requests /\ e.result = result BY DEF Audit
<1> HIDE DEF e
<1>2. requests \in Nat /\ requests >= 1 BY DEF GatewayInv, LineTells
<1>3. LinesOf(requests)' = {e} BY <1>1 DEF GatewayInv, TrailTells, LinesOf
<1>4. Entered(requests)' BY <1>1, <1>3 DEF Entered, LinesOf
<1>5. ASSUME NEW n \in 1 .. requests, n < requests PROVE Entered(n)'
  <2>1. LinesOf(n)' = LinesOf(n) BY <1>1, <1>2, <1>5 DEF LinesOf
  <2>2. Entered(n) BY <1>5 DEF GatewayInv, TrailTells
  <2>3. QED BY <1>1, <2>1, <2>2 DEF Entered, LinesOf
<1>6. \A n \in 1 .. requests : Entered(n)' BY <1>2, <1>4, <1>5
<1>7. \A x \in trail' : x.request \in Nat /\ x.request <= requests
  BY <1>1, <1>2 DEF GatewayInv, TrailTells
<1>8. QED BY <1>6, <1>7 DEF TrailTells, Entered, LinesOf

LEMMA RequestComes ==
  ASSUME GatewayInv, NEW object \in BOOLEAN, NEW visible, NEW aside, NEW declared,
         Request(object, visible, aside, declared)
  PROVE  GatewayInv'
<1> DEFINE r == [at |-> "gateway", object |-> object, visible |-> visible, aside |-> aside,
                 declared |-> declared, key |-> key]
<1>1. /\ line = {} /\ requests' = requests + 1 /\ requests \in Nat
      /\ line' = {r} /\ UNCHANGED <<key, context, upstream, trail, keys>>
  BY DEF Request, GatewayInv, LineTells
<1>2. /\ r \in OnTheLine /\ r.at = "gateway" /\ r.visible \subseteq context /\ r.aside \subseteq context
      /\ r.declared \subseteq {Named, Unknown} \cup context
  <2>1. /\ visible \subseteq context /\ aside \subseteq context
        /\ declared \subseteq {Named, Unknown} \cup context
        /\ context \subseteq Places /\ key \in Nat
    BY DEF Request, GatewayInv, LineTells
  <2>2. visible \subseteq Places /\ aside \subseteq Places /\ declared \subseteq Places BY <2>1 DEF Places
  <2>3. r \in OnTheLine BY <2>1, <2>2 DEF OnTheLine
  <2>4. QED BY <2>1, <2>3
<1> HIDE DEF r
<1>3. LineTells' BY <1>1, <1>2 DEF GatewayInv, LineTells
<1>4. ReachedTell'
  <2>1. UNCHANGED <<upstream, context>> BY <1>1
  <2>2. QED BY <2>1 DEF GatewayInv, ReachedTell
<1>5. LinesOf(requests)' = {} BY <1>1 DEF GatewayInv, TrailTells, LinesOf
<1>6. ASSUME NEW n \in 1 .. requests', n < requests' \/ line' = {} PROVE Entered(n)'
  <2>1. n \in 1 .. requests BY <1>1, <1>6
  <2>2. Entered(n) BY <1>1, <2>1 DEF GatewayInv, TrailTells
  <2>3. QED BY <1>1, <2>2 DEF Entered, LinesOf
<1>7. TrailTells' BY <1>1, <1>5, <1>6 DEF GatewayInv, TrailTells, LinesOf
<1>8. QED BY <1>3, <1>4, <1>7 DEF GatewayInv

LEMMA ForwardMoves == ASSUME GatewayInv, Forward PROVE GatewayInv'
<1>1. PICK r \in line :
        /\ r.at = "gateway"
        /\ IF Refused(r)
           THEN Audit("deny") /\ line' = {} /\ UNCHANGED upstream
           ELSE LET sent == [r EXCEPT !.at = "model",
                                      !.declared = IF r.object THEN InjectCredentials(@, r.key) ELSE @]
                IN line' = {sent} /\ upstream' = upstream \cup {[sent EXCEPT !.at = requests]}
                   /\ UNCHANGED trail
        /\ UNCHANGED <<key, context, requests, keys>>
  BY DEF Forward
<1>2. /\ r \in OnTheLine /\ requests \in Nat /\ requests >= 1 /\ context \subseteq Places
      /\ r.visible \subseteq context /\ r.aside \subseteq context
      /\ r.declared \subseteq {Named, Unknown} \cup context
  BY <1>1 DEF GatewayInv, LineTells
<1>3. CASE Refused(r)
  <2>1. line' = {} /\ UNCHANGED <<upstream, key, context, requests, keys>> /\ Audit("deny") BY <1>1, <1>3
  <2>2. TrailTells' BY <2>1, LineEnds
  <2>3. LineTells' /\ ReachedTell' BY <2>1 DEF GatewayInv, LineTells, ReachedTell
  <2>4. QED BY <2>2, <2>3 DEF GatewayInv
<1>4. CASE ~Refused(r)
  <2> DEFINE d == IF r.object THEN InjectCredentials(r.declared, r.key) ELSE r.declared
             sent == [r EXCEPT !.at = "model", !.declared = d]
             got == [sent EXCEPT !.at = requests]
  <2>1. line' = {sent} /\ upstream' = upstream \cup {got} /\ UNCHANGED <<trail, key, context, requests, keys>>
    BY <1>1, <1>4
  <2>2. /\ sent.at = "model" /\ sent.declared = d /\ sent.object = r.object
        /\ sent.visible = r.visible /\ sent.aside = r.aside /\ sent.key = r.key
        /\ got.at = requests /\ got.object = r.object /\ got.visible = r.visible
        /\ got.declared = d /\ got.key = r.key
    BY <1>2 DEF OnTheLine
  <2>3. r.object => d \subseteq {Value(r.key)} \cup context
    <3>1. SUFFICES ASSUME r.object, NEW x \in r.declared
                   PROVE  (IF x = Named THEN Value(r.key) ELSE x) \in {Value(r.key)} \cup context
      BY DEF InjectCredentials
    <3>2. x # Unknown BY <1>4, <3>1 DEF Refused
    <3>3. x \in {Named, Unknown} \cup context BY <1>2, <3>1
    <3>4. QED BY <3>2, <3>3
  <2>4. d \subseteq {Named, Unknown, Value(r.key)} \cup context BY <1>2, <2>3
  <2>5. sent \in OnTheLine
    <3>1. Value(r.key) \in Places BY <1>2 DEF Places, OnTheLine
    <3>2. d \subseteq Places BY <1>2, <2>4, <3>1 DEF Places
    <3> HIDE DEF d
    <3>3. QED BY <1>2, <3>2 DEF OnTheLine
  <2>6. r.key # 0 /\ (r.object => (r.key \notin ShortKeys => Value(r.key) \notin r.visible))
    BY <1>4 DEF Refused
  <2> HIDE DEF d, sent, got
  <2>7. LineTells'
    <3>1. got \in upstream' /\ got.at = requests' /\ got.key = sent.key BY <2>1, <2>2
    <3>2. /\ sent.visible \subseteq context' /\ sent.aside \subseteq context'
          /\ sent.declared \subseteq {Named, Unknown, Value(sent.key)} \cup context'
      BY <1>2, <2>1, <2>2, <2>4
    <3>3. QED BY <1>2, <2>1, <2>2, <2>5, <3>1, <3>2 DEF GatewayInv, LineTells
  <2>8. ReachedTell'
    <3>1. /\ got.key # 0
          /\ got.object => /\ got.key \notin ShortKeys => Value(got.key) \notin got.visible
                           /\ got.declared \subseteq {Value(got.key)} \cup context
      BY <2>2, <2>3, <2>6
    <3>2. \A u \in upstream' : u \in upstream \/ u = got BY <2>1
    <3>3. upstream \subseteq upstream' /\ context' = context BY <2>1
    <3>4. QED BY <3>1, <3>2, <3>3 DEF GatewayInv, ReachedTell
  <2>9. LinesOf(requests)' = {} BY <1>1, <2>1 DEF GatewayInv, TrailTells, LinesOf
  <2>10. ASSUME NEW n \in 1 .. requests', n < requests' \/ line' = {} PROVE Entered(n)'
    <3>1. Entered(n) BY <2>1, <2>10 DEF GatewayInv, TrailTells
    <3>2. QED BY <2>1, <3>1 DEF Entered, LinesOf
  <2>11. TrailTells' BY <2>1, <2>9, <2>10 DEF GatewayInv, TrailTells, LinesOf
  <2>12. QED BY <2>7, <2>8, <2>11 DEF GatewayInv
<1>5. QED BY <1>3, <1>4

LEMMA GatewayMoves == ASSUME GatewayInv, GatewayNext PROVE GatewayInv'
<1>1. CASE GatewayRestart
  <2>1. UNCHANGED <<context, line, upstream, trail, requests>> /\ key' \in Nat /\ keys' \in Nat
    BY <1>1 DEF GatewayRestart, GatewayInv, LineTells
  <2>2. QED BY <2>1 DEF GatewayInv, LineTells, ReachedTell, TrailTells, Entered, LinesOf
<1>2. CASE Unreachable
  <2>1. line # {} /\ Audit("deny") /\ line' = {} /\ UNCHANGED <<key, context, upstream, requests, keys>>
    BY <1>2 DEF Unreachable
  <2>2. TrailTells' BY <2>1, LineEnds
  <2>3. LineTells' /\ ReachedTell' BY <2>1 DEF GatewayInv, LineTells, ReachedTell
  <2>4. QED BY <2>2, <2>3 DEF GatewayInv
<1>3. ASSUME NEW says \in SUBSET {Value(k) : k \in 1 .. MaxKeys}, ModelAnswers(says)
      PROVE GatewayInv'
  <2>1. PICK r \in line :
          /\ r.at = "model" /\ says \subseteq ToldModel(r)
          /\ Audit("allow") /\ line' = {} /\ context' = context \cup says
          /\ UNCHANGED <<key, upstream, requests, keys>>
    BY <1>3 DEF ModelAnswers
  <2>2. PICK u \in upstream : u.at = requests /\ u.key = r.key BY <2>1 DEF GatewayInv, LineTells
  <2>3. TrailTells' BY <2>1, <2>2, LineEnds
  <2>4. says \subseteq Places BY DEF Places
  <2>5. says \subseteq context \cup {Value(r.key)}
    BY <2>1 DEF GatewayInv, LineTells, ToldModel
  <2>6. \A v \in context' : \E w \in upstream' : v = Value(w.key)
    BY <2>1, <2>2, <2>5 DEF GatewayInv, ReachedTell
  <2>7. LineTells' BY <2>1, <2>4 DEF GatewayInv, LineTells
  <2>8. ReachedTell' BY <2>1, <2>6 DEF GatewayInv, ReachedTell
  <2>9. QED BY <2>3, <2>7, <2>8 DEF GatewayInv
<1>4. QED BY <1>1, <1>2, <1>3, ForwardMoves, RequestComes DEF GatewayNext

LEMMA GatewayStep == ASSUME GatewayInv, [Next]_vars PROVE GatewayInv'
<1>1. [GatewayNext]_gatewayVars BY DEF Next, OthersStill, vars
<1>2. CASE UNCHANGED gatewayVars
  BY <1>2 DEF gatewayVars, GatewayInv, LineTells, ReachedTell, TrailTells, Entered, LinesOf
<1>3. QED BY <1>1, <1>2, GatewayMoves

\* Whatever the model was told and says again, in the declared places too, for any number
\* of keys and requests: no object reaches it in whose other strings the true value of
\* now shows, if it is not a short one, the agent is told a value only after a request
\* that carried it, and every request that is over is on the trail once
\* (proxy.py:72-121, 152-226).
THEOREM NoValueShownHolds == Spec => []NoValueShown
<1>1. Init => GatewayInv BY GatewayInitial DEF Init
<1>2. GatewayInv /\ [Next]_vars => GatewayInv' BY GatewayStep
<1>3. ASSUME GatewayInv PROVE NoValueShown
  <2>1. ASSUME line = {}, NEW n \in 1 .. requests
        PROVE  /\ Cardinality({e \in trail : e.request = n}) = 1
               /\ [request |-> n, result |-> "allow"] \in trail => \E r \in upstream : r.at = n
    <3>1. Entered(n) BY <1>3, <2>1 DEF GatewayInv, TrailTells
    <3>2. PICK e \in trail : LinesOf(n) = {e} /\ (e.result = "allow" => \E r \in upstream : r.at = n)
      BY <3>1 DEF Entered
    <3>3. Cardinality({e}) = 1 BY FS_Singleton
    <3>4. [request |-> n, result |-> "allow"] \in trail => e = [request |-> n, result |-> "allow"]
      BY <3>2 DEF LinesOf
    <3>5. QED BY <3>2, <3>3, <3>4 DEF LinesOf
  <2>2. QED BY <1>3, <2>1 DEF GatewayInv, ReachedTell, NoValueShown
<1>4. QED BY <1>1, <1>2, <1>3, PTL DEF Spec

-----------------------------------------------------------------------------
(* Who may execute what.  Of a pair OpenFGA keeps, what the matrices laid say *)
(* is known only if each of them names its first half; between the writes    *)
(* and the deletes of a setup, what will be deleted is what is too much.     *)

Pairs == (Users \X Families) \cup (Families \X WorldTools)

World == [id : Nat \ {0}, models : SUBSET [id : Nat, shape : Models], tuples : SUBSET Pairs]

Setup ==
  [at : {"store", "model", "write", "delete", "check"}, matrix : Matrices, shape : Models,
   store : Nat, model : Nat, deletes : SUBSET Pairs]

WorldShape ==
  /\ born \in Nat /\ laid \subseteq Matrices
  /\ fga \subseteq World /\ (\A v, w \in fga : v = w) /\ (fga = {} => laid = {})
  /\ \A w \in fga : /\ w.id <= born
                    /\ \A k, l \in w.models : k.shape = l.shape => k = l
  /\ setup \subseteq Setup /\ \A r, s \in setup : r = s
  /\ \A s \in setup : s.store <= born

TuplesTell ==
  \A w \in fga :
    /\ \A u \in Users, f \in Families : <<u, f>> \in w.tuples => MayHave(laid, u, f)
    /\ \A f \in Families, t \in WorldTools : <<f, t>> \in w.tuples => MayHold(laid, f, t)
    /\ \A x \in Matrices : laid = {x} => DesiredTuples(x) \subseteq w.tuples

\* what the script knows of its store when it has written, and when it has deleted
ScriptKnows(s, w) ==
  /\ s.at \in {"delete", "check"} => s.matrix \in laid /\ DesiredTuples(s.matrix) \subseteq w.tuples
  /\ s.at = "delete" =>
       /\ s.deletes \cap DesiredTuples(s.matrix) = {}
       /\ ReadExistingTuples(s.matrix, w.tuples) \subseteq s.deletes \cup DesiredTuples(s.matrix)

SetupTells == \A s \in setup, w \in fga : w.id = s.store => ScriptKnows(s, w)

AnswersTell ==
  /\ \A q \in question : q.user \in Users /\ q.tool \in WorldTools
  /\ \A a \in allowed : \E f \in Families : MayHave(a.laid, a.user, f) /\ MayHold(a.laid, f, a.tool)

WorldInv == WorldShape /\ TuplesTell /\ SetupTells /\ AnswersTell

LEMMA WorldInitial == ASSUME AuthInit PROVE WorldInv
BY DEF AuthInit, WorldInv, WorldShape, TuplesTell, SetupTells, AnswersTell

\* what is in the list a matrix asks for, by its two halves
LEMMA DesiredHalves ==
  ASSUME NEW x \in Matrices
  PROVE  /\ DesiredTuples(x) \subseteq Pairs
         /\ \A u \in Users, f \in Families :
              <<u, f>> \in DesiredTuples(x) <=> u \in Rows(x) /\ f \in x.families[u]
         /\ \A f \in Families, t \in WorldTools :
              <<f, t>> \in DesiredTuples(x) <=> f \in Cols(x) /\ t \in x.tools[f]
BY AuthAssumption DEF DesiredTuples, Pairs

\* the tuples after the writes may be what one of the matrices laid by then allows
LEMMA WritesTell ==
  ASSUME NEW S \in SUBSET Matrices, NEW x \in Matrices, NEW T \in SUBSET Pairs,
         \A u \in Users, f \in Families : <<u, f>> \in T => MayHave(S, u, f),
         \A f \in Families, t \in WorldTools : <<f, t>> \in T => MayHold(S, f, t)
  PROVE  /\ \A u \in Users, f \in Families :
              <<u, f>> \in T \cup DesiredTuples(x) => MayHave(S \cup {x}, u, f)
         /\ \A f \in Families, t \in WorldTools :
              <<f, t>> \in T \cup DesiredTuples(x) => MayHold(S \cup {x}, f, t)
BY DesiredHalves DEF MayHave, MayHold

\* after the deletes, what is left of a name of the matrix is what the matrix allows
LEMMA DeletesTell ==
  ASSUME NEW x \in Matrices, NEW T \in SUBSET Pairs, NEW D,
         ReadExistingTuples(x, T) \subseteq D \cup DesiredTuples(x)
  PROVE  /\ \A u \in Users, f \in Families : <<u, f>> \in T \ D => MayHave({x}, u, f)
         /\ \A f \in Families, t \in WorldTools : <<f, t>> \in T \ D => MayHold({x}, f, t)
<1>1. ASSUME NEW u \in Users, NEW f \in Families, <<u, f>> \in T \ D, u \in Rows(x)
      PROVE  f \in x.families[u]
  <2>1. <<u, f>> \in ReadExistingTuples(x, T) BY <1>1 DEF ReadExistingTuples
  <2>2. QED BY <1>1, <2>1, DesiredHalves
<1>2. ASSUME NEW f \in Families, NEW t \in WorldTools, <<f, t>> \in T \ D, f \in Cols(x)
      PROVE  t \in x.tools[f]
  <2>1. <<f, t>> \in ReadExistingTuples(x, T) BY <1>2 DEF ReadExistingTuples
  <2>2. QED BY <1>2, <2>1, DesiredHalves
<1>3. QED BY <1>1, <1>2 DEF MayHave, MayHold

LEMMA SyncWritesMove == ASSUME WorldInv, SyncWrites PROVE WorldInv'
<1>1. PICK s \in setup, w \in fga :
        /\ w \in Own(s) /\ s.at = "write"
        /\ fga' = {[w EXCEPT !.tuples = @ \cup DesiredTuples(s.matrix)]}
        /\ laid' = laid \cup {s.matrix}
        /\ setup' = {[s EXCEPT !.at = "delete",
                               !.deletes = ReadExistingTuples(s.matrix, w.tuples) \ DesiredTuples(s.matrix)]}
        /\ UNCHANGED <<ids, question, allowed, born>>
  BY Zenon DEF SyncWrites, Own
<1>2. /\ w \in fga /\ w.id = s.store
      /\ w \in World /\ s \in Setup /\ laid \subseteq Matrices
  BY <1>1 DEF Own, WorldInv, WorldShape
<1>3. PICK x \in Matrices, T \in SUBSET Pairs : x = s.matrix /\ T = w.tuples BY <1>2 DEF World, Setup
<1>4. PICK D \in SUBSET Pairs : D = ReadExistingTuples(x, T) \ DesiredTuples(x)
  BY <1>3 DEF ReadExistingTuples
<1>5. PICK w1 \in World, s1 \in Setup :
        /\ fga' = {w1} /\ w1.id = w.id /\ w1.models = w.models /\ w1.tuples = T \cup DesiredTuples(x)
        /\ setup' = {s1} /\ s1.at = "delete" /\ s1.store = s.store /\ s1.matrix = x /\ s1.deletes = D
  <2> DEFINE w1 == [w EXCEPT !.tuples = T \cup DesiredTuples(x)]
             s1 == [s EXCEPT !.at = "delete", !.deletes = D]
  <2>1. fga' = {w1} /\ setup' = {s1} BY <1>1, <1>3, <1>4
  <2>2. T \cup DesiredTuples(x) \subseteq Pairs BY <1>3, DesiredHalves
  <2>3. w1 \in World /\ w1.id = w.id /\ w1.models = w.models /\ w1.tuples = T \cup DesiredTuples(x)
    BY <1>2, <2>2 DEF World
  <2>4. s1 \in Setup /\ s1.at = "delete" /\ s1.store = s.store /\ s1.matrix = x /\ s1.deletes = D
    BY <1>2, <1>3 DEF Setup
  <2> HIDE DEF w1, s1
  <2>5. QED BY <2>1, <2>3, <2>4
<1>6. ReadExistingTuples(x, T \cup DesiredTuples(x)) \subseteq D \cup DesiredTuples(x)
      /\ D \cap DesiredTuples(x) = {}
  BY <1>4 DEF ReadExistingTuples
<1>7. /\ \A u \in Users, f \in Families : <<u, f>> \in T => MayHave(laid, u, f)
      /\ \A f \in Families, t \in WorldTools : <<f, t>> \in T => MayHold(laid, f, t)
  BY <1>2, <1>3 DEF WorldInv, TuplesTell
<1>8. /\ \A u \in Users, f \in Families :
           <<u, f>> \in T \cup DesiredTuples(x) => MayHave(laid \cup {x}, u, f)
      /\ \A f \in Families, t \in WorldTools :
           <<f, t>> \in T \cup DesiredTuples(x) => MayHold(laid \cup {x}, f, t)
  BY <1>2, <1>7, WritesTell
<1>9. WorldShape' BY <1>1, <1>2, <1>3, <1>5 DEF WorldInv, WorldShape
<1>10. TuplesTell'
  <2>1. \A y \in Matrices : laid' = {y} => DesiredTuples(y) \subseteq w1.tuples BY <1>1, <1>3, <1>5
  <2>2. QED BY <1>1, <1>3, <1>5, <1>8, <2>1 DEF TuplesTell
<1>11. SetupTells'
  <2>1. ScriptKnows(s1, w1)' BY <1>1, <1>3, <1>5, <1>6 DEF ScriptKnows
  <2>2. QED BY <1>5, <2>1 DEF SetupTells, ScriptKnows
<1>12. AnswersTell' BY <1>1 DEF WorldInv, AnswersTell
<1>13. QED BY <1>9, <1>10, <1>11, <1>12 DEF WorldInv

LEMMA SyncDeletesMove == ASSUME WorldInv, SyncDeletes PROVE WorldInv'
<1>1. PICK s \in setup, w \in fga :
        /\ w.id = s.store /\ s.at = "delete"
        /\ fga' = {[w EXCEPT !.tuples = @ \ s.deletes]}
        /\ laid' = {s.matrix}
        /\ setup' = {[s EXCEPT !.at = "check", !.deletes = {}]}
        /\ UNCHANGED <<ids, question, allowed, born>>
  BY DEF SyncDeletes, Own
<1>2. w \in World /\ s \in Setup BY DEF WorldInv, WorldShape
<1>3. PICK x \in Matrices, T \in SUBSET Pairs : x = s.matrix /\ T = w.tuples BY <1>2 DEF World, Setup
<1>4. PICK D : D = s.deletes OBVIOUS
<1>5. PICK w1 \in World, s1 \in Setup :
        /\ fga' = {w1} /\ w1.id = w.id /\ w1.models = w.models /\ w1.tuples = T \ D
        /\ setup' = {s1} /\ s1.at = "check" /\ s1.store = s.store /\ s1.matrix = x
  <2> DEFINE w1 == [w EXCEPT !.tuples = T \ D]
             s1 == [s EXCEPT !.at = "check", !.deletes = {}]
  <2>1. fga' = {w1} /\ setup' = {s1} BY <1>1, <1>3, <1>4
  <2>2. w1 \in World /\ w1.id = w.id /\ w1.models = w.models /\ w1.tuples = T \ D
    BY <1>2, <1>3 DEF World
  <2>3. s1 \in Setup /\ s1.at = "check" /\ s1.store = s.store /\ s1.matrix = x
    BY <1>2, <1>3 DEF Setup
  <2> HIDE DEF w1, s1
  <2>4. QED BY <2>1, <2>2, <2>3
<1>6. /\ x \in laid /\ DesiredTuples(x) \subseteq T /\ D \cap DesiredTuples(x) = {}
      /\ ReadExistingTuples(x, T) \subseteq D \cup DesiredTuples(x)
  BY <1>1, <1>3, <1>4 DEF WorldInv, SetupTells, ScriptKnows
<1>7. /\ \A u \in Users, f \in Families : <<u, f>> \in T \ D => MayHave({x}, u, f)
      /\ \A f \in Families, t \in WorldTools : <<f, t>> \in T \ D => MayHold({x}, f, t)
  BY <1>6, DeletesTell
<1>8. WorldShape' BY <1>1, <1>3, <1>5 DEF WorldInv, WorldShape
<1>9. TuplesTell'
  <2>1. \A y \in Matrices : laid' = {y} => DesiredTuples(y) \subseteq w1.tuples BY <1>1, <1>3, <1>5, <1>6
  <2>2. QED BY <1>1, <1>3, <1>5, <1>7, <2>1 DEF TuplesTell
<1>10. SetupTells'
  <2>1. ScriptKnows(s1, w1)' BY <1>1, <1>3, <1>5, <1>6 DEF ScriptKnows
  <2>2. QED BY <1>5, <2>1 DEF SetupTells, ScriptKnows
<1>11. AnswersTell' BY <1>1 DEF WorldInv, AnswersTell
<1>12. QED BY <1>8, <1>9, <1>10, <1>11 DEF WorldInv

\* the store is there, or there is none of this name
LEMMA StoreReused ==
  ASSUME WorldInv, NEW s \in setup, NEW w \in fga,
         setup' = {[s EXCEPT !.at = "model", !.store = w.id]},
         UNCHANGED <<fga, born, ids, question, allowed, laid>>
  PROVE  WorldInv'
<1>1. w.id \in Nat /\ w.id <= born /\ s \in Setup BY DEF WorldInv, WorldShape, World
<1>2. PICK s1 \in Setup : setup' = {s1} /\ s1.at = "model" /\ s1.store = w.id
  <2> DEFINE s1 == [s EXCEPT !.at = "model", !.store = w.id]
  <2>1. s1 \in Setup /\ s1.at = "model" /\ s1.store = w.id BY <1>1 DEF Setup
  <2>2. setup' = {s1} OBVIOUS
  <2> HIDE DEF s1
  <2>3. QED BY <2>1, <2>2
<1>3. WorldShape' BY <1>1, <1>2 DEF WorldInv, WorldShape
<1>4. TuplesTell' BY DEF WorldInv, TuplesTell
<1>5. SetupTells' BY <1>2 DEF SetupTells, ScriptKnows
<1>6. AnswersTell' BY DEF WorldInv, AnswersTell
<1>7. QED BY <1>3, <1>4, <1>5, <1>6 DEF WorldInv

LEMMA StoreCreated ==
  ASSUME WorldInv, NEW s \in setup, fga = {}, NEW b, b = born + 1, born' = b,
         fga' = {[id |-> b, models |-> {}, tuples |-> {}]},
         setup' = {[s EXCEPT !.at = "model", !.store = b]},
         UNCHANGED <<ids, question, allowed, laid>>
  PROVE  WorldInv'
<1>1. b \in Nat \ {0} /\ s \in Setup BY DEF WorldInv, WorldShape
<1>2. PICK s1 \in Setup : setup' = {s1} /\ s1.at = "model" /\ s1.store = b
  <2> DEFINE s1 == [s EXCEPT !.at = "model", !.store = b]
  <2>1. s1 \in Setup /\ s1.at = "model" /\ s1.store = b BY <1>1 DEF Setup
  <2>2. setup' = {s1} OBVIOUS
  <2> HIDE DEF s1
  <2>3. QED BY <2>1, <2>2
<1>3. PICK w1 \in World : fga' = {w1} /\ w1.id = b /\ w1.models = {} /\ w1.tuples = {}
  <2> DEFINE w1 == [id |-> b, models |-> {}, tuples |-> {}]
  <2>1. w1 \in World /\ w1.id = b /\ w1.models = {} /\ w1.tuples = {} BY <1>1 DEF World
  <2>2. fga' = {w1} OBVIOUS
  <2> HIDE DEF w1
  <2>3. QED BY <2>1, <2>2
<1>4. laid' = {} /\ born \in Nat BY DEF WorldInv, WorldShape
<1>5. WorldShape' BY <1>1, <1>2, <1>3, <1>4 DEF WorldInv, WorldShape
<1>6. TuplesTell' BY <1>3, <1>4 DEF TuplesTell
<1>7. SetupTells' BY <1>2 DEF SetupTells, ScriptKnows
<1>8. AnswersTell' BY DEF WorldInv, AnswersTell
<1>9. QED BY <1>5, <1>6, <1>7, <1>8 DEF WorldInv

LEMMA FindStoreMoves == ASSUME WorldInv, FindOrCreateStore PROVE WorldInv'
<1>1. CASE \E s \in setup, w \in fga :
             /\ setup' = {[s EXCEPT !.at = "model", !.store = w.id]}
             /\ UNCHANGED <<fga, born, ids, question, allowed, laid>>
  <2>1. PICK s \in setup, w \in fga :
             /\ setup' = {[s EXCEPT !.at = "model", !.store = w.id]}
             /\ UNCHANGED <<fga, born, ids, question, allowed, laid>>
    BY <1>1, Zenon
  <2>2. QED BY <2>1, StoreReused, Zenon
<1>2. CASE \E s \in setup :
             /\ fga = {} /\ born' = born + 1
             /\ fga' = {[id |-> born', models |-> {}, tuples |-> {}]}
             /\ setup' = {[s EXCEPT !.at = "model", !.store = born']}
             /\ UNCHANGED <<ids, question, allowed, laid>>
  <2>1. PICK s \in setup, b \in {born + 1} :
             /\ fga = {} /\ b = born + 1 /\ born' = b
             /\ fga' = {[id |-> b, models |-> {}, tuples |-> {}]}
             /\ setup' = {[s EXCEPT !.at = "model", !.store = b]}
             /\ UNCHANGED <<ids, question, allowed, laid>>
    BY <1>2, Zenon
  <2>2. QED BY <2>1, StoreCreated, Zenon
<1>3. QED BY <1>1, <1>2, Zenon DEF FindOrCreateStore

\* the model of the shape asked for is there, or it is added
LEMMA FindModelMoves == ASSUME WorldInv, FindOrCreateModel PROVE WorldInv'
<1>1. PICK s \in setup, w \in fga :
        /\ w \in Own(s) /\ s.at = "model"
        /\ \/ \E k \in w.models :
                /\ k.shape = s.shape
                /\ setup' = {[s EXCEPT !.at = "write", !.model = k.id]}
                /\ UNCHANGED <<fga, born>>
           \/ /\ ~\E k \in w.models : k.shape = s.shape
              /\ born < MaxIds
              /\ born' = born + 1
              /\ fga' = {[w EXCEPT !.models = @ \cup {[id |-> born', shape |-> s.shape]}]}
              /\ setup' = {[s EXCEPT !.at = "write", !.model = born']}
        /\ UNCHANGED <<ids, question, allowed, laid>>
  BY Zenon DEF FindOrCreateModel, Own
<1>2. w \in Own(s) /\ s.at = "model" /\ UNCHANGED <<ids, question, allowed, laid>> BY <1>1, Zenon
<1>3. /\ w \in fga /\ w.id = s.store /\ w \in World /\ s \in Setup /\ born \in Nat /\ laid \subseteq Matrices
      /\ \A v \in fga : v = w
  BY <1>2 DEF Own, WorldInv, WorldShape
<1>4. AnswersTell' BY <1>2 DEF WorldInv, AnswersTell
<1>5. CASE \E k \in w.models : setup' = {[s EXCEPT !.at = "write", !.model = k.id]} /\ UNCHANGED <<fga, born>>
  <2>1. PICK k \in w.models : setup' = {[s EXCEPT !.at = "write", !.model = k.id]} /\ UNCHANGED <<fga, born>>
    BY <1>5, Zenon
  <2>2. PICK s1 \in Setup : setup' = {s1} /\ s1.at = "write" /\ s1.store = s.store
    <3> DEFINE s1 == [s EXCEPT !.at = "write", !.model = k.id]
    <3>1. k.id \in Nat BY <1>3 DEF World
    <3>2. s1 \in Setup /\ s1.at = "write" /\ s1.store = s.store BY <1>3, <3>1 DEF Setup
    <3>3. setup' = {s1} BY <2>1
    <3> HIDE DEF s1
    <3>4. QED BY <3>2, <3>3
  <2>3. WorldShape' BY <1>2, <2>1, <2>2 DEF WorldInv, WorldShape
  <2>4. TuplesTell' BY <1>2, <2>1 DEF WorldInv, TuplesTell
  <2>5. SetupTells' BY <2>2 DEF SetupTells, ScriptKnows
  <2>6. QED BY <1>4, <2>3, <2>4, <2>5 DEF WorldInv
<1>6. CASE /\ ~\E k \in w.models : k.shape = s.shape
           /\ born' = born + 1
           /\ fga' = {[w EXCEPT !.models = @ \cup {[id |-> born', shape |-> s.shape]}]}
           /\ setup' = {[s EXCEPT !.at = "write", !.model = born']}
  <2>1. PICK b \in Nat : b = born + 1 /\ born' = b BY <1>3, <1>6
  <2>2. PICK s1 \in Setup : setup' = {s1} /\ s1.at = "write" /\ s1.store = s.store
    <3> DEFINE s1 == [s EXCEPT !.at = "write", !.model = b]
    <3>1. s1 \in Setup /\ s1.at = "write" /\ s1.store = s.store BY <1>3 DEF Setup
    <3>2. setup' = {s1} BY <1>6, <2>1
    <3> HIDE DEF s1
    <3>3. QED BY <3>1, <3>2
  <2>3. PICK n \in [id : Nat, shape : Models] : n = [id |-> b, shape |-> s.shape] /\ n.shape = s.shape
    <3> DEFINE n0 == [id |-> b, shape |-> s.shape]
    <3>1. n0 \in [id : Nat, shape : Models] /\ n0 = [id |-> b, shape |-> s.shape] /\ n0.shape = s.shape
      BY <1>3 DEF Setup
    <3> HIDE DEF n0
    <3>2. QED BY <3>1
  <2>4. PICK w1 \in World : fga' = {w1} /\ w1.id = w.id /\ w1.tuples = w.tuples /\ w1.models = w.models \cup {n}
    <3> DEFINE w1 == [w EXCEPT !.models = @ \cup {n}]
    <3>1. w1 \in World /\ w1.id = w.id /\ w1.tuples = w.tuples /\ w1.models = w.models \cup {n}
      BY <1>3 DEF World
    <3>2. fga' = {w1} BY <1>6, <2>1, <2>3
    <3> HIDE DEF w1
    <3>3. QED BY <3>1, <3>2
  <2>5. \A k, l \in w1.models : k.shape = l.shape => k = l
    BY <1>3, <1>6, <2>3, <2>4 DEF WorldInv, WorldShape
  <2>6. w1.id <= born' /\ s1.store <= born' BY <1>3, <2>1, <2>2, <2>4 DEF WorldInv, WorldShape, World, Setup
  <2>7. WorldShape' BY <1>2, <1>3, <2>1, <2>2, <2>4, <2>5, <2>6 DEF WorldShape
  <2>8. TuplesTell' BY <1>2, <1>3, <2>4 DEF WorldInv, TuplesTell
  <2>9. SetupTells' BY <2>2 DEF SetupTells, ScriptKnows
  <2>10. QED BY <1>4, <2>7, <2>8, <2>9 DEF WorldInv
<1>7. QED BY <1>1, <1>5, <1>6, Zenon

\* a setup begins or ends, OpenFGA restarts
LEMMA ScriptComesAndGoes ==
  ASSUME WorldInv, Restart \/ SetupStart \/ SetupExit \/ SelfCheck
  PROVE  WorldInv'
<1>1. AnswersTell'
  <2>1. UNCHANGED <<question, allowed>> BY DEF Restart, SetupStart, SetupExit, SelfCheck
  <2>2. QED BY <2>1 DEF WorldInv, AnswersTell
<1>2. CASE Restart
  <2>1. fga' = {} /\ laid' = {} /\ UNCHANGED <<setup, born>> BY <1>2 DEF Restart
  <2>2. QED BY <1>1, <2>1 DEF WorldInv, WorldShape, TuplesTell, SetupTells
<1>3. CASE SetupStart
  <2>1. PICK x \in Matrices, m \in Models :
          setup' = {[at |-> "store", matrix |-> x, shape |-> m, store |-> 0, model |-> 0, deletes |-> {}]}
    BY <1>3, Zenon DEF SetupStart
  <2>2. UNCHANGED <<fga, laid, born>> BY <1>3 DEF SetupStart
  <2>3. PICK s1 \in Setup : setup' = {s1} /\ s1.at = "store" /\ s1.store = 0
    <3> DEFINE s1 == [at |-> "store", matrix |-> x, shape |-> m, store |-> 0, model |-> 0, deletes |-> {}]
    <3>1. s1 \in Setup /\ s1.at = "store" /\ s1.store = 0 BY DEF Setup
    <3>2. setup' = {s1} BY <2>1
    <3> HIDE DEF s1
    <3>3. QED BY <3>1, <3>2
  <2>4. WorldShape' /\ TuplesTell' BY <2>2, <2>3 DEF WorldInv, WorldShape, TuplesTell
  <2>5. SetupTells' BY <2>3 DEF SetupTells, ScriptKnows
  <2>6. QED BY <1>1, <2>4, <2>5 DEF WorldInv
<1>4. CASE SetupExit \/ SelfCheck
  <2>1. setup' = {} /\ UNCHANGED <<fga, laid, born>> BY <1>4 DEF SetupExit, SelfCheck
  <2>2. QED BY <1>1, <2>1 DEF WorldInv, WorldShape, TuplesTell, SetupTells
<1>5. QED BY <1>2, <1>3, <1>4

\* the questions and their answers
LEMMA QuestionsMove == ASSUME WorldInv, Ask \/ Answer \/ Unanswered PROVE WorldInv'
<1>1. UNCHANGED <<fga, setup, laid, born>> BY DEF Ask, Answer, Unanswered
<1>2. WorldShape' /\ TuplesTell' /\ SetupTells'
  BY <1>1 DEF WorldInv, WorldShape, TuplesTell, SetupTells, ScriptKnows
<1>3. AnswersTell'
  <2>1. CASE Ask
    <3>1. PICK i \in ids, u \in Users, t \in WorldTools : question' = {[ids |-> i, user |-> u, tool |-> t]}
      BY <2>1, Zenon DEF Ask
    <3>2. allowed' = {} BY <2>1 DEF Ask
    <3>3. QED BY <3>1, <3>2 DEF AnswersTell
  <2>2. CASE Answer
    <3>1. PICK q \in question :
            /\ IF Check(q.ids.store, q.ids.model, q.user, q.tool)
               THEN allowed' = {[user |-> q.user, tool |-> q.tool, laid |-> laid]}
               ELSE UNCHANGED allowed
            /\ question' = {}
      BY <2>2, Zenon DEF Answer
    <3>2. CASE ~Check(q.ids.store, q.ids.model, q.user, q.tool)
      BY <3>1, <3>2 DEF WorldInv, AnswersTell
    <3>3. CASE Check(q.ids.store, q.ids.model, q.user, q.tool)
      <4>1. q.user \in Users /\ q.tool \in WorldTools BY DEF WorldInv, AnswersTell
      <4>2. PICK w \in fga, f \in Families : {<<q.user, f>>, <<f, q.tool>>} \subseteq w.tuples
        BY <3>3 DEF Check
      <4>3. MayHave(laid, q.user, f) /\ MayHold(laid, f, q.tool)
        BY <4>1, <4>2 DEF WorldInv, TuplesTell
      <4>4. PICK a : a = [user |-> q.user, tool |-> q.tool, laid |-> laid] OBVIOUS
      <4>5. allowed' = {a} /\ a.user = q.user /\ a.tool = q.tool /\ a.laid = laid BY <3>1, <3>3, <4>4
      <4>6. QED BY <3>1, <4>3, <4>5 DEF AnswersTell, MayHave, MayHold
    <3>4. QED BY <3>2, <3>3
  <2>3. CASE Unanswered
    <3>1. question' = {} /\ UNCHANGED allowed BY <2>3 DEF Unanswered
    <3>2. QED BY <3>1 DEF WorldInv, AnswersTell
  <2>4. QED BY <2>1, <2>2, <2>3
<1>4. QED BY <1>2, <1>3 DEF WorldInv

LEMMA WorldStep == ASSUME WorldInv, [Next]_vars PROVE WorldInv'
<1>1. [AuthNext]_authVars BY DEF Next, OthersStill, vars
<1>2. CASE UNCHANGED authVars
  BY <1>2 DEF authVars, WorldInv, WorldShape, TuplesTell, SetupTells, ScriptKnows, AnswersTell
<1>3. CASE AuthNext
  BY <1>3, SyncWritesMove, SyncDeletesMove, FindStoreMoves, FindModelMoves, ScriptComesAndGoes,
     QuestionsMove DEF AuthNext
<1>4. QED BY <1>1, <1>2, <1>3

\* under one matrix alone, OpenFGA answers what it grants to those it names
LEMMA AnswersByMatrix ==
  ASSUME WorldInv, NEW x \in laid, NEW i \in ids, NEW u \in Users, NEW t \in WorldTools,
         laid = {x}, u \in Rows(x), Knows(i.store, i.model)
  PROVE  Check(i.store, i.model, u, t) <=> MatrixAllows(x, u, t)
<1>1. x \in Matrices BY DEF WorldInv, WorldShape
<1>2. ASSUME Check(i.store, i.model, u, t) PROVE MatrixAllows(x, u, t)
  <2>1. PICK w \in fga, f \in Families : {<<u, f>>, <<f, t>>} \subseteq w.tuples BY <1>2 DEF Check
  <2>2. MayHave(laid, u, f) /\ MayHold(laid, f, t) BY <2>1 DEF WorldInv, TuplesTell
  <2>3. f \in x.families[u] BY <2>2 DEF MayHave
  <2>4. f \in Cols(x) BY <1>1, <2>3, AuthAssumption DEF Rows, Cols
  <2>5. t \in x.tools[f] BY <2>2, <2>4 DEF MayHold
  <2>6. QED BY <2>3, <2>4, <2>5 DEF MatrixAllows
<1>3. ASSUME MatrixAllows(x, u, t) PROVE Check(i.store, i.model, u, t)
  <2>1. PICK f \in x.families[u] \cap Cols(x) : t \in x.tools[f] BY <1>3 DEF MatrixAllows
  <2>2. f \in Families BY <1>1, <2>1, AuthAssumption DEF Cols
  <2>3. <<u, f>> \in DesiredTuples(x) /\ <<f, t>> \in DesiredTuples(x) BY <1>1, <2>1, <2>2, DesiredHalves
  <2>4. PICK w \in fga : w.id = i.store BY DEF Knows
  <2>5. DesiredTuples(x) \subseteq w.tuples BY <1>1 DEF WorldInv, TuplesTell
  <2>6. QED BY <2>2, <2>3, <2>4, <2>5 DEF Check
<1>4. QED BY <1>2, <1>3

\* For any matrices, restarts of OpenFGA and setups broken off anywhere: a world that is
\* set up answers what its matrix grants, and a yes in between rests on what the matrices
\* laid by then allow (setup_openfga.py).
THEOREM WorldAnswersHolds == Spec => []WorldAnswers
<1>1. Init => WorldInv BY WorldInitial DEF Init
<1>2. WorldInv /\ [Next]_vars => WorldInv' BY WorldStep
<1>3. ASSUME WorldInv PROVE WorldAnswers
  <2>1. \A x \in laid, i \in ids, u \in Users, t \in WorldTools :
          laid = {x} /\ u \in Rows(x) /\ Knows(i.store, i.model)
            => (Check(i.store, i.model, u, t) <=> MatrixAllows(x, u, t))
    BY <1>3, AnswersByMatrix
  <2>2. Cardinality(fga) <= 1
    <3>1. CASE fga = {} BY <3>1, FS_EmptySet
    <3>2. CASE fga # {}
      <4>1. PICK w \in fga : TRUE BY <3>2
      <4>2. fga = {w} BY <1>3, <4>1 DEF WorldInv, WorldShape
      <4>3. Cardinality({w}) = 1 BY FS_Singleton, Zenon
      <4>4. QED BY <4>2, <4>3
    <3>3. QED BY <3>1, <3>2
  <2>3. \A a \in allowed : \E f \in Families : MayHave(a.laid, a.user, f) /\ MayHold(a.laid, f, a.tool)
    BY <1>3 DEF WorldInv, AnswersTell
  <2>4. \A w \in fga : \A k, l \in w.models : k.shape = l.shape => k = l
    BY <1>3 DEF WorldInv, WorldShape
  <2>5. QED BY <2>1, <2>2, <2>3, <2>4 DEF WorldAnswers
<1>4. QED BY <1>1, <1>2, <1>3, PTL DEF Spec

-----------------------------------------------------------------------------
(* The first agent: what a process is told is clean, and of the memory file *)
(* too what its seal does not already give away; a call that goes beyond    *)
(* the gate is within what the round's message asks for                     *)

Says == {"pii", "shape", "intent", "card"}
Hands == {"none", "plain", "resealed", "unsealed"}
Msgs == [by : {"human", "tool", "ai"}, says : Says, hand : Hands]
ShellCalls == [tool : ShellTools, target : {"named", "other", "none"}, ran : BOOLEAN]
Shell == [at : {"off", "ready", "round", "judge", "run", "audit"}, task : SUBSET TaskKinds, exp : Nat,
          call : SUBSET ShellCalls, context : SUBSET Msgs]
Memory == [sealed : BOOLEAN, right : BOOLEAN, msgs : SUBSET Msgs]

\* what a process may be told
Clean(x) ==
  /\ x.hand # "plain"
  /\ x.hand = "resealed" /\ x.by = "human" => x.says # "shape"
  /\ x.hand = "none" => x.says \notin {"shape", "card"}

\* what may lie in a file: a message of the agent's own is clean, a hash is right only if
\* every message has its own, and without hashes there is none
MayLie(m, x) ==
  /\ x.hand = "none" => x.says \notin {"shape", "card"}
  /\ m.sealed /\ m.right => x.hand # "plain" /\ x.says # "pii"
  /\ ~m.sealed => x.hand \in {"none", "unsealed"}

\* what the task allows
Within(c, t) ==
  /\ c.tool \in InferScope(t)
  /\ c.tool \in DESTRUCTIVE_TOOLS /\ c.target # "none" => t.named /\ c.target = "named"

ShellTells(g) ==
  /\ \A x \in g.context : Clean(x)
  /\ \A t, u \in g.task : t = u
  /\ g.at \in {"off", "ready", "round"} => g.call = {}
  /\ \A c \in g.call, t \in g.task : c.ran \/ g.at \in {"judge", "run"} => Within(c, t)

StarterInv ==
  /\ clock \in Nat
  /\ shell \in [Shells -> Shell]
  /\ memory \subseteq Memory
  /\ \A a \in Shells : ShellTells(shell[a])
  /\ \A m \in memory : \A x \in m.msgs : MayLie(m, x)

LEMMA StarterInitial == ASSUME StarterInit PROVE StarterInv
BY DEF StarterInit, StarterInv, Off, Shell, ShellTells

\* one process moves
LEMMA OneShellMoves ==
  ASSUME StarterInv, NEW a \in Shells, NEW g \in Shell, shell' = [shell EXCEPT ![a] = g], ShellTells(g),
         UNCHANGED <<clock, memory>>
  PROVE  StarterInv'
<1>1. shell' \in [Shells -> Shell] BY DEF StarterInv
<1>2. ASSUME NEW b \in Shells PROVE ShellTells(shell'[b])
  BY DEF StarterInv
<1>3. QED BY <1>1, <1>2 DEF StarterInv

LEMMA LoadedClean ==
  ASSUME NEW m \in Memory, \A x \in m.msgs : MayLie(m, x), NEW c \in LoadedFrom(m)
  PROVE  c \in SUBSET Msgs /\ \A x \in c : Clean(x)
<1>1. CASE c = {} BY <1>1
<1>2. CASE /\ c = m.msgs
           /\ m.sealed => m.right /\ ~\E x \in m.msgs : x.by = "human" /\ x.says = "shape"
  BY <1>2 DEF Memory, Msgs, MayLie, Clean
<1>3. QED BY <1>1, <1>2 DEF LoadedFrom

LEMMA LoadMoves == ASSUME StarterInv, NEW a \in Shells, LoadMemory(a) PROVE StarterInv'
<1>1. PICK c : /\ c \in IF memory = {} THEN {{}} ELSE UNION {LoadedFrom(m) : m \in memory}
               /\ Moves(a, "off", [Off EXCEPT !.at = "ready", !.context = c])
               /\ UNCHANGED <<clock, memory, said, edits>>
  BY Zenon DEF LoadMemory
<1>2. c \in SUBSET Msgs /\ \A x \in c : Clean(x)
  <2>1. CASE memory = {} BY <1>1, <2>1
  <2>2. CASE memory # {}
    <3>1. PICK m \in memory : c \in LoadedFrom(m) BY <1>1, <2>2
    <3>2. QED BY <3>1, LoadedClean DEF StarterInv
  <2>3. QED BY <2>1, <2>2
<1> DEFINE g == [Off EXCEPT !.at = "ready", !.context = c]
<1>3. g \in Shell BY <1>2 DEF Off, Shell
<1>4. ShellTells(g) BY <1>2 DEF Off, ShellTells
<1>5. shell' = [shell EXCEPT ![a] = g] /\ UNCHANGED <<clock, memory>> BY <1>1 DEF Moves
<1> HIDE DEF g
<1>6. QED BY <1>3, <1>4, <1>5, OneShellMoves

LEMMA OffTells == Off \in Shell /\ ShellTells(Off)
BY DEF Off, Shell, ShellTells

LEMMA SaveMoves == ASSUME StarterInv, NEW a \in Shells, SaveMemory(a) PROVE StarterInv'
<1>1. shell' = [shell EXCEPT ![a] = Off] /\ clock' = clock BY DEF SaveMemory, Moves
<1>2. shell' \in [Shells -> Shell] /\ \A b \in Shells : ShellTells(shell'[b])
  BY <1>1, OffTells DEF StarterInv
<1>3. shell[a] \in Shell /\ ShellTells(shell[a]) BY DEF StarterInv
<1> DEFINE C == Sanitized(shell[a].context)
<1>4. C \in SUBSET Msgs /\ \A x \in C : Clean(x) /\ x.says # "pii"
  BY <1>3 DEF Shell, ShellTells, Sanitized
<1>5. memory' = {[sealed |-> TRUE, right |-> TRUE, msgs |-> C]} BY DEF SaveMemory
<1> HIDE DEF C
<1>6. memory' \subseteq Memory /\ \A m \in memory' : \A x \in m.msgs : MayLie(m, x)
  BY <1>4, <1>5 DEF Memory, MayLie, Clean
<1>7. QED BY <1>1, <1>2, <1>6 DEF StarterInv

LEMMA KilledMoves == ASSUME StarterInv, NEW a \in Shells, Killed(a) PROVE StarterInv'
BY OffTells, OneShellMoves DEF Killed

LEMMA SayMoves ==
  ASSUME StarterInv, NEW a \in Shells, NEW task \in TaskKinds, NEW says \in {"pii", "shape", "intent"},
         Say(a, task, says)
  PROVE  StarterInv'
<1> DEFINE m == Message("human", says, "none")
           g == [shell[a] EXCEPT !.at = "round", !.task = {task}, !.exp = clock + TOKEN_LIFE,
                                 !.context = @ \cup {m}]
           h == [shell[a] EXCEPT !.at = "round", !.task = {task}, !.context = @ \cup {m}]
<1>1. shell[a] \in Shell /\ ShellTells(shell[a]) /\ clock \in Nat /\ shell[a].at = "ready" /\ says # "shape"
  BY DEF StarterInv, Say, Moves
<1>2. m \in Msgs /\ Clean(m) BY <1>1 DEF Message, Msgs, Hands, Says, Clean
<1>3. shell' = [shell EXCEPT ![a] = g] /\ UNCHANGED <<clock, memory>> BY DEF Say, Moves
<1> HIDE DEF m
<1>4. g \in Shell
  <2>1. h \in Shell BY <1>1, <1>2 DEF Shell
  <2>2. clock + TOKEN_LIFE \in Nat BY <1>1, StarterAssumption
  <2>3. g = [h EXCEPT !.exp = clock + TOKEN_LIFE] BY <1>1 DEF Shell
  <2> HIDE DEF g, h
  <2>4. QED BY <2>1, <2>2, <2>3 DEF Shell
<1>5. ShellTells(g)
  <2>1. g.context = shell[a].context \cup {m} /\ g.task = {task} /\ g.call = {} /\ g.at = "round"
    BY <1>1 DEF Shell, ShellTells
  <2> HIDE DEF g, h
  <2>2. QED BY <1>1, <1>2, <2>1 DEF ShellTells
<1> HIDE DEF g
<1>6. QED BY <1>3, <1>4, <1>5, OneShellMoves

\* the gate lets by what the round asks for
LEMMA CallMoves ==
  ASSUME StarterInv, NEW a \in Shells, NEW tool \in ShellTools, NEW target \in {"named", "other", "none"},
         Call(a, tool, target)
  PROVE  StarterInv'
<1> DEFINE c == [tool |-> tool, target |-> target, ran |-> FALSE]
<1>1. shell[a] \in Shell /\ ShellTells(shell[a]) /\ shell[a].at = "round" BY DEF StarterInv, Call, Moves
<1>2. PICK next \in {"audit", "run", "judge"} :
        /\ shell' = [shell EXCEPT ![a] = [shell[a] EXCEPT !.at = next, !.call = {c}]]
        /\ next # "audit" => \A t \in shell[a].task : Within(c, t)
  <2> DEFINE named == target = "none" \/ (target = "named" /\ \E t \in shell[a].task : t.named)
             n == IF ~VerifyTaskToken(shell[a], tool) THEN "audit"
                  ELSE IF tool \notin DESTRUCTIVE_TOOLS THEN "run"
                  ELSE IF named THEN "judge" ELSE "audit"
  <2>1. n \in {"audit", "run", "judge"} OBVIOUS
  <2>2. shell' = [shell EXCEPT ![a] = [shell[a] EXCEPT !.at = n, !.call = {c}]] BY DEF Call, Moves
  <2>3. ASSUME n # "audit", NEW t \in shell[a].task PROVE Within(c, t)
    <3>1. \A u \in shell[a].task : u = t BY <1>1 DEF ShellTells
    <3>2. tool \in InferScope(t) BY <2>3, <3>1 DEF VerifyTaskToken
    <3>3. tool \in DESTRUCTIVE_TOOLS => named BY <2>3
    <3>4. QED BY <3>1, <3>2, <3>3 DEF Within
  <2> HIDE DEF n
  <2>4. QED BY <2>1, <2>2, <2>3
<1>3. c \in ShellCalls BY DEF ShellCalls
<1> HIDE DEF c
<1> DEFINE g == [shell[a] EXCEPT !.at = next, !.call = {c}]
<1>4. g \in Shell BY <1>1, <1>3 DEF Shell
<1>5. ShellTells(g)
  <2>1. g.context = shell[a].context /\ g.task = shell[a].task /\ g.call = {c} /\ g.at = next BY <1>1 DEF Shell
  <2>2. c.ran = FALSE BY DEF c
  <2> HIDE DEF g
  <2>3. QED BY <1>1, <1>2, <2>1, <2>2 DEF ShellTells
<1> HIDE DEF g
<1>6. shell' = [shell EXCEPT ![a] = g] /\ UNCHANGED <<clock, memory>> BY <1>2 DEF g, Call
<1>7. QED BY <1>4, <1>5, <1>6, OneShellMoves

LEMMA JudgeMoves == ASSUME StarterInv, NEW a \in Shells, Judge(a) PROVE StarterInv'
<1>1. PICK next \in {"run", "audit"} : shell' = [shell EXCEPT ![a] = [shell[a] EXCEPT !.at = next]]
  BY DEF Judge, Moves
<1>2. shell[a] \in Shell /\ ShellTells(shell[a]) /\ shell[a].at = "judge" BY DEF StarterInv, Judge, Moves
<1> DEFINE g == [shell[a] EXCEPT !.at = next]
<1>3. g \in Shell /\ ShellTells(g)
  <2>1. /\ g.context = shell[a].context /\ g.task = shell[a].task /\ g.call = shell[a].call /\ g.at = next
        /\ g \in Shell
    BY <1>2 DEF Shell
  <2> HIDE DEF g
  <2>2. QED BY <1>2, <2>1 DEF ShellTells
<1>4. shell' = [shell EXCEPT ![a] = g] /\ UNCHANGED <<clock, memory>> BY <1>1 DEF Judge
<1> HIDE DEF g
<1>5. QED BY <1>3, <1>4, OneShellMoves

\* what the tool says is kept from the model if the classifier knows it
LEMMA RunToolMoves ==
  ASSUME StarterInv, NEW a \in Shells, NEW says \in {"pii", "shape", "intent"}, RunTool(a, says)
  PROVE  StarterInv'
<1>1. shell[a] \in Shell /\ ShellTells(shell[a]) /\ shell[a].at = "run" BY DEF StarterInv, RunTool, Moves
<1>2. PICK kept \in SUBSET Msgs :
        /\ \A x \in kept : Clean(x)
        /\ shell' = [shell EXCEPT ![a] = [shell[a] EXCEPT !.at = "audit", !.context = @ \cup kept,
                                             !.call = {[c EXCEPT !.ran = TRUE] : c \in @}]]
  <2> DEFINE m == {Message("tool", says, "none")}
  <2>1. PICK kept \in {{}, m} :
          /\ kept = m => says # "shape"
          /\ shell' = [shell EXCEPT ![a] = [shell[a] EXCEPT !.at = "audit", !.context = @ \cup kept,
                                             !.call = {[c EXCEPT !.ran = TRUE] : c \in @}]]
    BY Zenon DEF RunTool, Moves
  <2>2. m \in SUBSET Msgs /\ (says # "shape" => \A x \in m : Clean(x))
    BY DEF Message, Msgs, Hands, Says, Clean
  <2>3. QED BY <2>1, <2>2, Zenon
<1> DEFINE C == {[c EXCEPT !.ran = TRUE] : c \in shell[a].call}
           g == [shell[a] EXCEPT !.at = "audit", !.context = @ \cup kept, !.call = C]
<1>3. C \in SUBSET ShellCalls /\ \A t \in shell[a].task, c \in C : Within(c, t)
  <2>1. ASSUME NEW d \in shell[a].call
        PROVE  /\ [d EXCEPT !.ran = TRUE] \in ShellCalls
               /\ \A t \in shell[a].task : Within([d EXCEPT !.ran = TRUE], t)
    <3>1. d \in ShellCalls BY <1>1, <2>1 DEF Shell
    <3>2. \A t \in shell[a].task : Within(d, t) BY <1>1, <2>1 DEF ShellTells
    <3> DEFINE e == [d EXCEPT !.ran = TRUE]
    <3>3. e \in ShellCalls /\ e.tool = d.tool /\ e.target = d.target BY <3>1 DEF ShellCalls
    <3> HIDE DEF e
    <3>4. \A t \in shell[a].task : Within(e, t) BY <3>2, <3>3 DEF Within
    <3>5. QED BY <3>3, <3>4 DEF e
  <2>2. QED BY <2>1, Zenon
<1>4. shell' = [shell EXCEPT ![a] = g] /\ UNCHANGED <<clock, memory>> BY <1>2, Zenon DEF RunTool
<1> HIDE DEF C
<1>5. g \in Shell BY <1>1, <1>2, <1>3 DEF Shell
<1>6. ShellTells(g)
  <2>1. g.context = shell[a].context \cup kept /\ g.task = shell[a].task /\ g.call = C /\ g.at = "audit"
    BY <1>1 DEF Shell
  <2> HIDE DEF g
  <2>2. QED BY <1>1, <1>2, <1>3, <2>1 DEF ShellTells
<1> HIDE DEF g
<1>7. QED BY <1>4, <1>5, <1>6, OneShellMoves

LEMMA AuditedMoves == ASSUME StarterInv, NEW a \in Shells, Audited(a) PROVE StarterInv'
<1> DEFINE g == [shell[a] EXCEPT !.at = "round", !.call = {}]
<1>1. shell[a] \in Shell /\ ShellTells(shell[a]) BY DEF StarterInv
<1>2. g \in Shell /\ ShellTells(g)
  <2>1. /\ g.context = shell[a].context /\ g.task = shell[a].task /\ g.call = {} /\ g.at = "round"
        /\ g \in Shell
    BY <1>1 DEF Shell
  <2> HIDE DEF g
  <2>2. QED BY <1>1, <2>1 DEF ShellTells
<1>3. shell' = [shell EXCEPT ![a] = g] /\ UNCHANGED <<clock, memory>> BY DEF Audited, Moves
<1> HIDE DEF g
<1>4. QED BY <1>2, <1>3, OneShellMoves

LEMMA ReplyMoves ==
  ASSUME StarterInv, NEW a \in Shells, NEW says \in {"pii", "card"}, Reply(a, says)
  PROVE  StarterInv'
<1> DEFINE kept == {Message("ai", says, "none")} \ {Message("ai", "card", "none")}
           g == [shell[a] EXCEPT !.at = "ready", !.task = {}, !.exp = 0, !.context = @ \cup kept]
<1>1. shell[a] \in Shell /\ ShellTells(shell[a]) /\ shell[a].at = "round" BY DEF StarterInv, Reply, Moves
<1>2. kept \in SUBSET Msgs /\ \A x \in kept : Clean(x) BY DEF Message, Msgs, Hands, Says, Clean
<1>3. shell' = [shell EXCEPT ![a] = g] /\ UNCHANGED <<clock, memory>> BY DEF Reply, Moves
<1> HIDE DEF kept
<1>4. g \in Shell BY <1>1, <1>2 DEF Shell
<1>5. ShellTells(g)
  <2>1. g.context = shell[a].context \cup kept /\ g.task = {} /\ g.call = {} /\ g.at = "ready"
    BY <1>1 DEF Shell, ShellTells
  <2> HIDE DEF g
  <2>2. QED BY <1>1, <1>2, <2>1 DEF ShellTells
<1> HIDE DEF g
<1>6. QED BY <1>3, <1>4, <1>5, OneShellMoves

\* an edit leaves the file as its seal tells
LEMMA EditMoves ==
  ASSUME StarterInv, NEW by \in {"human", "tool"}, NEW says \in {"shape", "intent"},
         NEW hand \in {"plain", "resealed", "unsealed"}, EditMemory(by, says, hand)
  PROVE  StarterInv'
<1>1. clock \in Nat /\ UNCHANGED <<clock, shell>> BY DEF StarterInv, EditMemory
<1>2. PICK m \in memory :
        LET sealed == m.sealed /\ hand # "unsealed"
            how == IF sealed THEN hand ELSE "unsealed"
            kept == IF sealed THEN m.msgs
                    ELSE {IF x.hand = "none" THEN x ELSE [x EXCEPT !.hand = "unsealed"] : x \in m.msgs}
        IN memory' = {[sealed |-> sealed, right |-> m.right /\ hand # "plain",
                       msgs |-> kept \cup {Message(by, says, how)}]}
  BY Zenon DEF EditMemory
<1>3. m \in Memory /\ \A x \in m.msgs : MayLie(m, x) BY DEF StarterInv
<1> DEFINE sealed == m.sealed /\ hand # "unsealed"
           right == m.right /\ hand # "plain"
           how == IF sealed THEN hand ELSE "unsealed"
           new == Message(by, says, how)
           kept == IF sealed THEN m.msgs
                   ELSE {IF x.hand = "none" THEN x ELSE [x EXCEPT !.hand = "unsealed"] : x \in m.msgs}
           M == [sealed |-> sealed, right |-> right, msgs |-> kept \cup {new}]
<1>4. memory' = {M} BY <1>2, Zenon
<1>5. sealed \in BOOLEAN /\ right \in BOOLEAN BY <1>3 DEF Memory
<1>6. new \in Msgs BY DEF Message, Msgs, Hands, Says
<1>7. kept \in SUBSET Msgs /\ \A x \in kept : MayLie(M, x)
  <2>1. CASE sealed BY <1>3, <2>1 DEF Memory, MayLie
  <2>2. CASE ~sealed BY <1>3, <2>2 DEF Memory, Msgs, Hands, MayLie
  <2>3. QED BY <2>1, <2>2
<1>8. MayLie(M, new) BY <1>3 DEF Message, MayLie
<1>9. M \in Memory BY <1>5, <1>6, <1>7 DEF Memory
<1>10. \A x \in M.msgs : MayLie(M, x) BY <1>7, <1>8
<1> HIDE DEF M
<1>11. memory' \subseteq Memory /\ \A k \in memory' : \A x \in k.msgs : MayLie(k, x) BY <1>4, <1>9, <1>10
<1>12. QED BY <1>1, <1>11 DEF StarterInv

LEMMA StarterMoves == ASSUME StarterInv, StarterNext PROVE StarterInv'
<1>1. CASE Tick BY <1>1 DEF Tick, StarterInv
<1>2. CASE \E by \in {"human", "tool"}, says \in {"shape", "intent"}, hand \in {"plain", "resealed", "unsealed"} :
             EditMemory(by, says, hand)
  BY <1>2, EditMoves
<1>3. ASSUME NEW a \in Shells,
             \/ LoadMemory(a) \/ SaveMemory(a) \/ Killed(a)
             \/ \E task \in TaskKinds, says \in {"pii", "shape", "intent"} : Say(a, task, says)
             \/ \E tool \in ShellTools, target \in {"named", "other", "none"} : Call(a, tool, target)
             \/ Judge(a) \/ Audited(a)
             \/ \E says \in {"pii", "shape", "intent"} : RunTool(a, says)
             \/ \E says \in {"pii", "card"} : Reply(a, says)
      PROVE  StarterInv'
  BY <1>3, LoadMoves, SaveMoves, KilledMoves, SayMoves, CallMoves, JudgeMoves, AuditedMoves, RunToolMoves, ReplyMoves,
     Zenon
<1>4. QED BY <1>1, <1>2, <1>3, Zenon DEF StarterNext

LEMMA StarterStep == ASSUME StarterInv, [Next]_vars PROVE StarterInv'
<1>1. [StarterNext]_starterVars BY DEF Next, OthersStill, vars
<1>2. CASE UNCHANGED starterVars BY <1>2 DEF starterVars, StarterInv
<1>3. QED BY <1>1, <1>2, StarterMoves

\* For any processes, edits of the memory file and calls of the model: what a process is
\* told was vetted, and a tool that ran was asked for (agent.py:282-331, 420-516).
THEOREM OnlyVettedHolds == Spec => []OnlyVetted
<1>1. Init => StarterInv BY StarterInitial DEF Init
<1>2. StarterInv /\ [Next]_vars => StarterInv' BY StarterStep
<1>3. StarterInv => OnlyVetted
  BY DEF StarterInv, ShellTells, Clean, MayLie, Within, OnlyVetted
<1>4. QED BY <1>1, <1>2, <1>3, PTL DEF Spec

-----------------------------------------------------------------------------
(* The evidence of a hunt: the bag of a plan tells it but for its order     *)

\* where in a sequence the elements of a set stand
PlacesOf(s, X) == {i \in DOMAIN s : s[i] \in X}
Often(s, x) == Cardinality(PlacesOf(s, {x}))

LEMMA AtIsFinite ==
  ASSUME NEW T, NEW s \in Seq(T), NEW X
  PROVE  IsFiniteSet(PlacesOf(s, X)) /\ Cardinality(PlacesOf(s, X)) \in Nat
<1>1. DOMAIN s = 1 .. Len(s) /\ Len(s) \in Nat OBVIOUS
<1>2. IsFiniteSet(DOMAIN s) BY <1>1, FS_Interval
<1>3. QED BY <1>2, FS_Subset, FS_CardinalityType DEF PlacesOf

\* two sequences in which every element of a finite set occurs equally often hold equally
\* many places of that set: of the sets for which it fails one has the fewest elements
LEMMA PlacesAgree ==
  ASSUME NEW T, NEW p \in Seq(T), NEW q \in Seq(T), NEW R, IsFiniteSet(R),
         \A x \in R : Often(p, x) = Often(q, x)
  PROVE  Cardinality(PlacesOf(p, R)) = Cardinality(PlacesOf(q, R))
<1> DEFINE Bad == {X \in SUBSET R : Cardinality(PlacesOf(p, X)) # Cardinality(PlacesOf(q, X))}
           Sizes == {Cardinality(X) : X \in Bad}
<1> SUFFICES ASSUME Bad # {} PROVE FALSE OBVIOUS
<1>1. \A X \in SUBSET R : IsFiniteSet(X) /\ Cardinality(X) \in Nat BY FS_Subset, FS_CardinalityType
<1>2. Sizes \subseteq Nat /\ Sizes # {} BY <1>1
<1> HIDE DEF Sizes
<1>3. PICK n \in Sizes : \A m \in Sizes : ~(<<m, n>> \in OpToRel(<, Nat))
  BY <1>2, WFMin, NatLessThanWellFounded
<1>4. \A m \in Sizes : ~(m < n) BY <1>2, <1>3 DEF OpToRel
<1>5. PICK X \in Bad : n = Cardinality(X) BY DEF Sizes
<1>6. X # {}
  <2>1. PlacesOf(p, {}) = {} /\ PlacesOf(q, {}) = {} BY DEF PlacesOf
  <2>2. QED BY <1>5, <2>1
<1>7. PICK x \in X : TRUE BY <1>6
<1> DEFINE Y == X \ {x}
<1>8. Y \in SUBSET R /\ Cardinality(Y) = Cardinality(X) - 1 BY <1>1, <1>7, FS_RemoveElement
<1>9. Cardinality(Y) < n BY <1>1, <1>5, <1>8
<1>10. Y \notin Bad BY <1>4, <1>9 DEF Sizes
<1>11. Cardinality(PlacesOf(p, Y)) = Cardinality(PlacesOf(q, Y)) BY <1>8, <1>10
<1>12. ASSUME NEW s \in Seq(T)
       PROVE  Cardinality(PlacesOf(s, X)) = Cardinality(PlacesOf(s, Y)) + Cardinality(PlacesOf(s, {x}))
  <2>1. PlacesOf(s, X) = PlacesOf(s, Y) \cup PlacesOf(s, {x}) /\ PlacesOf(s, Y) \cap PlacesOf(s, {x}) = {} BY <1>7 DEF PlacesOf
  <2>2. IsFiniteSet(PlacesOf(s, Y)) /\ IsFiniteSet(PlacesOf(s, {x})) BY AtIsFinite
  <2>3. Cardinality(PlacesOf(s, Y)) \in Nat /\ Cardinality(PlacesOf(s, {x})) \in Nat BY AtIsFinite
  <2>4. Cardinality(PlacesOf(s, X)) = Cardinality(PlacesOf(s, Y)) + Cardinality(PlacesOf(s, {x})) - Cardinality({})
    <3>1. \A A, B : IsFiniteSet(A) /\ IsFiniteSet(B)
                      => Cardinality(A \cup B) = Cardinality(A) + Cardinality(B) - Cardinality(A \cap B)
      BY FS_Union
    <3>2. Cardinality(PlacesOf(s, Y) \cup PlacesOf(s, {x})) =
            Cardinality(PlacesOf(s, Y)) + Cardinality(PlacesOf(s, {x})) - Cardinality(PlacesOf(s, Y) \cap PlacesOf(s, {x}))
      BY <2>2, <3>1, Zenon
    <3>3. QED BY <2>1, <3>2
  <2>5. QED BY <2>3, <2>4, FS_EmptySet
<1>13. Often(p, x) = Often(q, x) BY <1>5, <1>7
<1>14. Cardinality(PlacesOf(p, X)) = Cardinality(PlacesOf(q, X)) BY <1>11, <1>12, <1>13 DEF Often
<1>15. QED BY <1>5, <1>14

LEMMA UpTo == ASSUME NEW n \in Nat PROVE IsFiniteSet(1 .. n) /\ Cardinality(1 .. n) = n
<1>1. n \in Int /\ 1 \in Int OBVIOUS
<1>2. IsFiniteSet(1 .. n) /\ Cardinality(1 .. n) = IF 1 > n THEN 0 ELSE n - 1 + 1 BY <1>1, FS_Interval, Zenon
<1>3. QED BY <1>2

LEMMA PlacesOfAll ==
  ASSUME NEW T, NEW s \in Seq(T)
  PROVE  /\ PlacesOf(s, Range(s)) = DOMAIN s /\ Cardinality(DOMAIN s) = Len(s) /\ IsFiniteSet(DOMAIN s)
         /\ IsFiniteSet(Range(s)) /\ Len(s) \in Nat
         /\ \A x \in Range(s) : PlacesOf(s, {x}) # {} /\ Often(s, x) # 0
<1>1. DOMAIN s = 1 .. Len(s) /\ Len(s) \in Nat OBVIOUS
<1>2. PlacesOf(s, Range(s)) = DOMAIN s BY DEF PlacesOf, Range
<1>3. Cardinality(DOMAIN s) = Len(s) /\ IsFiniteSet(DOMAIN s)
  <2>1. IsFiniteSet(1 .. Len(s)) /\ Cardinality(1 .. Len(s)) = Len(s) BY <1>1, UpTo
  <2>2. QED BY <1>1, <2>1
<1>4. IsFiniteSet(Range(s))
  <2>1. s \in Surjection(DOMAIN s, Range(s)) BY DEF Surjection, Range
  <2>2. QED BY <1>3, <2>1, FS_Surjection
<1>5. \A x \in Range(s) : PlacesOf(s, {x}) # {} BY DEF PlacesOf, Range
<1>6. QED BY <1>1, <1>2, <1>3, <1>4, <1>5, AtIsFinite, FS_EmptySet DEF Often

\* the bags are equal when the tasks are the same in any order
LEMMA BagsTell ==
  ASSUME NEW T, NEW p \in Seq(T), NEW q \in Seq(T)
  PROVE  ToBag(p) = ToBag(q) <=> SameTasks(p, q)
<1>1. ASSUME NEW s \in Seq(T), NEW x PROVE {i \in DOMAIN s : s[i] = x} = PlacesOf(s, {x}) BY DEF PlacesOf
<1>2. SameTasks(p, q) <=> /\ Len(p) = Len(q)
                          /\ \A x \in Range(p) : Often(p, x) = Often(q, x)
  <2>1. \A x : {j \in DOMAIN p : p[j] = x} = PlacesOf(p, {x}) /\ {j \in DOMAIN q : q[j] = x} = PlacesOf(q, {x})
    BY <1>1
  <2>2. SameTasks(p, q) <=> /\ Len(p) = Len(q)
                            /\ \A i \in DOMAIN p : Often(p, p[i]) = Often(q, p[i])
    BY <2>1, Zenon DEF SameTasks, Often
  <2>3. QED BY <2>2, Zenon DEF Range
<1>3. \A s \in Seq(T) : ToBag(s) = [x \in Range(s) |-> Often(s, x)] BY <1>1 DEF ToBag, Often
<1>4. ToBag(p) = ToBag(q) <=> /\ Range(p) = Range(q)
                              /\ \A x \in Range(p) : Often(p, x) = Often(q, x)
  BY <1>3
<1>5. ASSUME \A x \in Range(p) : Often(p, x) = Often(q, x)
      PROVE  Cardinality(PlacesOf(q, Range(p))) = Len(p)
  <2>1. IsFiniteSet(Range(p)) /\ Cardinality(PlacesOf(p, Range(p))) = Len(p) BY PlacesOfAll, Zenon
  <2>2. Cardinality(PlacesOf(p, Range(p))) = Cardinality(PlacesOf(q, Range(p))) BY <1>5, <2>1, PlacesAgree
  <2>3. QED BY <2>1, <2>2
<1>6. ASSUME Range(p) = Range(q), Cardinality(PlacesOf(q, Range(p))) = Len(p) PROVE Len(p) = Len(q)
  BY <1>6, PlacesOfAll
<1>7. ASSUME Len(p) = Len(q), Cardinality(PlacesOf(q, Range(p))) = Len(p),
             \A x \in Range(p) : Often(p, x) = Often(q, x)
      PROVE  Range(p) = Range(q)
  <2>1. PlacesOf(q, Range(p)) = DOMAIN q
    <3>1. PlacesOf(q, Range(p)) \in SUBSET DOMAIN q BY DEF PlacesOf
    <3>2. IsFiniteSet(DOMAIN q) /\ Cardinality(DOMAIN q) = Len(q)
      BY PlacesOfAll, AtIsFinite, Zenon
    <3>3. QED BY <1>7, <3>1, <3>2, FS_Subset
  <2>2. Range(q) \subseteq Range(p) BY <2>1 DEF PlacesOf, Range
  <2>3. ASSUME NEW x \in Range(p) PROVE x \in Range(q)
    <3>1. Often(q, x) # 0 BY <1>7, <2>3, PlacesOfAll
    <3>2. PlacesOf(q, {x}) # {} BY <3>1, FS_EmptySet DEF Often
    <3>3. QED BY <3>2 DEF PlacesOf, Range
  <2>4. QED BY <2>2, <2>3
<1>8. QED BY <1>2, <1>4, <1>5, <1>6, <1>7

PlannedTasks == UNION {ToSet(plan) : plan \in Plans}
GapSet == Gaps \cup {"gap_parse_degraded", NoGap}
Judges == [sufficient : BOOLEAN, verdict : {"hit", "miss", "none", "absent"}, confidence : Nat]
RoundRecord == [tasks : Seq(PlannedTasks), judge : Judges, gap : GapSet]
Prints == {NoFingerprint} \cup {Fingerprint(p, g) : p \in Seq(PlannedTasks), g \in GapSet}
Kid == [task : PlannedTasks, ticket : SUBSET Face, at : {"intake", "called", "completed", "failed"}]
Tellings == {Told(k) : k \in Kid}
Early == {"intake", "planner", "dispatch", "launch", "await"}
Late == {"judge", "gap", "record", "settle", "file", "note", "register", "over"}
Verdicts == {"hit", "miss"}
Rounds ==
  [at : Early \cup Late \cup {"dead"}, no : Nat, gap : GapSet, prevFailed : BOOLEAN, prevPrint : Prints,
   tasks : Seq(PlannedTasks), print : Prints, failed : BOOLEAN, spin : BOOLEAN,
   reports : Seq([task : PlannedTasks, told : Tellings]), left : {"shown", "rewritten"}, judge : Judges]

EvidenceType ==
  /\ hyp \in [status : {"proposed", "hunting", "cancelled", "concluded", "refuted"},
              reason : {"none", "spin", "planner_broken"}]
  /\ rounds \in Seq(RoundRecord) /\ round \in Rounds
  /\ kids \in Seq(Kid) /\ heard \in Seq(Nat)
  /\ filed \in [verdict : Verdicts \cup {"none"}, hashes : Seq({t.hash : t \in Tellings}),
                noted : BOOLEAN, registered : BOOLEAN]

Ended == {i \in DOMAIN kids : kids[i].at \in {"completed", "failed"}}

\* the waiter has heard of each child that ended once
HeardTells == Cardinality(Ended) = Len(heard)

\* the children are those of the tasks
Alike == Len(kids) <= Len(round.tasks) /\ \A i \in DOMAIN kids : kids[i].task = round.tasks[i]
Whole ==
  /\ round.failed \/ round.spin => kids = <<>>
  /\ ~round.failed /\ ~round.spin => Len(kids) = Len(round.tasks)

KidsTell ==
  /\ round.at = "launch" => Alike /\ ~round.failed /\ ~round.spin
  /\ round.at = "await" => Alike /\ Whole
  /\ round.at \in Late \/ round.reports # <<>> \/ filed.verdict # "none"
       => Alike /\ Whole /\ Ended = DOMAIN kids /\ round.reports = ReportsInOrder

EarlyTells ==
  round.at \in Early => round.reports = <<>> /\ ~round.judge.sufficient /\ filed.verdict = "none"

Concluded == hyp.status \in {"concluded", "refuted"}
EndFor(verdict) == IF verdict = "miss" THEN "refuted" ELSE "concluded"

JudgeTells ==
  /\ round.judge.sufficient =>
       /\ ~round.failed /\ ~round.spin /\ round.left = "shown"
       /\ round.judge.confidence >= FLOOR /\ round.judge.verdict \in Verdicts
  /\ round.judge.sufficient /\ (round.at \in {"settle", "file", "note", "register", "over"} \/ Concluded) =>
       rounds # <<>> /\ rounds[Len(rounds)].judge = round.judge
  /\ round.at \in {"file", "note", "register"} => round.judge.sufficient /\ Concluded
  /\ Concluded =>
       /\ round.judge.sufficient /\ hyp.status = EndFor(round.judge.verdict)
       /\ round.at \in {"file", "note", "register", "over", "dead"}

FiledTells ==
  /\ filed.verdict # "none" =>
       /\ Concluded /\ filed.verdict = round.judge.verdict
       /\ round.at \in {"note", "register", "over", "dead"}
       /\ filed.hashes = [i \in DOMAIN round.reports |-> round.reports[i].told.hash]
  /\ round.at \in {"note", "register"} => filed.verdict = round.judge.verdict
  /\ round.at = "register" => filed.noted /\ filed.verdict = "miss"
  /\ filed.registered => filed.noted /\ filed.verdict = "miss"

VerdictInv == EvidenceType /\ HeardTells /\ KidsTell /\ EarlyTells /\ JudgeTells /\ FiledTells

\* what the planner and the spin compare
PlanTells ==
  /\ round.at \in {"planner", "dispatch"} =>
       /\ ~round.spin /\ round.no = Len(rounds) + 1 /\ round.gap = GapBefore(round.no)
       /\ round.prevPrint = IF round.no = 1 THEN NoFingerprint
                            ELSE Fingerprint(rounds[round.no - 1].tasks, GapBefore(round.no - 1))
  /\ round.at = "dispatch" /\ ~round.failed => round.print = Fingerprint(round.tasks, round.gap)
  /\ round.at \in {"launch", "await", "judge", "gap", "record"} /\ ~round.failed /\ ~round.spin =>
       /\ round.no = Len(rounds) + 1
       /\ round.no > 1 => ~SameAs(round.no - 1, round.tasks, GapBefore(round.no))
  /\ round.spin => /\ round.no \in 2 .. Len(rounds) + 1
                   /\ SameAs(round.no - 1, round.tasks, rounds[round.no - 1].gap)
  /\ \A k \in 2 .. Len(rounds) :
       rounds[k].tasks # <<>> => ~SameAs(k - 1, rounds[k].tasks, Planned(k).gap)

LEMMA FreshTells ==
  /\ Fresh \in Rounds /\ Fresh.at = "intake" /\ Fresh.reports = <<>> /\ ~Fresh.judge.sufficient
  /\ ~Fresh.spin /\ ~Fresh.failed /\ Fresh.left = "shown"
BY DEF Fresh, Rounds, Early, GapSet, NoGap, Prints, NoJudge, Judges

LEMMA EvidenceInitial == ASSUME EvidenceInit PROVE VerdictInv /\ PlanTells
<1>1. kids = <<>> /\ heard = <<>> /\ rounds = <<>> /\ round = Fresh BY DEF EvidenceInit
<1>2. Ended = {} /\ Len(heard) = 0 BY <1>1 DEF Ended
<1>3. HeardTells BY <1>2, FS_EmptySet DEF HeardTells
<1>4. /\ hyp.status = "proposed" /\ hyp.reason = "none" /\ filed.verdict = "none" /\ ~filed.noted /\ ~filed.registered
      /\ EvidenceType
  BY <1>1, FreshTells DEF EvidenceInit, EvidenceType, Verdicts
<1>5. QED
  BY <1>1, <1>3, <1>4, FreshTells
  DEF VerdictInv, KidsTell, EarlyTells, JudgeTells, FiledTells, Concluded, PlanTells, Early, Late

\* a round goes to another node and nothing else of it changes
LEMMA Went ==
  ASSUME NEW r \in Rounds, NEW node \in Early \cup Late \cup {"dead"}
  PROVE  LET g == [r EXCEPT !.at = node]
         IN  /\ g \in Rounds /\ g.at = node
             /\ g.no = r.no /\ g.gap = r.gap /\ g.prevFailed = r.prevFailed /\ g.prevPrint = r.prevPrint
             /\ g.tasks = r.tasks /\ g.print = r.print /\ g.failed = r.failed /\ g.spin = r.spin
             /\ g.reports = r.reports /\ g.left = r.left /\ g.judge = r.judge
BY DEF Rounds

HuntInv == VerdictInv /\ PlanTells

\* nothing of the children changes
LEMMA KidsStand == ASSUME UNCHANGED <<kids, heard>> PROVE Ended' = Ended /\ (HeardTells => HeardTells')
BY DEF Ended, HeardTells

LEMMA ThrowsMove == ASSUME HuntInv, Throws PROVE HuntInv'
<1>1. round' \in Rounds /\ round'.at = "dead" /\ round \in Rounds BY Went DEF HuntInv, VerdictInv, EvidenceType, Throws, Goto
<1>2. /\ round'.no = round.no /\ round'.tasks = round.tasks /\ round'.failed = round.failed
      /\ round'.spin = round.spin /\ round'.reports = round.reports /\ round'.left = round.left
      /\ round'.judge = round.judge
  BY <1>1, Went DEF Throws, Goto
<1>3. UNCHANGED <<hyp, rounds, kids, heard, filed>> /\ round.at # "over" /\ round.at # "dead" BY DEF Throws
<1>4. EvidenceType' BY <1>1, <1>3 DEF HuntInv, VerdictInv, EvidenceType
<1>5. Ended' = Ended /\ HeardTells' BY <1>3, KidsStand DEF HuntInv, VerdictInv
<1>6. KidsTell'
  BY <1>1, <1>2, <1>3, <1>5 DEF HuntInv, VerdictInv, KidsTell, Alike, Whole, ReportsInOrder, Late
<1>7. EarlyTells' BY <1>1 DEF EarlyTells, Early
<1>8. JudgeTells' BY <1>1, <1>2, <1>3 DEF HuntInv, VerdictInv, JudgeTells, Concluded
<1>9. FiledTells' BY <1>1, <1>2, <1>3 DEF HuntInv, VerdictInv, FiledTells, Concluded
<1>10. PlanTells' BY <1>1, <1>2, <1>3 DEF HuntInv, PlanTells, SameAs, Planned
<1>11. QED BY <1>4, <1>5, <1>6, <1>7, <1>8, <1>9, <1>10 DEF HuntInv, VerdictInv

LEMMA IntakeMoves == ASSUME HuntInv, Intake PROVE HuntInv'
<1>1. /\ round \in Rounds /\ round.at = "intake" /\ rounds \in Seq(RoundRecord) /\ UNCHANGED <<rounds, kids, heard, filed>>
      /\ round.reports = <<>> /\ ~round.judge.sufficient /\ filed.verdict = "none" /\ ~Concluded
  BY DEF HuntInv, VerdictInv, EvidenceType, Intake, Node, EarlyTells, Early, JudgeTells
<1>2. Ended' = Ended /\ HeardTells' BY <1>1, KidsStand DEF HuntInv, VerdictInv
<1>3. CASE Len(rounds) >= MaxRounds /\ round' = [round EXCEPT !.at = "dead"] /\ UNCHANGED hyp
  <2>1. /\ round' \in Rounds /\ round'.at = "dead" /\ round'.reports = round.reports /\ round'.judge = round.judge
        /\ round'.no = round.no /\ round'.spin = round.spin /\ round'.tasks = round.tasks
    BY <1>1, <1>3, Went
  <2>2. EvidenceType' BY <1>1, <1>3, <2>1 DEF HuntInv, VerdictInv, EvidenceType
  <2>3. KidsTell' /\ EarlyTells' BY <1>1, <2>1 DEF KidsTell, EarlyTells, Late, Early
  <2>4. JudgeTells' /\ FiledTells' BY <1>1, <1>3, <2>1 DEF HuntInv, VerdictInv, JudgeTells, FiledTells, Concluded
  <2>5. PlanTells' BY <1>1, <2>1 DEF HuntInv, PlanTells, SameAs, Planned
  <2>6. QED BY <1>2, <2>2, <2>3, <2>4, <2>5 DEF HuntInv, VerdictInv
<1>4. CASE /\ round' = [Fresh EXCEPT
                 !.at = "planner", !.no = Len(rounds) + 1, !.gap = GapBefore(Len(rounds) + 1),
                 !.prevFailed = Len(rounds) > 0 /\ rounds[Len(rounds)].judge = NoJudge
                                /\ rounds[Len(rounds)].tasks = <<>>,
                 !.prevPrint = IF Len(rounds) = 0 THEN NoFingerprint
                               ELSE Fingerprint(rounds[Len(rounds)].tasks, GapBefore(Len(rounds)))]
           /\ hyp' = [hyp EXCEPT !.status = "hunting"]
  <2> DEFINE n == Len(rounds)
  <2>1. n \in Nat /\ (n > 0 => rounds[n] \in RoundRecord) /\ \A k \in 1 .. n : rounds[k] \in RoundRecord BY <1>1
  <2>2. \A k \in 1 .. n + 1 : GapBefore(k) \in GapSet
    <3>1. \A k \in 1 .. n : rounds[k].gap \in GapSet BY <2>1 DEF RoundRecord
    <3>2. QED BY <2>1, <3>1 DEF GapBefore, GapSet
  <2> DEFINE blank == n > 0 /\ rounds[n].judge = NoJudge /\ rounds[n].tasks = <<>>
             print == IF n = 0 THEN NoFingerprint ELSE Fingerprint(rounds[n].tasks, GapBefore(n))
  <2>3. print \in Prints BY <2>1, <2>2 DEF Prints, RoundRecord
  <2>4. blank \in BOOLEAN /\ n + 1 \in Nat BY <2>1
  <2>5. PICK gap \in GapSet : gap = GapBefore(n + 1) BY <2>1, <2>2
  <2>6. round' = [Fresh EXCEPT !.at = "planner", !.no = n + 1, !.gap = gap, !.prevFailed = blank, !.prevPrint = print]
    BY <1>4, <2>5
  <2> HIDE DEF blank, print
  <2>7. /\ round' \in Rounds /\ round'.at = "planner" /\ round'.no = n + 1 /\ round'.gap = gap /\ round'.prevPrint = print
        /\ round'.reports = <<>> /\ ~round'.judge.sufficient /\ ~round'.spin /\ ~round'.failed
    BY <2>3, <2>4, <2>6, FreshTells DEF Rounds, Early
  <2>8. hyp' \in [status : {"hunting"}, reason : {"none", "spin", "planner_broken"}]
    BY <1>4 DEF HuntInv, VerdictInv, EvidenceType
  <2>9. EvidenceType' BY <1>1, <2>7, <2>8 DEF HuntInv, VerdictInv, EvidenceType
  <2>10. KidsTell' /\ EarlyTells' BY <1>1, <2>7 DEF KidsTell, EarlyTells, Late, Early
  <2>11. JudgeTells' /\ FiledTells' BY <1>1, <2>7, <2>8 DEF HuntInv, VerdictInv, JudgeTells, FiledTells, Concluded
  <2>12. PlanTells' BY <1>1, <2>1, <2>5, <2>7 DEF HuntInv, PlanTells, SameAs, Planned, GapBefore, print
  <2>13. QED BY <1>2, <2>9, <2>10, <2>11, <2>12 DEF HuntInv, VerdictInv
<1>5. QED BY <1>3, <1>4 DEF Intake, Goto

LEMMA CappedTasks == ASSUME NEW plan \in Plans PROVE Capped(plan) \in Seq(PlannedTasks)
<1>1. plan \in Seq(ToSet(plan)) BY EvidenceAssumption
<1>2. ToSet(plan) \subseteq PlannedTasks BY DEF PlannedTasks
<1>3. plan \in Seq(PlannedTasks) /\ Len(plan) \in Nat BY <1>1, <1>2
<1> DEFINE n == IF Len(plan) < Cap THEN Len(plan) ELSE Cap
<1>4. Cap \in Nat \ {0} BY EvidenceAssumption DEF Cap
<1>5. n \in 0 .. Len(plan) BY <1>3, <1>4
<1> HIDE DEF n
<1>6. SubSeq(plan, 1, n) \in Seq(PlannedTasks) BY <1>3, <1>5, SubSeqProperties
<1>7. QED BY <1>6 DEF Capped, n

LEMMA PlanMoves == ASSUME HuntInv, PlanRound PROVE HuntInv'
<1>1. /\ round \in Rounds /\ round.at = "planner" /\ UNCHANGED <<hyp, rounds, kids, heard, filed>>
      /\ round.reports = <<>> /\ ~round.judge.sufficient /\ filed.verdict = "none" /\ ~Concluded
  <2>1. round.at = "planner" /\ UNCHANGED <<hyp, rounds, kids, heard, filed>> BY Zenon DEF PlanRound, Node
  <2>2. QED BY <2>1 DEF HuntInv, VerdictInv, EvidenceType, EarlyTells, Early, JudgeTells
<1>2. /\ round' \in Rounds /\ round'.at = "dispatch" /\ round'.no = round.no /\ round'.gap = round.gap
      /\ round'.prevPrint = round.prevPrint /\ round'.spin = round.spin
      /\ round'.reports = round.reports /\ round'.judge = round.judge
      /\ ~round'.failed => round'.print = Fingerprint(round'.tasks, round'.gap)
  <2>1. CASE round' = [round EXCEPT !.at = "dispatch", !.failed = TRUE]
    BY <1>1, <2>1 DEF Rounds, Early
  <2>2. ASSUME NEW plan \in Plans,
               round' = [round EXCEPT !.at = "dispatch", !.tasks = Capped(plan),
                                      !.print = Fingerprint(Capped(plan), round.gap)]
        PROVE  <1>2!:
    <3> DEFINE p == Capped(plan)
    <3>1. p \in Seq(PlannedTasks) BY CappedTasks
    <3>2. Fingerprint(p, round.gap) \in Prints BY <1>1, <3>1 DEF Prints, Rounds
    <3>3. round' = [round EXCEPT !.at = "dispatch", !.tasks = p, !.print = Fingerprint(p, round.gap)] BY <2>2
    <3> HIDE DEF p
    <3>4. QED BY <1>1, <3>1, <3>2, <3>3 DEF Rounds, Early
  <2>3. QED BY <2>1, <2>2, Zenon DEF PlanRound
<1>3. EvidenceType' BY <1>1, <1>2 DEF HuntInv, VerdictInv, EvidenceType
<1>4. Ended' = Ended /\ HeardTells' BY <1>1, KidsStand DEF HuntInv, VerdictInv
<1>5. KidsTell' /\ EarlyTells' BY <1>1, <1>2 DEF KidsTell, EarlyTells, Late, Early
<1>6. JudgeTells' /\ FiledTells' BY <1>1, <1>2 DEF HuntInv, VerdictInv, JudgeTells, FiledTells, Concluded
<1>7. PlanTells' BY <1>1, <1>2 DEF HuntInv, PlanTells, SameAs, Planned, GapBefore
<1>8. QED BY <1>3, <1>4, <1>5, <1>6, <1>7 DEF HuntInv, VerdictInv

\* no child is left over
LEMMA NoKids == ASSUME kids' = <<>>, heard' = <<>> PROVE Ended' = {} /\ HeardTells'
<1>1. Ended' = {} BY DEF Ended
<1>2. QED BY <1>1, FS_EmptySet DEF HeardTells

LEMMA DispatchNoneMoves == ASSUME HuntInv, DispatchNone PROVE HuntInv'
<1>1. /\ round \in Rounds /\ round.at = "dispatch" /\ round.failed /\ UNCHANGED <<hyp, rounds, filed>>
      /\ kids' = <<>> /\ heard' = <<>> /\ round' = [round EXCEPT !.at = "await"]
      /\ round.reports = <<>> /\ ~round.judge.sufficient /\ filed.verdict = "none" /\ ~Concluded /\ ~round.spin
  BY DEF HuntInv, VerdictInv, EvidenceType, DispatchNone, Node, Goto, EarlyTells, Early, JudgeTells, PlanTells
<1>2. /\ round' \in Rounds /\ round'.at = "await" /\ round'.no = round.no /\ round'.tasks = round.tasks
      /\ round'.failed = round.failed /\ round'.spin = round.spin
      /\ round'.reports = round.reports /\ round'.judge = round.judge
  <2>1. "await" \in Early \cup Late \cup {"dead"} BY DEF Early
  <2>2. QED BY <1>1, <2>1, Went, Zenon
<1>3. EvidenceType' BY <1>1, <1>2 DEF HuntInv, VerdictInv, EvidenceType
<1>4. HeardTells' BY <1>1, NoKids
<1>5. round'.tasks \in Seq(PlannedTasks) BY <1>2 DEF Rounds
<1>6. KidsTell' /\ EarlyTells' BY <1>1, <1>2, <1>5 DEF KidsTell, EarlyTells, Alike, Whole, Late, Early
<1>7. JudgeTells' /\ FiledTells' BY <1>1, <1>2 DEF HuntInv, VerdictInv, JudgeTells, FiledTells, Concluded
<1>8. PlanTells' BY <1>1, <1>2 DEF HuntInv, PlanTells, SameAs, Planned
<1>9. QED BY <1>3, <1>4, <1>6, <1>7, <1>8 DEF HuntInv, VerdictInv

LEMMA PrintsTell ==
  ASSUME NEW p \in Seq(PlannedTasks), NEW q \in Seq(PlannedTasks), NEW g, NEW h
  PROVE  /\ Fingerprint(p, g) # NoFingerprint
         /\ Fingerprint(p, g) = Fingerprint(q, h) <=> SameTasks(p, q) /\ g = h
<1>1. ToBag(p) = ToBag(q) <=> SameTasks(p, q) BY BagsTell
<1>2. QED BY <1>1 DEF Fingerprint, NoFingerprint

\* at the dispatch the prints are compared as the plans would be
LEMMA RepeatsTell ==
  ASSUME HuntInv, round.at = "dispatch", ~round.failed
  PROVE  /\ round.no \in 1 .. Len(rounds) + 1 /\ Len(rounds) \in Nat
         /\ Repeats <=> round.no > 1 /\ SameAs(round.no - 1, round.tasks, GapBefore(round.no))
         /\ round.no > 1 => GapBefore(round.no) = rounds[round.no - 1].gap
<1>1. /\ round \in Rounds /\ rounds \in Seq(RoundRecord) BY DEF HuntInv, VerdictInv, EvidenceType
<1>2. Len(rounds) \in Nat BY <1>1
<1>3. /\ round.no = Len(rounds) + 1 /\ round.print = Fingerprint(round.tasks, GapBefore(round.no))
      /\ round.prevPrint = IF round.no = 1 THEN NoFingerprint
                           ELSE Fingerprint(rounds[round.no - 1].tasks, GapBefore(round.no - 1))
  BY DEF HuntInv, PlanTells
<1>4. round.tasks \in Seq(PlannedTasks) BY <1>1 DEF Rounds
<1>5. CASE round.no = 1 BY <1>2, <1>3, <1>5 DEF Repeats
<1>6. CASE round.no > 1
  <2>1. rounds[round.no - 1] \in RoundRecord BY <1>1, <1>2, <1>3, <1>6
  <2>2. rounds[round.no - 1].tasks \in Seq(PlannedTasks) BY <2>1 DEF RoundRecord
  <2>3. Repeats <=> /\ SameTasks(rounds[round.no - 1].tasks, round.tasks)
                    /\ GapBefore(round.no - 1) = GapBefore(round.no)
    <3>1. round.print # NoFingerprint BY <1>3, <1>4, PrintsTell
    <3>2. Fingerprint(rounds[round.no - 1].tasks, GapBefore(round.no - 1)) = Fingerprint(round.tasks, GapBefore(round.no))
            <=> /\ SameTasks(rounds[round.no - 1].tasks, round.tasks)
                /\ GapBefore(round.no - 1) = GapBefore(round.no)
      BY <1>4, <2>2, PrintsTell
    <3>3. QED BY <1>3, <1>6, <3>1, <3>2 DEF Repeats
  <2>4. GapBefore(round.no - 1) = Planned(round.no - 1).gap /\ Planned(round.no - 1).tasks = rounds[round.no - 1].tasks
    <3>1. PICK k \in 1 .. Len(rounds) : k = round.no - 1 BY <1>2, <1>3, <1>6
    <3>2. GapBefore(k) = IF k = 1 THEN NoGap ELSE rounds[k - 1].gap
      <4>1. k \in Nat /\ k # 0 BY <1>2, <3>1
      <4>2. k <= 1 <=> k = 1 BY <4>1
      <4>3. QED BY <4>2, Zenon DEF GapBefore
    <3> DEFINE left == IF k = 1 THEN NoGap ELSE rounds[k - 1].gap
    <3>3. Planned(k) = [tasks |-> rounds[k].tasks, gap |-> left] BY DEF Planned
    <3> HIDE DEF left
    <3>4. Planned(k).gap = left /\ Planned(k).tasks = rounds[k].tasks BY <3>3
    <3>5. QED BY <3>1, <3>2, <3>4 DEF left
  <2>5. GapBefore(round.no) = rounds[round.no - 1].gap BY <1>2, <1>3, <1>6 DEF GapBefore
  <2>6. QED BY <1>2, <1>3, <1>6, <2>3, <2>4, <2>5 DEF SameAs
<1>7. QED BY <1>2, <1>3, <1>5, <1>6

LEMMA DispatchSpinMoves == ASSUME HuntInv, DispatchSpin PROVE HuntInv'
<1>1. /\ round \in Rounds /\ round.at = "dispatch" /\ ~round.failed /\ Repeats /\ UNCHANGED <<rounds, filed>>
      /\ hyp' = [status |-> "cancelled", reason |-> "spin"]
      /\ kids' = <<>> /\ heard' = <<>> /\ round' = [round EXCEPT !.at = "await", !.spin = TRUE]
      /\ round.reports = <<>> /\ ~round.judge.sufficient /\ filed.verdict = "none" /\ ~Concluded
  BY DEF HuntInv, VerdictInv, EvidenceType, DispatchSpin, Node, Goto, EarlyTells, Early, JudgeTells, PlanTells
<1>2. /\ round' \in Rounds /\ round'.at = "await" /\ round'.no = round.no /\ round'.tasks = round.tasks
      /\ round'.failed = round.failed /\ round'.spin
      /\ round'.reports = round.reports /\ round'.judge = round.judge
  BY <1>1 DEF Rounds, Early
<1>3. EvidenceType' BY <1>1, <1>2 DEF HuntInv, VerdictInv, EvidenceType
<1>4. HeardTells' BY <1>1, NoKids
<1>5. round'.tasks \in Seq(PlannedTasks) BY <1>2 DEF Rounds
<1>6. KidsTell' /\ EarlyTells' BY <1>1, <1>2, <1>5 DEF KidsTell, EarlyTells, Alike, Whole, Late, Early
<1>7. JudgeTells' /\ FiledTells' BY <1>1, <1>2 DEF HuntInv, VerdictInv, JudgeTells, FiledTells, Concluded
<1>8. /\ round.no \in 2 .. Len(rounds) + 1
      /\ SameAs(round.no - 1, round.tasks, rounds[round.no - 1].gap)
  BY <1>1, RepeatsTell
<1>9. PlanTells' BY <1>1, <1>2, <1>8 DEF HuntInv, PlanTells, SameAs, Planned
<1>10. QED BY <1>3, <1>4, <1>6, <1>7, <1>9 DEF HuntInv, VerdictInv

LEMMA DispatchTasksMove == ASSUME HuntInv, DispatchTasks PROVE HuntInv'
<1>1. /\ round \in Rounds /\ round.at = "dispatch" /\ ~round.failed /\ ~Repeats /\ UNCHANGED <<hyp, rounds, filed>>
      /\ kids' = <<>> /\ heard' = <<>> /\ round' = [round EXCEPT !.at = "launch"]
      /\ round.reports = <<>> /\ ~round.judge.sufficient /\ filed.verdict = "none" /\ ~Concluded /\ ~round.spin
      /\ round.no = Len(rounds) + 1
  BY DEF HuntInv, VerdictInv, EvidenceType, DispatchTasks, Node, Goto, EarlyTells, Early, JudgeTells, PlanTells
<1>2. /\ round' \in Rounds /\ round'.at = "launch" /\ round'.no = round.no /\ round'.tasks = round.tasks
      /\ round'.failed = round.failed /\ round'.spin = round.spin
      /\ round'.reports = round.reports /\ round'.judge = round.judge
  <2>1. "launch" \in Early \cup Late \cup {"dead"} BY DEF Early
  <2>2. QED BY <1>1, <2>1, Went, Zenon
<1>3. EvidenceType' BY <1>1, <1>2 DEF HuntInv, VerdictInv, EvidenceType
<1>4. HeardTells' BY <1>1, NoKids
<1>5. round'.tasks \in Seq(PlannedTasks) BY <1>2 DEF Rounds
<1>6. KidsTell' /\ EarlyTells' BY <1>1, <1>2, <1>5 DEF KidsTell, EarlyTells, Alike, Late, Early
<1>7. JudgeTells' /\ FiledTells' BY <1>1, <1>2 DEF HuntInv, VerdictInv, JudgeTells, FiledTells, Concluded
<1>8. round.no > 1 => ~SameAs(round.no - 1, round.tasks, GapBefore(round.no)) BY <1>1, RepeatsTell
<1>9. PlanTells' BY <1>1, <1>2, <1>8 DEF HuntInv, PlanTells, SameAs, Planned, GapBefore
<1>10. QED BY <1>3, <1>4, <1>6, <1>7, <1>9 DEF HuntInv, VerdictInv

\* a child is launched for the next task, or the round dies of the refusal
LEMMA LaunchMoves == ASSUME HuntInv, Launch PROVE HuntInv'
<1>1. /\ round \in Rounds /\ kids \in Seq(Kid) /\ round.at = "launch" /\ Len(kids) < Len(round.tasks)
      /\ round.tasks \in Seq(PlannedTasks) /\ UNCHANGED <<hyp, rounds, heard, filed>>
      /\ round.reports = <<>> /\ ~round.judge.sufficient /\ filed.verdict = "none" /\ ~Concluded
      /\ Alike /\ ~round.failed /\ ~round.spin
  <2>1. Node("launch") /\ Len(kids) < Len(round.tasks) /\ UNCHANGED <<hyp, rounds, heard, filed>> BY DEF Launch
  <2>2. QED BY <2>1 DEF HuntInv, VerdictInv, EvidenceType, Node, EarlyTells, Early, JudgeTells, KidsTell, Rounds
<1> DEFINE task == round.tasks[Len(kids) + 1]
           kid == [task |-> task, ticket |-> {task.tool}, at |-> "intake"]
<1>2. CASE round' = [round EXCEPT !.at = "dead"] /\ UNCHANGED kids
  <2>1. "dead" \in Early \cup Late \cup {"dead"} OBVIOUS
  <2>2. /\ round' \in Rounds /\ round'.at = "dead" /\ round'.no = round.no /\ round'.tasks = round.tasks
        /\ round'.failed = round.failed /\ round'.spin = round.spin
        /\ round'.reports = round.reports /\ round'.judge = round.judge
    BY <1>1, <1>2, <2>1, Went, Zenon
  <2>3. EvidenceType' BY <1>1, <1>2, <2>2 DEF HuntInv, VerdictInv, EvidenceType
  <2>4. HeardTells' BY <1>1, <1>2, KidsStand DEF HuntInv, VerdictInv
  <2>5. KidsTell' /\ EarlyTells' BY <1>1, <2>2 DEF KidsTell, EarlyTells, Late, Early
  <2>6. JudgeTells' /\ FiledTells' BY <1>1, <2>2 DEF HuntInv, VerdictInv, JudgeTells, FiledTells, Concluded
  <2>7. PlanTells' BY <1>1, <2>2 DEF HuntInv, PlanTells, SameAs, Planned
  <2>8. QED BY <2>3, <2>4, <2>5, <2>6, <2>7 DEF HuntInv, VerdictInv
<1>3. CASE task.tool \in Face /\ kids' = Append(kids, kid) /\ UNCHANGED round
  <2>1. task \in PlannedTasks BY <1>1
  <2>2. kid \in Kid /\ kid.task = task /\ kid.at = "intake" BY <1>3, <2>1 DEF Kid
  <2> HIDE DEF kid
  <2>3. kids' \in Seq(Kid) /\ Len(kids') = Len(kids) + 1 /\ \A i \in DOMAIN kids : kids'[i] = kids[i]
    BY <1>1, <1>3, <2>2
  <2>4. kids'[Len(kids) + 1] = kid /\ DOMAIN kids' = DOMAIN kids \cup {Len(kids) + 1} BY <1>1, <1>3, <2>2
  <2>5. Ended' = Ended BY <2>2, <2>3, <2>4 DEF Ended
  <2>6. EvidenceType' BY <1>1, <1>3, <2>3 DEF HuntInv, VerdictInv, EvidenceType
  <2>7. HeardTells' BY <1>1, <2>5 DEF HuntInv, VerdictInv, HeardTells
  <2>8. Alike' BY <1>1, <1>3, <2>2, <2>3, <2>4 DEF Alike
  <2>9. KidsTell' /\ EarlyTells' BY <1>1, <1>3, <2>8 DEF KidsTell, EarlyTells, Late, Early
  <2>10. JudgeTells' /\ FiledTells' BY <1>1, <1>3 DEF HuntInv, VerdictInv, JudgeTells, FiledTells, Concluded
  <2>11. PlanTells' BY <1>1, <1>3 DEF HuntInv, PlanTells, SameAs, Planned, GapBefore
  <2>12. QED BY <2>6, <2>7, <2>9, <2>10, <2>11 DEF HuntInv, VerdictInv
<1>4. QED BY <1>2, <1>3 DEF Launch, Goto

LEMMA LaunchedMoves == ASSUME HuntInv, Launched PROVE HuntInv'
<1>1. /\ round \in Rounds /\ round.at = "launch" /\ Len(kids) = Len(round.tasks)
      /\ UNCHANGED <<hyp, rounds, kids, heard, filed>> /\ round' = [round EXCEPT !.at = "await"]
      /\ round.reports = <<>> /\ ~round.judge.sufficient /\ filed.verdict = "none" /\ ~Concluded
      /\ Alike /\ ~round.failed /\ ~round.spin
  BY DEF Launched, Goto, Node, HuntInv, VerdictInv, EvidenceType, EarlyTells, Early, JudgeTells, KidsTell
<1>2. /\ round' \in Rounds /\ round'.at = "await" /\ round'.no = round.no /\ round'.tasks = round.tasks
      /\ round'.failed = round.failed /\ round'.spin = round.spin
      /\ round'.reports = round.reports /\ round'.judge = round.judge
  <2>1. "await" \in Early \cup Late \cup {"dead"} BY DEF Early
  <2>2. QED BY <1>1, <2>1, Went, Zenon
<1>3. EvidenceType' BY <1>1, <1>2 DEF HuntInv, VerdictInv, EvidenceType
<1>4. HeardTells' BY <1>1, KidsStand DEF HuntInv, VerdictInv
<1>5. KidsTell' /\ EarlyTells' BY <1>1, <1>2 DEF KidsTell, EarlyTells, Alike, Whole, Late, Early
<1>6. JudgeTells' /\ FiledTells' BY <1>1, <1>2 DEF HuntInv, VerdictInv, JudgeTells, FiledTells, Concluded
<1>7. PlanTells' BY <1>1, <1>2 DEF HuntInv, PlanTells, SameAs, Planned, GapBefore
<1>8. QED BY <1>3, <1>4, <1>5, <1>6, <1>7 DEF HuntInv, VerdictInv

\* when as many ends were heard as there are children, all have ended
LEMMA AwaitMoves == ASSUME HuntInv, Await PROVE HuntInv'
<1>1. /\ round \in Rounds /\ round.at = "await" /\ Len(heard) = Len(kids) /\ kids \in Seq(Kid)
      /\ UNCHANGED <<hyp, rounds, kids, heard, filed>>
      /\ round' = [round EXCEPT !.at = "judge", !.reports = ReportsInOrder]
      /\ round.reports = <<>> /\ ~round.judge.sufficient /\ filed.verdict = "none" /\ ~Concluded
      /\ Alike /\ Whole /\ Cardinality(Ended) = Len(heard)
  BY DEF Await, Node, HuntInv, VerdictInv, EvidenceType, EarlyTells, Early, JudgeTells, KidsTell, HeardTells
<1>2. Ended = DOMAIN kids
  <2>1. DOMAIN kids = 1 .. Len(kids) /\ Len(kids) \in Nat BY <1>1
  <2>2. IsFiniteSet(DOMAIN kids) /\ Cardinality(DOMAIN kids) = Len(kids)
    BY <1>1, PlacesOfAll, Zenon
  <2>3. Ended \in SUBSET DOMAIN kids BY DEF Ended
  <2>4. QED BY <1>1, <2>2, <2>3, FS_Subset
<1>3. ReportsInOrder \in Seq([task : PlannedTasks, told : Tellings])
  <2>1. DOMAIN kids = 1 .. Len(kids) /\ Len(kids) \in Nat /\ round.tasks \in Seq(PlannedTasks)
    BY <1>1 DEF Rounds
  <2>2. ASSUME NEW i \in DOMAIN kids
        PROVE  [task |-> round.tasks[i], told |-> Told(kids[i])] \in [task : PlannedTasks, told : Tellings]
    <3>1. kids[i] \in Kid BY <1>1
    <3>2. Told(kids[i]) \in Tellings BY <3>1 DEF Tellings
    <3>3. round.tasks[i] \in PlannedTasks BY <1>1, <2>1 DEF Alike
    <3>4. QED BY <3>2, <3>3
  <2>3. ReportsInOrder = [i \in 1 .. Len(kids) |-> [task |-> round.tasks[i], told |-> Told(kids[i])]]
    BY <2>1 DEF ReportsInOrder
  <2>4. QED BY <2>1, <2>2, <2>3, IsASeq
<1>4. /\ round' \in Rounds /\ round'.at = "judge" /\ round'.no = round.no /\ round'.tasks = round.tasks
      /\ round'.failed = round.failed /\ round'.spin = round.spin
      /\ round'.reports = ReportsInOrder /\ round'.judge = round.judge
  BY <1>1, <1>3 DEF Rounds, Late
<1>5. EvidenceType' BY <1>1, <1>4 DEF HuntInv, VerdictInv, EvidenceType
<1>6. HeardTells' /\ Ended' = Ended BY <1>1, KidsStand DEF HuntInv, VerdictInv
<1>7. ReportsInOrder' = ReportsInOrder BY <1>1, <1>4 DEF ReportsInOrder
<1>8. KidsTell' /\ EarlyTells' BY <1>1, <1>2, <1>4, <1>6, <1>7 DEF KidsTell, EarlyTells, Alike, Whole, Late, Early
<1>9. JudgeTells' /\ FiledTells' BY <1>1, <1>4 DEF HuntInv, VerdictInv, JudgeTells, FiledTells, Concluded
<1>10. PlanTells' BY <1>1, <1>4 DEF HuntInv, PlanTells, SameAs, Planned, GapBefore
<1>11. QED BY <1>5, <1>6, <1>8, <1>9, <1>10 DEF HuntInv, VerdictInv

\* the children stand, and the tasks and the reports with them
LEMMA ReportsStand ==
  ASSUME HuntInv, round.at \in Late, UNCHANGED <<kids, heard>>,
         round'.tasks = round.tasks, round'.reports = round.reports,
         round'.failed = round.failed, round'.spin = round.spin, round'.at \in Late
  PROVE  HeardTells' /\ KidsTell' /\ EarlyTells'
<1>1. Alike /\ Whole /\ Ended = DOMAIN kids /\ round.reports = ReportsInOrder /\ HeardTells
  BY DEF HuntInv, VerdictInv, KidsTell
<1>2. HeardTells' /\ Ended' = Ended BY <1>1, KidsStand
<1>3. ReportsInOrder' = ReportsInOrder BY DEF ReportsInOrder
<1>4. Alike' /\ Whole' BY <1>1 DEF Alike, Whole
<1>5. round'.at # "launch" /\ round'.at # "await" /\ round'.at \notin Early BY DEF Late, Early
<1>6. QED BY <1>1, <1>2, <1>3, <1>4, <1>5 DEF KidsTell, EarlyTells

LEMMA JudgeSkipsMoves == ASSUME HuntInv, JudgeSkips PROVE HuntInv'
<1>1. /\ round \in Rounds /\ round.at = "judge" /\ (round.failed \/ round.spin)
      /\ UNCHANGED <<hyp, rounds, kids, heard, filed>> /\ round' = [round EXCEPT !.at = "record"]
      /\ ~round.judge.sufficient /\ filed.verdict = "none" /\ ~Concluded
  BY DEF JudgeSkips, Goto, Node, HuntInv, VerdictInv, EvidenceType, JudgeTells, FiledTells
<1>2. /\ round' \in Rounds /\ round'.at = "record" /\ round'.no = round.no /\ round'.tasks = round.tasks
      /\ round'.failed = round.failed /\ round'.spin = round.spin
      /\ round'.reports = round.reports /\ round'.judge = round.judge
  <2>1. "record" \in Early \cup Late \cup {"dead"} BY DEF Late
  <2>2. QED BY <1>1, <2>1, Went, Zenon
<1>3. EvidenceType' BY <1>1, <1>2 DEF HuntInv, VerdictInv, EvidenceType
<1>4. HeardTells' /\ KidsTell' /\ EarlyTells' BY <1>1, <1>2, ReportsStand DEF Late
<1>5. JudgeTells' /\ FiledTells' BY <1>1, <1>2 DEF HuntInv, VerdictInv, JudgeTells, FiledTells, Concluded
<1>6. PlanTells' BY <1>1, <1>2 DEF HuntInv, PlanTells, SameAs, Planned, GapBefore
<1>7. QED BY <1>3, <1>4, <1>5, <1>6 DEF HuntInv, VerdictInv

\* what the judge is believed
LEMMA JudgementTells ==
  ASSUME NEW answer \in Answers \cup {Insufficient}, NEW left \in {"shown", "rewritten"}
  PROVE  /\ Judgement(answer, left) \in Judges
         /\ Judgement(answer, left).sufficient =>
              /\ left = "shown" /\ Judgement(answer, left).confidence >= FLOOR
              /\ Judgement(answer, left).verdict \in Verdicts
<1>1. Insufficient \in Judges /\ ~Insufficient.sufficient BY DEF Insufficient, Judges
<1>2. answer \in Judges /\ (answer.sufficient => answer.verdict \in Verdicts)
  BY <1>1, EvidenceAssumption DEF Answers, Judges, Verdicts
<1>3. Believe(answer) \in Judges /\ (Believe(answer).sufficient => Believe(answer) = answer /\ answer.confidence >= FLOOR)
  <2>1. FLOOR \in Nat /\ answer.confidence \in Nat /\ answer.sufficient \in BOOLEAN
    BY <1>2, EvidenceAssumption DEF Judges
  <2>2. CASE answer.sufficient /\ answer.confidence < FLOOR
    <3> DEFINE j == [answer EXCEPT !.sufficient = FALSE, !.verdict = "none"]
    <3>1. j \in Judges /\ ~j.sufficient BY <1>2 DEF Judges
    <3>2. Believe(answer) = j BY <2>2 DEF Believe
    <3> HIDE DEF j
    <3>3. QED BY <3>1, <3>2
  <2>3. CASE ~(answer.sufficient /\ answer.confidence < FLOOR)
    <3>1. Believe(answer) = answer BY <2>3 DEF Believe
    <3>2. QED BY <1>2, <2>1, <2>3, <3>1
  <2>4. QED BY <2>2, <2>3
<1>4. QED BY <1>1, <1>2, <1>3 DEF Judgement

LEMMA JudgeRoundMoves == ASSUME HuntInv, JudgeRound PROVE HuntInv'
<1>1. /\ round \in Rounds /\ round.at = "judge" /\ ~round.failed /\ ~round.spin
      /\ UNCHANGED <<hyp, rounds, kids, heard, filed>> /\ filed.verdict = "none" /\ ~Concluded
  <2>1. Node("judge") /\ ~round.failed /\ ~round.spin /\ UNCHANGED <<hyp, rounds, kids, heard, filed>>
    BY Zenon DEF JudgeRound
  <2>2. QED BY <2>1 DEF Node, HuntInv, VerdictInv, EvidenceType, JudgeTells, FiledTells
<1>2. PICK j \in Judges, left \in {"shown", "rewritten"} :
        /\ j.sufficient => left = "shown" /\ j.confidence >= FLOOR /\ j.verdict \in Verdicts
        /\ round' = [round EXCEPT !.judge = j, !.left = left, !.at = IF j.sufficient THEN "record" ELSE "gap"]
  BY JudgementTells, Zenon DEF JudgeRound
<1>3. PICK node \in {"record", "gap"} : round' = [round EXCEPT !.judge = j, !.left = left, !.at = node]
  BY <1>2, Zenon
<1>4. /\ round' \in Rounds /\ round'.at = node /\ round'.no = round.no /\ round'.tasks = round.tasks
      /\ round'.failed = round.failed /\ round'.spin = round.spin
      /\ round'.reports = round.reports /\ round'.judge = j /\ round'.left = left
  BY <1>1, <1>3 DEF Rounds, Late
<1>5. EvidenceType' BY <1>1, <1>4 DEF HuntInv, VerdictInv, EvidenceType
<1>6. HeardTells' /\ KidsTell' /\ EarlyTells' BY <1>1, <1>4, ReportsStand DEF Late
<1>7. JudgeTells' /\ FiledTells' BY <1>1, <1>2, <1>4 DEF HuntInv, VerdictInv, JudgeTells, FiledTells, Concluded
<1>8. PlanTells' BY <1>1, <1>4 DEF HuntInv, PlanTells, SameAs, Planned, GapBefore
<1>9. QED BY <1>5, <1>6, <1>7, <1>8 DEF HuntInv, VerdictInv

LEMMA GapMoves == ASSUME HuntInv, AnalyzeGap PROVE HuntInv'
<1>1. /\ round \in Rounds /\ round.at = "gap" /\ UNCHANGED <<hyp, rounds, kids, heard, filed>>
      /\ filed.verdict = "none" /\ ~Concluded
  <2>1. Node("gap") /\ UNCHANGED <<hyp, rounds, kids, heard, filed>> BY Zenon DEF AnalyzeGap
  <2>2. QED BY <2>1 DEF Node, HuntInv, VerdictInv, EvidenceType, JudgeTells, FiledTells
<1>2. PICK gap \in Gaps \cup {"gap_parse_degraded"} : round' = [round EXCEPT !.at = "record", !.gap = gap]
  BY Zenon DEF AnalyzeGap
<1>3. /\ round' \in Rounds /\ round'.at = "record" /\ round'.no = round.no /\ round'.tasks = round.tasks
      /\ round'.failed = round.failed /\ round'.spin = round.spin
      /\ round'.reports = round.reports /\ round'.judge = round.judge /\ round'.left = round.left
  BY <1>1, <1>2 DEF Rounds, Late, GapSet
<1>4. EvidenceType' BY <1>1, <1>3 DEF HuntInv, VerdictInv, EvidenceType
<1>5. HeardTells' /\ KidsTell' /\ EarlyTells' BY <1>1, <1>3, ReportsStand DEF Late
<1>6. JudgeTells' /\ FiledTells' BY <1>1, <1>3 DEF HuntInv, VerdictInv, JudgeTells, FiledTells, Concluded
<1>7. PlanTells' BY <1>1, <1>3 DEF HuntInv, PlanTells, SameAs, Planned, GapBefore
<1>8. QED BY <1>4, <1>5, <1>6, <1>7 DEF HuntInv, VerdictInv

LEMMA RecordMoves == ASSUME HuntInv, RecordRound PROVE HuntInv'
<1>1. /\ round \in Rounds /\ rounds \in Seq(RoundRecord) /\ round.at = "record"
      /\ UNCHANGED <<hyp, kids, heard, filed>>
      /\ rounds' = Append(rounds, Record) /\ round' = [round EXCEPT !.at = "settle"]
      /\ filed.verdict = "none" /\ ~Concluded
  BY DEF RecordRound, Goto, Node, HuntInv, VerdictInv, EvidenceType, JudgeTells, FiledTells
<1>2. /\ round' \in Rounds /\ round'.at = "settle" /\ round'.no = round.no /\ round'.tasks = round.tasks
      /\ round'.failed = round.failed /\ round'.spin = round.spin
      /\ round'.reports = round.reports /\ round'.judge = round.judge /\ round'.left = round.left
  <2>1. "settle" \in Early \cup Late \cup {"dead"} BY DEF Late
  <2>2. QED BY <1>1, <2>1, Went, Zenon
<1>3. PICK n \in Nat : n = Len(rounds) BY <1>1
<1>4. PICK r \in RoundRecord :
        /\ r = Record
        /\ round.failed \/ round.spin => r.tasks = <<>>
        /\ ~(round.failed \/ round.spin) => r.tasks = round.tasks /\ r.judge = round.judge
  <2>1. CASE round.failed \/ round.spin
    <3> DEFINE r == [tasks |-> <<>>, judge |-> NoJudge, gap |-> NoGap]
    <3>1. r \in RoundRecord /\ r.tasks = <<>> BY DEF RoundRecord, NoJudge, Judges, GapSet
    <3>2. r = Record BY <2>1 DEF Record
    <3> HIDE DEF r
    <3>3. QED BY <2>1, <3>1, <3>2
  <2>2. CASE ~(round.failed \/ round.spin)
    <3> DEFINE gap == IF round.judge.sufficient THEN NoGap ELSE round.gap
               r == [tasks |-> round.tasks, judge |-> round.judge, gap |-> gap]
    <3>1. gap \in GapSet BY <1>1 DEF Rounds, GapSet
    <3>2. r = Record BY <2>2 DEF Record
    <3> HIDE DEF gap
    <3>3. r \in RoundRecord /\ r.tasks = round.tasks /\ r.judge = round.judge BY <1>1, <3>1 DEF RoundRecord, Rounds
    <3> HIDE DEF r
    <3>4. QED BY <2>2, <3>2, <3>3
  <2>3. QED BY <2>1, <2>2
<1>5. /\ rounds' \in Seq(RoundRecord) /\ Len(rounds') = n + 1 /\ rounds'[n + 1] = r
      /\ \A k \in 1 .. n : rounds'[k] = rounds[k]
  BY <1>1, <1>3, <1>4
<1>6. EvidenceType' BY <1>1, <1>2, <1>5 DEF HuntInv, VerdictInv, EvidenceType
<1>7. HeardTells' /\ KidsTell' /\ EarlyTells' BY <1>1, <1>2, ReportsStand DEF Late
<1>8. rounds' # <<>> BY <1>3, <1>5
<1>9. JudgeTells' /\ FiledTells'
  BY <1>1, <1>2, <1>3, <1>4, <1>5, <1>8 DEF HuntInv, VerdictInv, JudgeTells, FiledTells, Concluded
<1>10. \A k \in 1 .. n + 1 : GapBefore(k)' = GapBefore(k) BY <1>3, <1>5 DEF GapBefore
<1>11. \A k \in 1 .. n : Planned(k)' = Planned(k) BY <1>3, <1>5 DEF Planned
<1>12. PlanTells'
  <2>1. round.spin => /\ round.no \in 2 .. n + 1
                      /\ SameAs(round.no - 1, round.tasks, rounds[round.no - 1].gap)
    BY <1>3 DEF HuntInv, PlanTells
  <2>2. ASSUME round.spin
        PROVE  /\ round'.no \in 2 .. Len(rounds') + 1
               /\ SameAs(round.no - 1, round.tasks, rounds[round.no - 1].gap)'
    <3>1. PICK k \in 1 .. n : k = round.no - 1 BY <1>3, <2>1, <2>2
    <3>2. SameAs(k, round.tasks, rounds[k].gap) /\ rounds'[k] = rounds[k] BY <1>5, <2>1, <2>2, <3>1
    <3>3. SameAs(k, round.tasks, rounds[k].gap)' BY <1>2, <1>11, <3>1, <3>2 DEF SameAs
    <3>4. round'.no - 1 = k BY <1>2, <3>1
    <3>5. SameAs(round.no - 1, round.tasks, rounds[round.no - 1].gap)' BY <3>3, <3>4
    <3>6. QED BY <1>2, <1>3, <1>5, <2>1, <2>2, <3>5
  <2>3. ASSUME NEW k \in 2 .. n + 1, rounds'[k].tasks # <<>>
        PROVE  ~SameAs(k - 1, rounds[k].tasks, Planned(k).gap)'
    <3>1. CASE k \in 2 .. n
      <4>1. ~SameAs(k - 1, rounds[k].tasks, Planned(k).gap) BY <1>3, <1>5, <2>3, <3>1 DEF HuntInv, PlanTells
      <4>2. PICK l \in 1 .. n : l = k - 1 BY <1>3, <3>1
      <4>3. Planned(l)' = Planned(l) /\ Planned(k)' = Planned(k) /\ rounds'[k] = rounds[k] BY <1>5, <1>11, <3>1, <4>2
      <4>4. ~SameAs(l, rounds[k].tasks, Planned(k).gap)' BY <4>1, <4>2, <4>3 DEF SameAs
      <4>5. QED BY <4>2, <4>4
    <3>2. CASE k = n + 1
      <4>1. ~(round.failed \/ round.spin) /\ r.tasks = round.tasks BY <1>4, <1>5, <2>3, <3>2
      <4>2. round.no = n + 1 /\ ~SameAs(round.no - 1, round.tasks, GapBefore(round.no))
        BY <1>1, <1>3, <2>3, <3>2, <4>1 DEF HuntInv, PlanTells
      <4>3. n \in 1 .. n /\ Planned(n)' = Planned(n) BY <1>3, <1>11, <2>3, <3>2
      <4>4. Planned(k)'.gap = GapBefore(k)
        <5>1. k # 1 /\ ~(k <= 1) /\ k \in 1 .. n + 1 BY <1>3, <2>3, <3>2
        <5>2. Planned(k)'.gap = rounds'[k - 1].gap BY <5>1 DEF Planned
        <5>3. GapBefore(k)' = rounds'[k - 1].gap BY <5>1, Zenon DEF GapBefore
        <5>4. QED BY <1>10, <5>1, <5>2, <5>3
      <4>5. round.no - 1 = n /\ round.no = k /\ k - 1 = n /\ rounds'[k] = r BY <1>3, <1>5, <3>2, <4>2
      <4>6. ~SameAs(n, round.tasks, GapBefore(k)) BY <4>2, <4>5
      <4>7. ~SameAs(n, rounds[k].tasks, Planned(k).gap)' BY <4>1, <4>3, <4>4, <4>5, <4>6 DEF SameAs
      <4>8. QED BY <4>5, <4>7
    <3>3. QED BY <1>3, <2>3, <3>1, <3>2
  <2>4. \A k \in 2 .. Len(rounds') : rounds'[k].tasks # <<>> => ~SameAs(k - 1, rounds[k].tasks, Planned(k).gap)'
    BY <1>5, <2>3
  <2>5. round'.at = "settle" /\ round'.spin = round.spin BY <1>2
  <2>6. QED BY <2>2, <2>4, <2>5 DEF PlanTells
<1>13. QED BY <1>6, <1>7, <1>9, <1>12 DEF HuntInv, VerdictInv

LEMMA RelayMoves == ASSUME HuntInv, Relay PROVE HuntInv'
<1>1. /\ round.at = "settle" /\ ~round.judge.sufficient /\ round' = Fresh
      /\ UNCHANGED <<hyp, rounds, kids, heard, filed>> /\ filed.verdict = "none" /\ ~Concluded
  BY DEF Relay, Node, HuntInv, VerdictInv, JudgeTells, FiledTells
<1>2. EvidenceType' BY <1>1, FreshTells DEF HuntInv, VerdictInv, EvidenceType
<1>3. HeardTells' BY <1>1, KidsStand DEF HuntInv, VerdictInv
<1>4. KidsTell' /\ EarlyTells' BY <1>1, FreshTells DEF KidsTell, EarlyTells, Late
<1>5. JudgeTells' /\ FiledTells'
  BY <1>1, FreshTells DEF HuntInv, VerdictInv, JudgeTells, FiledTells, Concluded
<1>6. PlanTells' BY <1>1, FreshTells DEF HuntInv, PlanTells, SameAs, Planned
<1>7. QED BY <1>2, <1>3, <1>4, <1>5, <1>6 DEF HuntInv, VerdictInv

\* what a node after the judge's leaves as it is
LEMMA LateGoes ==
  ASSUME HuntInv, NEW node \in {"file", "note", "register", "over"}, UNCHANGED <<rounds, kids, heard>>,
         round.at \in {"settle", "file", "note", "register"}, round' = [round EXCEPT !.at = node]
  PROVE  /\ round' \in Rounds /\ round'.at = node /\ round'.left = round.left /\ round'.judge = round.judge
         /\ round'.failed = round.failed /\ round'.spin = round.spin /\ round'.reports = round.reports
         /\ HeardTells' /\ KidsTell' /\ EarlyTells' /\ PlanTells'
<1>1. round \in Rounds BY DEF HuntInv, VerdictInv, EvidenceType
<1>2. node \in Early \cup Late \cup {"dead"} /\ round.at \in Late /\ node \in Late BY DEF Late
<1>3. /\ round' \in Rounds /\ round'.at = node /\ round'.no = round.no /\ round'.tasks = round.tasks
      /\ round'.failed = round.failed /\ round'.spin = round.spin
      /\ round'.reports = round.reports /\ round'.judge = round.judge /\ round'.left = round.left
  BY <1>1, <1>2, Went, Zenon
<1>4. HeardTells' /\ KidsTell' /\ EarlyTells' BY <1>2, <1>3, ReportsStand
<1>5. PlanTells' BY <1>3 DEF HuntInv, PlanTells, SameAs, Planned
<1>6. QED BY <1>3, <1>4, <1>5

LEMMA GiveUpMoves == ASSUME HuntInv, GiveUp PROVE HuntInv'
<1>1. /\ round.at = "settle" /\ ~round.judge.sufficient /\ round' = [round EXCEPT !.at = "over"]
      /\ UNCHANGED <<rounds, kids, heard, filed>> /\ filed.verdict = "none" /\ ~Concluded
      /\ hyp' \in {hyp, [status |-> "cancelled", reason |-> "planner_broken"]}
  BY DEF GiveUp, Goto, Node, HuntInv, VerdictInv, JudgeTells, FiledTells
<1>2. /\ round' \in Rounds /\ round'.at = "over" /\ round'.judge = round.judge
      /\ HeardTells' /\ KidsTell' /\ EarlyTells' /\ PlanTells'
  BY <1>1, LateGoes
<1>3. EvidenceType' BY <1>1, <1>2 DEF HuntInv, VerdictInv, EvidenceType
<1>4. JudgeTells' /\ FiledTells' BY <1>1, <1>2 DEF HuntInv, VerdictInv, JudgeTells, FiledTells, Concluded
<1>5. QED BY <1>2, <1>3, <1>4 DEF HuntInv, VerdictInv

LEMMA ConvergeMoves == ASSUME HuntInv, ConvergeHypothesis PROVE HuntInv'
<1>1. /\ round.at = "settle" /\ round.judge.sufficient /\ round' = [round EXCEPT !.at = "file"]
      /\ UNCHANGED <<rounds, kids, heard, filed>> /\ filed.verdict = "none"
      /\ hyp' = [hyp EXCEPT !.status = EndFor(round.judge.verdict)]
  BY DEF ConvergeHypothesis, EndFor, Goto, Node, HuntInv, VerdictInv, FiledTells
<1>2. /\ round' \in Rounds /\ round'.at = "file" /\ round'.judge = round.judge /\ round'.left = round.left
      /\ round'.failed = round.failed /\ round'.spin = round.spin
      /\ HeardTells' /\ KidsTell' /\ EarlyTells' /\ PlanTells'
  BY <1>1, LateGoes
<1>3. /\ hyp' \in [status : {"concluded", "refuted"}, reason : {"none", "spin", "planner_broken"}]
      /\ hyp'.status = EndFor(round.judge.verdict)
  BY <1>1 DEF EndFor, HuntInv, VerdictInv, EvidenceType
<1>4. EvidenceType' BY <1>1, <1>2, <1>3 DEF HuntInv, VerdictInv, EvidenceType
<1>5. JudgeTells' /\ FiledTells' BY <1>1, <1>2, <1>3 DEF HuntInv, VerdictInv, JudgeTells, FiledTells, Concluded, EndFor
<1>6. QED BY <1>2, <1>4, <1>5 DEF HuntInv, VerdictInv

\* the case cites what the reports say
LEMMA FileMoves == ASSUME HuntInv, FileCase PROVE HuntInv'
<1>1. /\ round.at = "file" /\ round.judge.sufficient /\ Concluded /\ round' = [round EXCEPT !.at = "note"]
      /\ round \in Rounds
      /\ UNCHANGED <<hyp, rounds, kids, heard>> /\ filed.verdict = "none"
      /\ filed' = [filed EXCEPT !.verdict = round.judge.verdict,
                                !.hashes = [i \in DOMAIN round.reports |-> round.reports[i].told.hash]]
  BY DEF FileCase, Goto, Node, HuntInv, VerdictInv, EvidenceType, JudgeTells, FiledTells
<1>2. /\ round' \in Rounds /\ round'.at = "note" /\ round'.judge = round.judge /\ round'.left = round.left
      /\ round'.failed = round.failed /\ round'.spin = round.spin /\ round'.reports = round.reports
      /\ HeardTells' /\ KidsTell' /\ EarlyTells' /\ PlanTells'
  BY <1>1, LateGoes
<1> DEFINE hashes == [i \in DOMAIN round.reports |-> round.reports[i].told.hash]
<1>3. hashes \in Seq({t.hash : t \in Tellings})
  <2>1. round.reports \in Seq([task : PlannedTasks, told : Tellings]) BY <1>1 DEF Rounds
  <2>2. DOMAIN round.reports = 1 .. Len(round.reports) /\ Len(round.reports) \in Nat BY <2>1
  <2>3. ASSUME NEW i \in 1 .. Len(round.reports) PROVE round.reports[i].told.hash \in {t.hash : t \in Tellings}
    <3>1. round.reports[i] \in [task : PlannedTasks, told : Tellings] BY <2>1, ElementOfSeq, Zenon
    <3>2. round.reports[i].told \in Tellings BY <3>1
    <3>3. QED BY <3>2
  <2>4. hashes = [i \in 1 .. Len(round.reports) |-> round.reports[i].told.hash] BY <2>2
  <2>5. QED BY <2>2, <2>3, <2>4, IsASeq
<1>4. hashes' = hashes BY <1>2
<1>5. round.judge.verdict \in Verdicts BY <1>1 DEF HuntInv, VerdictInv, JudgeTells
<1>6. filed' = [filed EXCEPT !.verdict = round.judge.verdict, !.hashes = hashes] BY <1>1
<1> HIDE DEF hashes
<1>7. /\ filed' \in [verdict : Verdicts \cup {"none"}, hashes : Seq({t.hash : t \in Tellings}),
                     noted : BOOLEAN, registered : BOOLEAN]
      /\ filed'.verdict = round.judge.verdict /\ filed'.hashes = hashes /\ filed'.registered = filed.registered
  BY <1>3, <1>5, <1>6 DEF HuntInv, VerdictInv, EvidenceType
<1>8. EvidenceType' BY <1>1, <1>2, <1>7 DEF HuntInv, VerdictInv, EvidenceType
<1>9. JudgeTells' BY <1>1, <1>2 DEF HuntInv, VerdictInv, JudgeTells, Concluded
<1>10. FiledTells'
  <2>1. ~filed.registered BY <1>1 DEF HuntInv, VerdictInv, FiledTells
  <2>2. filed'.hashes = [i \in DOMAIN round.reports |-> round.reports[i].told.hash]' BY <1>4, <1>7 DEF hashes
  <2>3. QED BY <1>1, <1>2, <1>7, <2>1, <2>2 DEF FiledTells, Concluded
<1>11. QED BY <1>2, <1>8, <1>9, <1>10 DEF HuntInv, VerdictInv

LEMMA NoteMoves == ASSUME HuntInv, AddNote PROVE HuntInv'
<1>1. /\ round.at = "note" /\ round.judge.sufficient /\ Concluded /\ filed.verdict = round.judge.verdict
      /\ UNCHANGED <<hyp, rounds, kids, heard>> /\ filed' = [filed EXCEPT !.noted = TRUE]
  BY DEF AddNote, Node, HuntInv, VerdictInv, JudgeTells, FiledTells
<1>2. PICK node \in {"register", "over"} :
        /\ round' = [round EXCEPT !.at = node]
        /\ node = "register" => round.judge.verdict = "miss"
  BY DEF AddNote, Goto
<1>3. /\ round' \in Rounds /\ round'.at = node /\ round'.judge = round.judge /\ round'.left = round.left
      /\ round'.failed = round.failed /\ round'.spin = round.spin /\ round'.reports = round.reports
      /\ HeardTells' /\ KidsTell' /\ EarlyTells' /\ PlanTells'
  BY <1>1, <1>2, LateGoes
<1>4. /\ filed' \in [verdict : Verdicts \cup {"none"}, hashes : Seq({t.hash : t \in Tellings}),
                     noted : BOOLEAN, registered : BOOLEAN]
      /\ filed'.verdict = filed.verdict /\ filed'.hashes = filed.hashes /\ filed'.registered = filed.registered
      /\ filed'.noted
  BY <1>1 DEF HuntInv, VerdictInv, EvidenceType
<1>5. EvidenceType' BY <1>1, <1>3, <1>4 DEF HuntInv, VerdictInv, EvidenceType
<1>6. JudgeTells' /\ FiledTells'
  BY <1>1, <1>2, <1>3, <1>4 DEF HuntInv, VerdictInv, JudgeTells, FiledTells, Concluded
<1>7. QED BY <1>3, <1>5, <1>6 DEF HuntInv, VerdictInv

LEMMA RegisterMoves == ASSUME HuntInv, Register PROVE HuntInv'
<1>1. /\ round.at = "register" /\ round.judge.sufficient /\ Concluded /\ filed.verdict = round.judge.verdict
      /\ filed.noted /\ filed.verdict = "miss"
      /\ UNCHANGED <<hyp, rounds, kids, heard>> /\ filed' = [filed EXCEPT !.registered = TRUE]
      /\ round' = [round EXCEPT !.at = "over"]
  BY DEF Register, Goto, Node, HuntInv, VerdictInv, JudgeTells, FiledTells
<1>2. /\ round' \in Rounds /\ round'.at = "over" /\ round'.judge = round.judge /\ round'.left = round.left
      /\ round'.failed = round.failed /\ round'.spin = round.spin /\ round'.reports = round.reports
      /\ HeardTells' /\ KidsTell' /\ EarlyTells' /\ PlanTells'
  BY <1>1, LateGoes
<1>3. /\ filed' \in [verdict : Verdicts \cup {"none"}, hashes : Seq({t.hash : t \in Tellings}),
                     noted : BOOLEAN, registered : BOOLEAN]
      /\ filed'.verdict = filed.verdict /\ filed'.hashes = filed.hashes /\ filed'.noted = filed.noted
  BY <1>1 DEF HuntInv, VerdictInv, EvidenceType
<1>4. EvidenceType' BY <1>1, <1>2, <1>3 DEF HuntInv, VerdictInv, EvidenceType
<1>5. JudgeTells' BY <1>1, <1>2 DEF HuntInv, VerdictInv, JudgeTells, Concluded
<1>6. FiledTells'
  <2>1. filed.hashes = [i \in DOMAIN round.reports |-> round.reports[i].told.hash]
    BY <1>1 DEF HuntInv, VerdictInv, FiledTells
  <2>2. filed'.hashes = [i \in DOMAIN round.reports |-> round.reports[i].told.hash]' BY <1>2, <1>3, <2>1
  <2>3. Concluded' BY <1>1 DEF Concluded
  <2>4. QED BY <1>1, <1>2, <1>3, <2>2, <2>3 DEF FiledTells
<1>7. QED BY <1>2, <1>4, <1>5, <1>6 DEF HuntInv, VerdictInv

\* a child goes on, whatever has become of its round
LEMMA KidMoves ==
  ASSUME HuntInv, NEW i \in DOMAIN kids, kids[i].at \in {"intake", "called"},
         NEW at \in {"called", "completed", "failed"}, KidTo(i, at)
  PROVE  HuntInv'
<1>1. /\ kids' = [kids EXCEPT ![i].at = at] /\ UNCHANGED <<hyp, rounds, round, filed>>
      /\ heard' = IF at \in {"completed", "failed"} THEN Append(heard, i) ELSE heard
      /\ kids \in Seq(Kid) /\ heard \in Seq(Nat) /\ Cardinality(Ended) = Len(heard)
  BY DEF KidTo, HuntInv, VerdictInv, EvidenceType, HeardTells
<1>2. DOMAIN kids = 1 .. Len(kids) /\ Len(kids) \in Nat /\ i \in Nat /\ kids[i] \in Kid BY <1>1
<1> DEFINE k == [kids[i] EXCEPT !.at = at]
<1>3. k \in Kid /\ k.at = at /\ k.task = kids[i].task BY <1>2 DEF Kid
<1>4. kids' = [kids EXCEPT ![i] = k] BY <1>1
<1> HIDE DEF k
<1>5. kids' \in Seq(Kid) /\ DOMAIN kids' = DOMAIN kids /\ Len(kids') = Len(kids)
  <2>1. i \in 1 .. Len(kids) BY <1>2
  <2>2. kids' \in Seq(Kid)
    <3>1. kids \in Seq(Kid) /\ k \in Kid BY <1>1, <1>3
    <3>2. [kids EXCEPT ![i] = k] \in Seq(Kid) BY <2>1, <3>1, ExceptSeq, Zenon
    <3>3. QED BY <1>4, <3>2
  <2>3. DOMAIN kids' = DOMAIN kids BY <1>4
  <2>4. QED BY <1>1, <2>2, <2>3
<1>6. kids'[i] = k /\ \A j \in DOMAIN kids : j # i => kids'[j] = kids[j] BY <1>1, <1>2, <1>4
<1>7. i \notin Ended /\ IsFiniteSet(Ended)
  <2>1. i \notin Ended BY DEF Ended
  <2>2. IsFiniteSet(DOMAIN kids) BY <1>2, UpTo
  <2>3. Ended \in SUBSET DOMAIN kids BY DEF Ended
  <2>4. QED BY <2>1, <2>2, <2>3, FS_Subset
<1>8. HeardTells' /\ heard' \in Seq(Nat)
  <2>1. CASE at = "called"
    <3>1. Ended' = Ended BY <1>3, <1>5, <1>6, <1>7, <2>1 DEF Ended
    <3>2. QED BY <1>1, <2>1, <3>1 DEF HeardTells
  <2>2. CASE at # "called"
    <3>1. Ended' = Ended \cup {i} BY <1>3, <1>5, <1>6, <2>2 DEF Ended
    <3>2. Cardinality(Ended') = Cardinality(Ended) + 1 BY <1>7, <3>1, FS_AddElement
    <3>3. heard' = Append(heard, i) BY <1>1, <2>2
    <3>4. Len(heard') = Len(heard) + 1 /\ heard' \in Seq(Nat) BY <1>1, <1>2, <3>3
    <3>5. QED BY <1>1, <3>2, <3>4 DEF HeardTells
  <2>3. QED BY <2>1, <2>2
<1>9. EvidenceType' BY <1>1, <1>5, <1>8 DEF HuntInv, VerdictInv, EvidenceType
<1>10. Alike => Alike' BY <1>1, <1>3, <1>5, <1>6 DEF Alike
<1>11. Whole => Whole'
  <2>1. kids # <<>> BY <1>2
  <2>2. QED BY <1>1, <1>5, <2>1 DEF Whole
<1>12. Ended # DOMAIN kids BY <1>7
<1>13. KidsTell' BY <1>1, <1>10, <1>11, <1>12 DEF HuntInv, VerdictInv, KidsTell
<1>14. EarlyTells' /\ JudgeTells' /\ FiledTells'
  BY <1>1 DEF HuntInv, VerdictInv, EarlyTells, JudgeTells, FiledTells, Concluded
<1>15. PlanTells' BY <1>1 DEF HuntInv, PlanTells, SameAs, Planned, GapBefore
<1>16. QED BY <1>8, <1>9, <1>13, <1>14, <1>15 DEF HuntInv, VerdictInv

LEMMA EvidenceMoves == ASSUME HuntInv, EvidenceNext PROVE HuntInv'
<1>1. ASSUME NEW i \in DOMAIN kids, Execute(i) \/ Answered(i) PROVE HuntInv'
  <2>1. CASE Execute(i)
    <3>1. kids[i].at = "intake" /\ (KidTo(i, "called") \/ KidTo(i, "failed")) BY <2>1, Zenon DEF Execute
    <3>2. QED BY <3>1, KidMoves
  <2>2. CASE Answered(i)
    <3>1. kids[i].at = "called" /\ (KidTo(i, "completed") \/ KidTo(i, "failed")) BY <2>2, Zenon DEF Answered
    <3>2. QED BY <3>1, KidMoves
  <2>3. QED BY <1>1, <2>1, <2>2
<1>2. QED
  BY <1>1, ThrowsMove, IntakeMoves, PlanMoves, DispatchNoneMoves, DispatchSpinMoves, DispatchTasksMove,
     LaunchMoves, LaunchedMoves, AwaitMoves, JudgeSkipsMoves, JudgeRoundMoves, GapMoves, RecordMoves, RelayMoves,
     GiveUpMoves, ConvergeMoves, FileMoves, NoteMoves, RegisterMoves, Zenon
  DEF EvidenceNext

LEMMA EvidenceStep == ASSUME HuntInv, [Next]_vars PROVE HuntInv'
<1>1. [EvidenceNext]_evidenceVars BY DEF Next, OthersStill, vars
<1>2. CASE UNCHANGED evidenceVars
  <2>1. UNCHANGED <<hyp, rounds, round, kids, heard, filed>> BY <1>2 DEF evidenceVars
  <2>2. EvidenceType' /\ HeardTells' /\ EarlyTells' /\ JudgeTells' /\ FiledTells'
    BY <2>1 DEF HuntInv, VerdictInv, EvidenceType, HeardTells, Ended, EarlyTells, JudgeTells, FiledTells, Concluded
  <2>3. KidsTell' BY <2>1 DEF HuntInv, VerdictInv, KidsTell, Alike, Whole, Ended, ReportsInOrder
  <2>4. PlanTells' BY <2>1 DEF HuntInv, PlanTells, SameAs, Planned, GapBefore
  <2>5. QED BY <2>2, <2>3, <2>4 DEF HuntInv, VerdictInv
<1>3. QED BY <1>1, <1>2, EvidenceMoves

LEMMA EvidenceIsAttributed == ASSUME HuntInv PROVE AttributedEvidence
<1>1. kids \in Seq(Kid) /\ round.reports \in Seq([task : PlannedTasks, told : Tellings]) /\ round.tasks \in Seq(PlannedTasks)
  BY DEF HuntInv, VerdictInv, EvidenceType, Rounds
<1>2. ASSUME NEW i \in DOMAIN kids, Alike
      PROVE  Told(kids[i]) = IF kids[i].at = "completed"
                             THEN [summary |-> round.tasks[i].tool, hash |-> round.tasks[i].params]
                             ELSE [summary |-> "failed", hash |-> NoHash]
  BY <1>2 DEF Told, Alike
<1>3. ASSUME NEW i \in DOMAIN round.reports
      PROVE  round.reports[i].told \in
               {[summary |-> round.tasks[i].tool, hash |-> round.tasks[i].params],
                [summary |-> "failed", hash |-> NoHash]}
  <2>1. round.reports # <<>> BY <1>3
  <2>2. Alike /\ round.reports = ReportsInOrder BY <2>1 DEF HuntInv, VerdictInv, KidsTell
  <2>3. i \in DOMAIN kids /\ round.reports[i].told = Told(kids[i]) BY <1>3, <2>2 DEF ReportsInOrder
  <2>4. QED BY <1>2, <2>2, <2>3
<1>4. ASSUME filed.verdict # "none"
      PROVE  filed.hashes = [i \in DOMAIN round.tasks |->
                               IF kids[i].at = "completed" THEN round.tasks[i].params ELSE NoHash]
  <2>1. /\ Alike /\ Whole /\ round.reports = ReportsInOrder /\ ~round.failed /\ ~round.spin
        /\ filed.hashes = [i \in DOMAIN round.reports |-> round.reports[i].told.hash]
    BY <1>4 DEF HuntInv, VerdictInv, KidsTell, JudgeTells, FiledTells
  <2>2. DOMAIN kids = DOMAIN round.tasks BY <1>1, <2>1 DEF Whole
  <2>3. \A i \in DOMAIN kids : Told(kids[i]).hash = IF kids[i].at = "completed" THEN round.tasks[i].params ELSE NoHash
    BY <1>2, <2>1
  <2>4. DOMAIN round.reports = DOMAIN kids /\ \A i \in DOMAIN kids : round.reports[i].told.hash = Told(kids[i]).hash
    BY <2>1 DEF ReportsInOrder
  <2>5. QED BY <2>1, <2>2, <2>3, <2>4
<1>5. QED BY <1>3, <1>4 DEF AttributedEvidence

\* For any plans, judgements and orders in which the children end: a verdict rests on the
\* evidence that stands beside its task, on the round recorded last, and on reports nobody
\* rewrote (judge.ts:262-279, 342-417, await-children.ts:44).
THEOREM VerdictRestsHolds == Spec => []VerdictRests
<1>1. Init => HuntInv BY EvidenceInitial DEF Init, HuntInv
<1>2. HuntInv /\ [Next]_vars => HuntInv' BY EvidenceStep
<1>3. ASSUME HuntInv PROVE VerdictRests
  <2>1. AttributedEvidence BY <1>3, EvidenceIsAttributed
  <2>2. ASSUME Concluded
        PROVE  /\ rounds[Len(rounds)].judge.sufficient /\ rounds[Len(rounds)].judge.confidence >= FLOOR
               /\ round.left = "shown"
               /\ rounds[Len(rounds)].judge.verdict = IF hyp.status = "refuted" THEN "miss" ELSE "hit"
    <3>1. /\ round.judge.sufficient /\ hyp.status = EndFor(round.judge.verdict)
          /\ rounds[Len(rounds)].judge = round.judge
          /\ round.left = "shown" /\ round.judge.confidence >= FLOOR /\ round.judge.verdict \in Verdicts
      BY <1>3, <2>2 DEF HuntInv, VerdictInv, JudgeTells
    <3>2. QED BY <3>1 DEF EndFor, Verdicts
  <2>3. filed.verdict # "none" => hyp.status = EndFor(filed.verdict)
    BY <1>3 DEF HuntInv, VerdictInv, JudgeTells, FiledTells
  <2>4. filed.registered => filed.noted /\ filed.verdict = "miss" BY <1>3 DEF HuntInv, VerdictInv, FiledTells
  <2>5. QED BY <2>1, <2>2, <2>3, <2>4 DEF VerdictRests, Concluded, EndFor
<1>4. QED BY <1>1, <1>2, <1>3, PTL DEF Spec

\* For any planner: no plan is dispatched twice in a row for the same gap, and none is
\* refused for another (flow.ts:109-122, 151).
THEOREM SpinMeansRepeatHolds == Spec => []SpinMeansRepeat
<1>1. Init => HuntInv BY EvidenceInitial DEF Init, HuntInv
<1>2. HuntInv /\ [Next]_vars => HuntInv' BY EvidenceStep
<1>3. HuntInv => SpinMeansRepeat BY DEF HuntInv, PlanTells, SpinMeansRepeat
<1>4. QED BY <1>1, <1>2, <1>3, PTL DEF Spec

-----------------------------------------------------------------------------
(* The agent that repairs itself: while nobody edited the runner the lamps   *)
(* are the ladder's own, and both snapshots show it as it was                *)

Proposed ==
  {[by |-> "rule", policy |-> GenerateCandidate], [by |-> "control", policy |-> RejectedControl]}
    \cup {[by |-> "model", policy |-> p] : p \in Policies \cup Misshapen}

LadderTells ==
  /\ evidence \in Trajectories
  /\ candidate \subseteq Proposed /\ (\A c, d \in candidate : c = d)
  /\ phase \in {"start", "propose", "proposed", "compare", "decide", "done"}
  /\ phase \in {"compare", "decide", "done"} => snapshot \in Seq({"honest", "edited"}) /\ Len(snapshot) = 2
  /\ phase \in {"propose", "proposed"} => snapshot \in Seq({"honest", "edited"}) /\ Len(snapshot) = 1
  /\ runner \in {"honest", "edited"}
  /\ runner = "honest" =>
       /\ phase \in {"compare", "decide", "done"} => snapshot[1] = "honest" /\ snapshot[2] = "honest"
       /\ phase \in {"propose", "proposed"} => snapshot[1] = "honest"
       /\ phase \in {"decide", "done"} => \A c \in candidate : lamps \in ValidateCandidate(c.policy)
  /\ phase \in {"decide", "done"} /\ lamps = CheckNames =>
       \A c \in candidate : c.policy.form \notin {"broken", "imports"}
  /\ phase # "done" => decision = {}
  /\ phase = "done" =>
       \A c \in candidate :
         Released <=> c.policy # StablePolicy /\ lamps = CheckNames /\ snapshot[1] = snapshot[2]
  /\ Released => snapshot[1] = snapshot[2]

LEMMA LadderInitial == ASSUME EvolveInit PROVE LadderTells
BY DEF EvolveInit, LadderTells, Released

\* the evidence stands, so what the rule proposes does
LEMMA ProposedStands == ASSUME evidence' = evidence PROVE Proposed' = Proposed
<1>1. Failures' = Failures BY DEF Failures
<1>2. Diagnosed' = Diagnosed BY <1>1 DEF Diagnosed
<1>3. GenerateCandidate' = GenerateCandidate BY <1>2 DEF GenerateCandidate
<1>4. QED BY <1>3 DEF Proposed

LEMMA LampsStand ==
  ASSUME evidence' = evidence, runner' = runner, NEW p
  PROVE  ValidateCandidate(p)' = ValidateCandidate(p)
<1>1. Failures' = Failures BY DEF Failures
<1>2. Validate(p)' = Validate(p) BY <1>1, Zenon DEF Validate, FailureReplay
<1>3. ContainerSays(p)' = ContainerSays(p) BY <1>2, Zenon DEF ContainerSays
<1>4. QED BY <1>3, Zenon DEF ValidateCandidate

\* a source the gate stops lights no lamp behind it
LEMMA GateStops ==
  ASSUME NEW p, CheckNames \in ValidateCandidate(p)
  PROVE  p.form \notin {"broken", "imports"}
<1>1. "sandbox_execution" \in CheckNames /\ CheckNames # {} BY DEF CheckNames
<1>2. p.form = "broken" => ValidateCandidate(p) = {{}} BY DEF ValidateCandidate
<1>3. p.form = "imports" => ValidateCandidate(p) = {{"static_compile"}} BY DEF ValidateCandidate
<1>4. CheckNames # {} /\ CheckNames # {"static_compile"} BY <1>1
<1>5. QED BY <1>2, <1>3, <1>4

LEMMA EvolveMoves == ASSUME LadderTells, EvolveNext PROVE LadderTells'
<1>1. CASE EditRunner
  <2>1. Proposed' = Proposed BY <1>1, ProposedStands DEF EditRunner
  <2>2. QED BY <1>1, <2>1 DEF EditRunner, LadderTells, Released
<1>2. CASE SnapshotBefore
  <2>1. Proposed' = Proposed BY <1>2, ProposedStands DEF SnapshotBefore
  <2>2. snapshot' \in Seq({"honest", "edited"}) /\ Len(snapshot') = 1 /\ snapshot'[1] = runner
    BY <1>2 DEF SnapshotBefore, LadderTells
  <2>3. QED BY <1>2, <2>1, <2>2 DEF SnapshotBefore, LadderTells, Released
<1>3. CASE Propose
  <2>1. Proposed' = Proposed BY <1>3, ProposedStands DEF Propose
  <2>2. candidate' \subseteq Proposed /\ \A c, d \in candidate' : c = d BY <1>3 DEF Propose, Proposed
  <2>3. QED BY <1>3, <2>1, <2>2 DEF Propose, LadderTells, Released
<1>4. CASE SnapshotAfter
  <2>1. Proposed' = Proposed BY <1>4, ProposedStands DEF SnapshotAfter
  <2>2. /\ snapshot' \in Seq({"honest", "edited"}) /\ Len(snapshot') = 2
        /\ snapshot'[1] = snapshot[1] /\ snapshot'[2] = runner
    <3>1. /\ snapshot \in Seq({"honest", "edited"}) /\ Len(snapshot) = 1
          /\ runner \in {"honest", "edited"} /\ snapshot' = Append(snapshot, runner)
      BY <1>4 DEF SnapshotAfter, LadderTells
    <3> DEFINE Marks == {"honest", "edited"}
    <3>2. snapshot \in Seq(Marks) /\ runner \in Marks BY <3>1
    <3> HIDE DEF Marks
    <3>3. /\ Append(snapshot, runner) \in Seq(Marks)
          /\ Len(Append(snapshot, runner)) = Len(snapshot) + 1
          /\ \A k \in 1 .. Len(snapshot) : Append(snapshot, runner)[k] = snapshot[k]
          /\ Append(snapshot, runner)[Len(snapshot) + 1] = runner
      BY <3>2, AppendProperties
    <3>4. /\ Len(Append(snapshot, runner)) = 2 /\ Append(snapshot, runner)[2] = runner
          /\ Append(snapshot, runner)[1] = snapshot[1]
      <4>1. Len(snapshot) = 1 BY <3>1
      <4> DEFINE App == Append(snapshot, runner)
      <4>2. /\ Len(App) = Len(snapshot) + 1 /\ \A k \in 1 .. Len(snapshot) : App[k] = snapshot[k]
            /\ App[Len(snapshot) + 1] = runner
        BY <3>3
      <4> HIDE DEF App
      <4>3. Len(App) = 2 /\ App[2] = runner /\ App[1] = snapshot[1] BY <4>1, <4>2
      <4>4. QED BY <4>3 DEF App
    <3>5. QED BY <3>1, <3>3, <3>4, Zenon DEF Marks
  <2>3. QED BY <1>4, <2>1, <2>2 DEF SnapshotAfter, LadderTells, Released
<1>5. CASE RunLadder
  <2>1. Proposed' = Proposed BY <1>5, ProposedStands DEF RunLadder
  <2>2. PICK c \in candidate : lamps' \in ValidateCandidate(c.policy)
    BY <1>5, Zenon DEF RunLadder
  <2>3. candidate' = candidate /\ \A d \in candidate : d = c BY <1>5, <2>2 DEF RunLadder, LadderTells
  <2>4. PICK p : p = c.policy BY Zenon
  <2>5. \A d \in candidate' : lamps' \in ValidateCandidate(d.policy)'
    <3>1. ValidateCandidate(p)' = ValidateCandidate(p) BY <1>5, LampsStand, Zenon DEF RunLadder
    <3>2. QED BY <2>2, <2>3, <2>4, <3>1, Zenon
  <2>6. lamps' = CheckNames => \A d \in candidate' : d.policy.form \notin {"broken", "imports"}
    BY <2>2, <2>3, <2>4, GateStops, Zenon
  <2>7. CheckNames' = CheckNames BY DEF CheckNames, SandboxChecks
  <2>8. QED BY <1>5, <2>1, <2>5, <2>6, <2>7 DEF RunLadder, LadderTells, Released
<1>6. CASE ReleaseManifest
  <2>1. Proposed' = Proposed BY <1>6, ProposedStands DEF ReleaseManifest
  <2> DEFINE Fit(d) == d.policy # StablePolicy /\ lamps = CheckNames /\ snapshot[1] = snapshot[2]
  <2>2. PICK c \in candidate :
          decision' = {IF Fit(c) THEN "release_to_canary" ELSE "reject_candidate"}
    BY <1>6, Zenon DEF ReleaseManifest
  <2>3. Released' <=> Fit(c) BY <2>2, Zenon DEF Released
  <2>4. /\ candidate' = candidate /\ lamps' = lamps /\ snapshot' = snapshot /\ phase' = "done"
        /\ phase = "decide" /\ evidence' = evidence /\ runner' = runner
        /\ \A d \in candidate : d = c
    BY <1>6, <2>2 DEF ReleaseManifest, LadderTells
  <2>5. \A d \in candidate' : Released' <=> d.policy # StablePolicy /\ lamps' = CheckNames /\ snapshot'[1] = snapshot'[2]
    BY <2>3, <2>4, Zenon
  <2>6. Released' => snapshot'[1] = snapshot'[2] BY <2>3, <2>4, Zenon
  <2>7. runner' = "honest" => \A d \in candidate' : lamps' \in ValidateCandidate(d.policy)'
    <3>1. SUFFICES ASSUME runner' = "honest", NEW d \in candidate' PROVE lamps' \in ValidateCandidate(d.policy)'
      OBVIOUS
    <3>2. lamps \in ValidateCandidate(d.policy) BY <2>4, <3>1 DEF LadderTells
    <3>3. PICK p : p = d.policy BY Zenon
    <3>4. ValidateCandidate(p)' = ValidateCandidate(p) BY <2>4, LampsStand, Zenon
    <3>5. QED BY <2>4, <3>2, <3>3, <3>4, Zenon
  <2> HIDE DEF Fit
  <2>8. QED BY <2>1, <2>4, <2>5, <2>6, <2>7 DEF LadderTells
<1>7. QED BY <1>1, <1>2, <1>3, <1>4, <1>5, <1>6 DEF EvolveNext

LEMMA EvolveStep == ASSUME LadderTells, [EvolveNext]_evolveVars PROVE LadderTells'
<1>1. CASE EvolveNext BY <1>1, EvolveMoves
<1>2. CASE evolveVars' = evolveVars
  <2>1. /\ phase' = phase /\ evidence' = evidence /\ candidate' = candidate /\ runner' = runner
        /\ snapshot' = snapshot /\ lamps' = lamps /\ decision' = decision
    BY <1>2 DEF evolveVars
  <2>2. Proposed' = Proposed BY <2>1, ProposedStands
  <2>3. Released' = Released BY <2>1 DEF Released
  <2>4. runner' = "honest" /\ phase' \in {"decide", "done"} =>
          \A d \in candidate' : lamps' \in ValidateCandidate(d.policy)'
    <3>1. SUFFICES ASSUME runner' = "honest", phase' \in {"decide", "done"}, NEW d \in candidate'
                   PROVE  lamps' \in ValidateCandidate(d.policy)'
      OBVIOUS
    <3>2. lamps \in ValidateCandidate(d.policy) BY <2>1, <3>1 DEF LadderTells
    <3>3. PICK p : p = d.policy BY Zenon
    <3>4. ValidateCandidate(p)' = ValidateCandidate(p) BY <2>1, LampsStand, Zenon
    <3>5. QED BY <2>1, <3>2, <3>3, <3>4, Zenon
  <2>5. QED BY <2>1, <2>2, <2>3, <2>4 DEF LadderTells
<1>3. QED BY <1>1, <1>2

\* what all lamps say together, of a runner nobody edited and a source that keeps to itself
LEMMA AllLit ==
  ASSUME runner = "honest", NEW p, p.form = "good", CheckNames \in ValidateCandidate(p)
  PROVE  /\ FailureReplay(p) /\ TemporaryRecovery(p) /\ OldTaskRegression(p)
         /\ \A i \in Failures : ShouldOpenCircuit(p, 1, i.code, i.retryable)
<1> DEFINE Replay == FailureReplay(p)
           Recovery == TemporaryRecovery(p)
           Regression == OldTaskRegression(p)
           Circuit == Failures # {} /\ \A i \in Failures : ShouldOpenCircuit(p, 1, i.code, i.retryable)
           Lit == Validate(p)
<1>1. {"failure_replay", "nonretryable_circuit", "temporary_recovery", "old_task_regression"} \subseteq CheckNames
  BY DEF CheckNames, SandboxChecks
<1>2. \A x \in {"failure_replay", "nonretryable_circuit", "temporary_recovery", "old_task_regression"} :
        x \in Lit
  <2>1. ContainerSays(p) = {Lit} BY Zenon DEF ContainerSays
  <2>2. p.form # "broken" /\ p.form # "imports" OBVIOUS
  <2>3. ValidateCandidate(p) = {{"static_compile", "security_scan"}}
          \cup {{"static_compile", "security_scan", "sandbox_execution"} \cup says : says \in ContainerSays(p)}
    BY <2>2, Zenon DEF ValidateCandidate
  <2> HIDE DEF Lit
  <2>4. \/ CheckNames = {"static_compile", "security_scan"}
        \/ CheckNames = {"static_compile", "security_scan", "sandbox_execution"} \cup Lit
    BY <2>1, <2>3
  <2>5. QED BY <1>1, <2>4
<1>3. /\ "failure_replay" \in Lit => Replay
      /\ "nonretryable_circuit" \in Lit => Circuit
      /\ "temporary_recovery" \in Lit => Recovery
      /\ "old_task_regression" \in Lit => Regression
  <2>1. PICK ready \in BOOLEAN : ready <=> CanaryReady(p) BY Zenon
  <2>2. PICK back \in BOOLEAN : back <=> Retried(StablePolicy, 0) /\ ~Retried(StablePolicy, 3) BY Zenon
  <2>3. Lit \subseteq {"public_api_compatible"} \cup {c \in {"failure_replay"} : Replay}
                 \cup {c \in {"nonretryable_circuit"} : Circuit} \cup {c \in {"temporary_recovery"} : Recovery}
                 \cup {c \in {"old_task_regression"} : Regression} \cup {"canary_ready", "rollback_ready"}
    BY Zenon DEF Validate
  <2> HIDE DEF Replay, Recovery, Regression, Circuit, Lit
  <2>4. QED BY <2>3
<1>4. QED BY <1>1, <1>2, <1>3, Zenon

\* of other parameters the runner answers nothing
LEMMA OtherShapesStay ==
  ASSUME runner = "honest", NEW p, CheckNames \in ValidateCandidate(p)
  PROVE  p.form # "other_api"
<1>1. SUFFICES ASSUME p.form = "other_api" PROVE FALSE OBVIOUS
<1>2. ContainerSays(p) = {{}} BY <1>1 DEF ContainerSays, Validate
<1>3. ValidateCandidate(p) = {{"static_compile", "security_scan"}}
        \cup {{"static_compile", "security_scan", "sandbox_execution"} \cup says : says \in ContainerSays(p)}
  BY <1>1 DEF ValidateCandidate
<1>4. "canary_ready" \in CheckNames BY DEF CheckNames, SandboxChecks
<1>5. QED BY <1>2, <1>3, <1>4

\* the replayed failures are given up after one call
LEMMA ReplayCures ==
  ASSUME evidence \in Trajectories, NEW p, FailureReplay(p), NEW i \in Failures
  PROVE  CallsMade(p, i) = 1 /\ ~ShouldRetry(p, i.code, i.retryable, 0)
<1>1. i.attempts \in Nat \ {0} BY EvolveAssumption DEF Failures
<1>2. \A k \in 0 .. i.attempts - 1 : ~ShouldRetry(p, i.code, i.retryable, k) BY DEF FailureReplay
<1>3. ~ShouldRetry(p, i.code, i.retryable, 0) BY <1>1, <1>2
<1> DEFINE Stops == {n \in 1 .. i.attempts : n = i.attempts \/ ~ShouldRetry(p, i.code, i.retryable, n - 1)}
           Least(x) == \A y \in Stops : x =< y
<1>4. 1 \in Stops /\ Stops \subseteq Nat \ {0}
  <2>1. 1 \in 1 .. i.attempts /\ 1 - 1 = 0 BY <1>1
  <2>2. ~ShouldRetry(p, i.code, i.retryable, 1 - 1) BY <1>3, <2>1
  <2>3. 1 \in Stops BY <2>1, <2>2, Zenon DEF Stops
  <2>4. Stops \subseteq 1 .. i.attempts BY Zenon DEF Stops
  <2>5. 1 .. i.attempts \subseteq Nat \ {0} BY <1>1
  <2>6. QED BY <2>3, <2>4, <2>5, Zenon
<1>5. CallsMade(p, i) = CHOOSE x \in Stops : Least(x) BY Zenon DEF CallsMade, Min
<1> HIDE DEF Stops
<1>6. Least(1) BY <1>4
<1>7. \A x \in Stops : Least(x) => x = 1 BY <1>4
<1> HIDE DEF Least
<1>8. (CHOOSE x \in Stops : Least(x)) = 1 BY <1>4, <1>6, <1>7, Zenon
<1>9. QED BY <1>3, <1>5, <1>8

\* the control is asked for nothing again, so it does not wait out a timeout
LEMMA ControlWaitsForNothing == ~TemporaryRecovery(RejectedControl)
BY DEF TemporaryRecovery, Retried, ShouldRetry, RejectedControl, StablePolicy

\* the repair lights every lamp where every failure is one it heeds
LEMMA RepairLights ==
  ASSUME evidence \in Trajectories, Diagnosed, \A i \in Failures : ~i.retryable, NEW c \in {GenerateCandidate}
  PROVE  Validate(c) = SandboxChecks /\ c.form = "good" /\ c # StablePolicy
<1>1. c = [form |-> "good", codes |-> {"PAYMENT_DECLINED", "AUTH_DENIED"}, flag |-> TRUE, cap |-> 3,
           atOnce |-> TRUE, threshold |-> 5, whims |-> {}]
  BY DEF GenerateCandidate, StablePolicy
<1>2. c.form = "good" /\ c # StablePolicy BY <1>1 DEF StablePolicy
<1>3. Failures # {}
  <2>1. PICK code \in Codes : Cardinality({i \in Failures : i.code = code /\ ~i.retryable /\ i.attempts > 1}) >= 2
    BY Zenon DEF Diagnosed
  <2>2. SUFFICES ASSUME Failures = {} PROVE FALSE OBVIOUS
  <2>3. {i \in Failures : i.code = code /\ ~i.retryable /\ i.attempts > 1} = {} BY <2>2
  <2>4. Cardinality({}) = 0 BY FS_EmptySet
  <2>5. 0 >= 2 BY <2>1, <2>3, <2>4, Zenon
  <2>6. QED BY <2>5
<1>4. \A i \in Failures : Permanent(c, i.code, i.retryable) BY <1>1 DEF Permanent
<1>5. FailureReplay(c) BY <1>1, <1>3, <1>4 DEF FailureReplay, ShouldRetry
<1>6. Failures # {} /\ \A i \in Failures : ShouldOpenCircuit(c, 1, i.code, i.retryable)
  BY <1>1, <1>3, <1>4 DEF ShouldOpenCircuit
<1>7. ~Permanent(c, "TEMPORARY_TIMEOUT", TRUE) BY <1>1 DEF Permanent
<1>8. Retried(c, 0) /\ Retried(c, 1) /\ Retried(c, 2) /\ ~Retried(c, 3)
  <2>1. c.cap = 3 BY <1>1
  <2>2. ASSUME NEW k \in Nat PROVE Retried(c, k) <=> k < c.cap
    <3>1. c.whims = {} BY <1>1
    <3>2. QED BY <1>7, <3>1, Zenon DEF Retried, ShouldRetry
  <2>3. QED BY <2>1, <2>2
<1>9. TemporaryRecovery(c) /\ OldTaskRegression(c)
  BY <1>1, <1>7, <1>8 DEF TemporaryRecovery, OldTaskRegression, ShouldOpenCircuit
<1>10. CanaryReady(c)
  <2>1. Permanent(c, "AUTH_DENIED", TRUE) BY <1>1 DEF Permanent
  <2>2. c.atOnce /\ c.whims = {} BY <1>1
  <2>3. ~ShouldRetry(c, "AUTH_DENIED", TRUE, 0) BY <2>1, <2>2, Zenon DEF ShouldRetry
  <2>4. ShouldOpenCircuit(c, 1, "AUTH_DENIED", TRUE) BY <2>1, <2>2 DEF ShouldOpenCircuit
  <2>5. QED BY <1>9, <2>3, <2>4, Zenon DEF CanaryReady
<1>11. Retried(StablePolicy, 0) /\ ~Retried(StablePolicy, 3)
  BY DEF Retried, ShouldRetry, Permanent, StablePolicy
<1>12. c.form # "other_api" BY <1>2
<1>13. Validate(c) = {"public_api_compatible"} \cup {"failure_replay"} \cup {"nonretryable_circuit"}
         \cup {"temporary_recovery"} \cup {"old_task_regression"} \cup {"canary_ready"} \cup {"rollback_ready"}
  <2> DEFINE Circuit == Failures # {} /\ \A i \in Failures : ShouldOpenCircuit(c, 1, i.code, i.retryable)
             Replay == FailureReplay(c)
             Recovery == TemporaryRecovery(c)
             Regression == OldTaskRegression(c)
             Ready == CanaryReady(c)
             Back == Retried(StablePolicy, 0) /\ ~Retried(StablePolicy, 3)
  <2>1. Validate(c) = {"public_api_compatible"} \cup {k \in {"failure_replay"} : Replay}
           \cup {k \in {"nonretryable_circuit"} : Circuit} \cup {k \in {"temporary_recovery"} : Recovery}
           \cup {k \in {"old_task_regression"} : Regression} \cup {k \in {"canary_ready"} : Ready}
           \cup {k \in {"rollback_ready"} : Back}
    BY <1>12, Zenon DEF Validate
  <2>2. Replay /\ Circuit /\ Recovery /\ Regression /\ Ready /\ Back BY <1>5, <1>6, <1>9, <1>10, <1>11, Zenon
  <2> HIDE DEF Circuit, Replay, Recovery, Regression, Ready, Back
  <2>3. QED BY <2>1, <2>2
<1>14. QED BY <1>2, <1>13 DEF SandboxChecks

LEMMA LadderCures == ASSUME LadderTells PROVE ReleasedCures
<1>1. ASSUME Released, runner = "honest", NEW c \in candidate, c.policy.form = "good"
      PROVE  /\ \A i \in Failures : CallsMade(c.policy, i) = 1 /\ ShouldOpenCircuit(c.policy, 1, i.code, i.retryable)
             /\ Recovers(c.policy, 3) /\ ~Recovers(c.policy, 4)
             /\ ~\E i \in Failures : i.code = "TEMPORARY_TIMEOUT" /\ i.retryable
  <2>1. phase = "done" BY <1>1 DEF LadderTells, Released
  <2>2. evidence \in Trajectories BY <1>1 DEF LadderTells
  <2>3. lamps = CheckNames BY <1>1, <2>1 DEF LadderTells
  <2>4. PICK p : p = c.policy BY Zenon
  <2>5. CheckNames \in ValidateCandidate(p)
    <3>1. lamps \in ValidateCandidate(c.policy) BY <1>1, <2>1 DEF LadderTells
    <3>2. QED BY <2>3, <2>4, <3>1, Zenon
  <2>6. /\ FailureReplay(p) /\ TemporaryRecovery(p) /\ OldTaskRegression(p)
        /\ \A i \in Failures : ShouldOpenCircuit(p, 1, i.code, i.retryable)
    BY <1>1, <2>4, <2>5, AllLit, Zenon
  <2>7. \A i \in Failures : CallsMade(p, i) = 1 /\ ~ShouldRetry(p, i.code, i.retryable, 0)
    BY <2>2, <2>6, ReplayCures, Zenon
  <2>8. Retried(p, 0) /\ Retried(p, 1) /\ Retried(p, 2) /\ ~Retried(p, 3)
    BY <2>6, Zenon DEF TemporaryRecovery, OldTaskRegression
  <2>9. Recovers(p, 3)
    <3>1. 0 .. 3 - 1 = {0, 1, 2} OBVIOUS
    <3>2. QED BY <2>8, <3>1 DEF Recovers
  <2>10. ~Recovers(p, 4)
    <3>1. 3 \in 0 .. 4 - 1 OBVIOUS
    <3>2. QED BY <2>8, <3>1, Zenon DEF Recovers
  <2>11. ~\E i \in Failures : i.code = "TEMPORARY_TIMEOUT" /\ i.retryable
    <3>1. SUFFICES ASSUME NEW i \in Failures, i.code = "TEMPORARY_TIMEOUT", i.retryable PROVE FALSE OBVIOUS
    <3>2. i.retryable = TRUE BY <2>2, <3>1, EvolveAssumption DEF Failures
    <3>3. ~ShouldRetry(p, "TEMPORARY_TIMEOUT", TRUE, 0) BY <2>7, <3>1, <3>2, Zenon
    <3>4. QED BY <2>8, <3>3, Zenon DEF Retried
  <2>12. QED BY <2>4, <2>6, <2>7, <2>9, <2>10, <2>11, Zenon
<1>2. ASSUME Released
      PROVE  snapshot[1] = snapshot[2] /\ \A c \in candidate : c.policy.form \notin {"broken", "imports"}
  <2>1. phase = "done" BY <1>2 DEF LadderTells, Released
  <2>2. candidate = {} \/ lamps = CheckNames BY <1>2, <2>1 DEF LadderTells
  <2>3. QED BY <1>2, <2>1, <2>2 DEF LadderTells
<1>3. ASSUME Released, runner = "honest", NEW c \in candidate
      PROVE  /\ c.policy.form \in {"good", "unruly"}
             /\ c.by # "control" /\ (c.by = "rule" => Diagnosed)
  <2>1. phase = "done" BY <1>3 DEF LadderTells, Released
  <2>2. c \in Proposed BY <1>3 DEF LadderTells
  <2>3. c.policy # StablePolicy /\ lamps = CheckNames /\ lamps \in ValidateCandidate(c.policy)
    BY <1>3, <2>1 DEF LadderTells
  <2>4. PICK p : p = c.policy BY Zenon
  <2>5. CheckNames \in ValidateCandidate(p) BY <2>3, <2>4, Zenon
  <2>6. p.form \in {"good", "unruly"}
    <3>1. p.form \in {"good", "broken", "imports", "other_api", "unruly"}
      <4>1. p \in Policies \cup Misshapen \/ p = GenerateCandidate \/ p = RejectedControl
        BY <2>2, <2>4 DEF Proposed
      <4>2. p \in Policies => p.form = "good" BY DEF Policies
      <4>3. p \in Misshapen => p.form \in {"broken", "imports", "other_api", "unruly"}
        BY DEF Misshapen, StablePolicy
      <4>4. p = GenerateCandidate => p.form = "good"
        <5>1. \/ GenerateCandidate = StablePolicy
              \/ GenerateCandidate = [StablePolicy EXCEPT !.codes = {"PAYMENT_DECLINED", "AUTH_DENIED"},
                                                         !.flag = TRUE, !.atOnce = TRUE]
          BY Zenon DEF GenerateCandidate
        <5>2. StablePolicy.form = "good" BY DEF StablePolicy
        <5>3. [StablePolicy EXCEPT !.codes = {"PAYMENT_DECLINED", "AUTH_DENIED"},
                                   !.flag = TRUE, !.atOnce = TRUE].form = "good"
          BY DEF StablePolicy
        <5>4. QED BY <5>1, <5>2, <5>3, Zenon
      <4>5. p = RejectedControl => p.form = "good" BY DEF RejectedControl, StablePolicy
      <4>6. QED BY <4>1, <4>2, <4>3, <4>4, <4>5
    <3>2. p.form # "broken" /\ p.form # "imports" BY <2>5, GateStops, Zenon
    <3>3. p.form # "other_api" BY <1>3, <2>5, OtherShapesStay, Zenon
    <3>4. QED BY <3>1, <3>2, <3>3
  <2>7. c.by # "control"
    <3>1. SUFFICES ASSUME c.by = "control" PROVE FALSE OBVIOUS
    <3>2. p = RejectedControl BY <2>2, <2>4, <3>1 DEF Proposed
    <3>3. p.form = "good" BY <3>2 DEF RejectedControl, StablePolicy
    <3>4. TemporaryRecovery(p) BY <1>3, <2>5, <3>3, AllLit, Zenon
    <3>5. QED BY <3>2, <3>4, ControlWaitsForNothing, Zenon
  <2>8. c.by = "rule" => Diagnosed
    <3>1. c.by = "rule" => c.policy = GenerateCandidate BY <2>2 DEF Proposed
    <3>2. QED BY <2>3, <3>1 DEF GenerateCandidate
  <2>9. QED BY <2>4, <2>6, <2>7, <2>8, Zenon
<1>4. ASSUME phase = "done", ~Released, runner = "honest", "sandbox_execution" \in lamps, Diagnosed,
             \A i \in Failures : ~i.retryable, NEW c \in candidate, c.by = "rule"
      PROVE  FALSE
  <2>1. c \in Proposed /\ evidence \in Trajectories BY <1>4 DEF LadderTells
  <2>2. c.policy = GenerateCandidate BY <1>4, <2>1 DEF Proposed
  <2>3. PICK p : p = c.policy BY Zenon
  <2>4. Validate(p) = SandboxChecks /\ p.form = "good" /\ p # StablePolicy
    BY <1>4, <2>1, <2>2, <2>3, RepairLights
  <2>5. lamps \in ValidateCandidate(p)
    <3>1. lamps \in ValidateCandidate(c.policy) BY <1>4 DEF LadderTells
    <3>2. QED BY <2>3, <3>1, Zenon
  <2>6. ContainerSays(p) = {SandboxChecks} BY <1>4, <2>4, Zenon DEF ContainerSays
  <2>7. ValidateCandidate(p) = {{"static_compile", "security_scan"}}
          \cup {{"static_compile", "security_scan", "sandbox_execution"} \cup says : says \in ContainerSays(p)}
    <3>1. p.form # "broken" /\ p.form # "imports" BY <2>4
    <3>2. QED BY <3>1, Zenon DEF ValidateCandidate
  <2>8. lamps = CheckNames
    <3>1. lamps = {"static_compile", "security_scan", "sandbox_execution"} \cup SandboxChecks
      BY <1>4, <2>5, <2>6, <2>7
    <3>2. QED BY <3>1 DEF CheckNames
  <2>9. snapshot[1] = snapshot[2] BY <1>4 DEF LadderTells
  <2>10. Released BY <1>4, <2>3, <2>4, <2>8, <2>9 DEF LadderTells
  <2>11. QED BY <1>4, <2>10
<1>5. QED BY <1>1, <1>2, <1>3, <1>4, Zenon DEF ReleasedCures

\* For any trajectories, circuits, caps and whims, with which a proposal may be any policy
\* that answers by the question alone: one an unedited runner releases gives up each
\* failed tool after one call and still waits out three timeouts.  Of a source that keeps
\* state or changes the runner only this is proved: the gate stops it if it imports or
\* does not compile, and no edit between the snapshots helps it (evolution.py:104-150,
\* 266-311, sandbox_runner.py:39-127).
THEOREM ReleasedCuresHolds == Spec => []ReleasedCures
<1>1. Init => LadderTells BY LadderInitial DEF Init
<1>2. LadderTells /\ [Next]_vars => LadderTells'
  <2>1. [Next]_vars => [EvolveNext]_evolveVars BY DEF Next, OthersStill, vars
  <2>2. QED BY <2>1, EvolveStep
<1>3. LadderTells => ReleasedCures BY LadderCures
<1>4. QED BY <1>1, <1>2, <1>3, PTL DEF Spec

-----------------------------------------------------------------------------
(* The chain of evidence: as long as nobody appended behind a stale tail,    *)
(* every entry names what the calls before it were, whatever was edited; the *)
(* last is always the last call                                              *)

LEMMA RemoveAtTells ==
  ASSUME NEW S, NEW s \in Seq(S), NEW i \in 1 .. Len(s)
  PROVE  /\ RemoveAt(s, i) \in Seq(S) /\ Len(RemoveAt(s, i)) = Len(s) - 1
         /\ \A j \in 1 .. Len(s) - 1 : RemoveAt(s, i)[j] = IF j < i THEN s[j] ELSE s[j + 1]
<1> DEFINE front == SubSeq(s, 1, i - 1)
           back == SubSeq(s, i + 1, Len(s))
<1>0. Len(s) \in Nat /\ i \in Nat /\ 1 <= i /\ i <= Len(s) BY LenProperties
<1>1. /\ front \in Seq(S) /\ Len(front) = i - 1 /\ \A k \in 1 .. i - 1 : front[k] = s[k]
  <2>1. \A k \in 1 .. i - 1 : s[k] \in S BY ElementOfSeq
  <2>2. /\ front \in Seq(S) /\ Len(front) = (IF 1 <= i - 1 THEN i - 1 - 1 + 1 ELSE 0)
        /\ \A k \in 1 .. i - 1 - 1 + 1 : front[k] = s[1 + k - 1]
    BY <2>1, SubSeqProperties
  <2>3. i - 1 - 1 + 1 = i - 1 /\ \A k \in Nat : 1 + k - 1 = k BY <1>0
  <2>4. 1 <= i - 1 \/ i - 1 = 0 BY <1>0
  <2> HIDE DEF front
  <2>5. Len(front) = i - 1 BY <2>2, <2>3, <2>4
  <2>6. \A k \in 1 .. i - 1 : front[k] = s[k] BY <1>0, <2>2, <2>3
  <2>7. QED BY <2>2, <2>5, <2>6
<1>2. /\ back \in Seq(S) /\ Len(back) = Len(s) - i /\ \A k \in 1 .. Len(s) - i : back[k] = s[i + k]
  <2>1. \A k \in i + 1 .. Len(s) : s[k] \in S BY ElementOfSeq
  <2>2. /\ back \in Seq(S) /\ Len(back) = (IF i + 1 <= Len(s) THEN Len(s) - (i + 1) + 1 ELSE 0)
        /\ \A k \in 1 .. Len(s) - (i + 1) + 1 : back[k] = s[i + 1 + k - 1]
    BY <2>1, SubSeqProperties
  <2> HIDE DEF back
  <2>3. QED BY <2>2
<1>3. RemoveAt(s, i) = front \o back BY DEF RemoveAt
<1> HIDE DEF front, back
<1>4. /\ front \o back \in Seq(S) /\ Len(front \o back) = Len(front) + Len(back)
      /\ \A k \in 1 .. Len(front) + Len(back) :
           (front \o back)[k] = IF k <= Len(front) THEN front[k] ELSE back[k - Len(front)]
  BY <1>1, <1>2, ConcatProperties
<1>5. ASSUME NEW j \in 1 .. Len(s) - 1 PROVE (front \o back)[j] = IF j < i THEN s[j] ELSE s[j + 1]
  <2>1. (front \o back)[j] = IF j <= i - 1 THEN front[j] ELSE back[j - (i - 1)] BY <1>1, <1>2, <1>4
  <2>2. j < i => (front \o back)[j] = s[j] BY <1>1, <2>1
  <2>3. ~(j < i) => back[j - (i - 1)] = s[i + (j - (i - 1))]
    <3>1. ~(j < i) => j - (i - 1) \in 1 .. Len(s) - i OBVIOUS
    <3>2. QED BY <1>2, <3>1
  <2>4. i + (j - (i - 1)) = j + 1 OBVIOUS
  <2>5. QED BY <2>1, <2>2, <2>3, <2>4
<1>6. QED BY <1>1, <1>2, <1>3, <1>4, <1>5

FirstCalls(n) == [k \in 1 .. n |-> k]

Entry == [body : Nat, prev : Seq(Nat), hash : Seq(Nat)]

\* as it was appended, or altered, or altered and sealed anew
EntryTells(e) ==
  \E n \in Nat :
    /\ e.prev = FirstCalls(n)
    /\ \/ e.body = n + 1 /\ e.hash = FirstCalls(n + 1)
       \/ e.body = 0 /\ e.hash \in {FirstCalls(n + 1), Append(FirstCalls(n), 0)}

Appended(e, n) == e.body = n /\ e.prev = FirstCalls(n - 1) /\ e.hash = FirstCalls(n)

TailTells ==
  /\ recorded = FirstCalls(Len(recorded)) /\ Len(chain) <= Len(recorded)
  /\ chain = << >> => recorded = << >>
  /\ chain # << >> => Appended(chain[Len(chain)], Len(recorded))
  /\ \A i \in 1 .. Len(chain) : EntryTells(chain[i])
  /\ ~edited => Len(chain) = Len(recorded) /\ \A i \in 1 .. Len(chain) : Appended(chain[i], i)
  /\ edited => Len(chain) < Len(recorded) \/ \E i \in 1 .. Len(chain) : chain[i].body = 0

ChainTells ==
  /\ chain \in Seq(Entry) /\ recorded \in Seq(Nat) /\ tail \in [Writers -> SUBSET Seq(Nat)]
  /\ edited \in BOOLEAN /\ overlapped \in BOOLEAN
  /\ ~overlapped => TailTells

LEMMA FirstCallsTell ==
  ASSUME NEW n \in Nat
  PROVE  /\ FirstCalls(n) \in Seq(Nat) /\ Len(FirstCalls(n)) = n /\ \A k \in 1 .. n : FirstCalls(n)[k] = k
         /\ Append(FirstCalls(n), n + 1) = FirstCalls(n + 1)
         /\ Append(FirstCalls(n), 0) \in Seq(Nat)
         /\ \A m \in Nat : Append(FirstCalls(n), 0) # FirstCalls(m)
<1>1. FirstCalls(n) \in Seq(Nat) /\ Len(FirstCalls(n)) = n /\ \A k \in 1 .. n : FirstCalls(n)[k] = k BY DEF FirstCalls
<1>2. Append(FirstCalls(n), n + 1) = FirstCalls(n + 1)
  <2>1. FirstCalls(n + 1) \in Seq(Nat) /\ Len(FirstCalls(n + 1)) = n + 1 /\ \A k \in 1 .. n + 1 : FirstCalls(n + 1)[k] = k BY DEF FirstCalls
  <2>2. /\ Append(FirstCalls(n), n + 1) \in Seq(Nat) /\ Len(Append(FirstCalls(n), n + 1)) = Len(FirstCalls(n)) + 1
        /\ \A k \in 1 .. Len(FirstCalls(n)) : Append(FirstCalls(n), n + 1)[k] = FirstCalls(n)[k]
        /\ Append(FirstCalls(n), n + 1)[Len(FirstCalls(n)) + 1] = n + 1
    BY <1>1, AppendProperties
  <2> DEFINE a == Append(FirstCalls(n), n + 1)
             b == FirstCalls(n + 1)
  <2>3. a \in Seq(Nat) /\ Len(a) = n + 1 /\ \A k \in 1 .. n + 1 : a[k] = k BY <1>1, <2>2
  <2>4. b \in Seq(Nat) /\ Len(b) = n + 1 /\ \A k \in 1 .. n + 1 : b[k] = k BY <2>1
  <2> HIDE DEF a, b
  <2>5. a = b BY <2>3, <2>4, SeqEqual
  <2>6. QED BY <2>5 DEF a, b
<1>3. /\ Append(FirstCalls(n), 0) \in Seq(Nat) /\ Len(Append(FirstCalls(n), 0)) = n + 1 /\ Append(FirstCalls(n), 0)[n + 1] = 0
  BY <1>1, AppendProperties
<1>4. ASSUME NEW m \in Nat, Append(FirstCalls(n), 0) = FirstCalls(m) PROVE FALSE
  <2>1. Len(FirstCalls(m)) = m /\ \A k \in 1 .. m : FirstCalls(m)[k] = k BY DEF FirstCalls
  <2>2. m = n + 1 BY <1>3, <1>4, <2>1
  <2>3. FirstCalls(m)[n + 1] = n + 1 BY <2>1, <2>2
  <2>4. QED BY <1>3, <1>4, <2>3
<1>5. QED BY <1>1, <1>2, <1>3, <1>4

LEMMA ChainInitial == ASSUME ChainInit PROVE ChainTells
<1>1. FirstCalls(0) = << >>
  <2>1. FirstCalls(0) \in Seq(Nat) /\ Len(FirstCalls(0)) = 0 BY FirstCallsTell
  <2>2. QED BY <2>1, EmptySeq
<1>2. << >> \in Seq(Entry) /\ << >> \in Seq(Nat) /\ Len(<< >>) = 0 BY EmptySeq
<1>3. chain = << >> /\ recorded = << >> /\ tail \in [Writers -> SUBSET Seq(Nat)] /\ edited = FALSE /\ overlapped = FALSE
  BY DEF ChainInit
<1>4. Len(chain) = 0 /\ Len(recorded) = 0 /\ recorded = FirstCalls(Len(recorded)) BY <1>1, <1>2, <1>3, Zenon
<1>5. TailTells BY <1>3, <1>4 DEF TailTells
<1>6. QED BY <1>2, <1>3, <1>5 DEF ChainTells

LEMMA AppendEvidenceMoves == ASSUME ChainTells, NEW a \in Writers, AppendEvidence(a) PROVE ChainTells'
<1> DEFINE m == Len(recorded)
           body == m + 1
<1>1. PICK prev \in tail[a] :
        LET new == [body |-> body, prev |-> prev, hash |-> Append(prev, body)] IN
        /\ chain' = Append(chain, new) /\ recorded' = Append(recorded, body)
        /\ overlapped' = (overlapped \/ prev # TailHash)
  BY Zenon DEF AppendEvidence, EntryHash
<1>2. tail' = [tail EXCEPT ![a] = {}] /\ edited' = edited BY DEF AppendEvidence
<1>3. /\ chain \in Seq(Entry) /\ recorded \in Seq(Nat) /\ prev \in Seq(Nat) /\ m \in Nat /\ Len(chain) \in Nat
      /\ edited \in BOOLEAN
  BY <1>1, LenProperties DEF ChainTells
<1>4. PICK new : new = [body |-> body, prev |-> prev, hash |-> Append(prev, body)] BY Zenon
<1>5. new \in Entry /\ new.body = body /\ new.prev = prev /\ new.hash = Append(prev, body)
  <2>1. Append(prev, body) \in Seq(Nat) BY <1>3, AppendProperties
  <2>2. QED BY <1>3, <1>4, <2>1 DEF Entry
<1>6. /\ chain' \in Seq(Entry) /\ Len(chain') = Len(chain) + 1
      /\ \A k \in 1 .. Len(chain) : chain'[k] = chain[k]
      /\ chain'[Len(chain) + 1] = new
  <2>1. chain' = Append(chain, new) BY <1>1, <1>4, Zenon
  <2>2. QED BY <1>3, <1>5, <2>1, AppendProperties
<1>7. recorded' \in Seq(Nat) /\ Len(recorded') = m + 1 BY <1>1, <1>3, AppendProperties
<1>8. tail' \in [Writers -> SUBSET Seq(Nat)] /\ overlapped' \in BOOLEAN
  BY <1>1, <1>2 DEF ChainTells
<1>9. ASSUME ~overlapped' PROVE TailTells'
  <2>1. TailTells /\ prev = TailHash BY <1>1, <1>9 DEF ChainTells
  <2>2. prev = FirstCalls(m)
    <3>1. CASE chain = << >>
      <4>1. recorded = << >> /\ m = 0 BY <2>1, <3>1 DEF TailTells
      <4>2. prev = << >> BY <2>1, <3>1 DEF TailHash
      <4>3. recorded = FirstCalls(m) BY <2>1 DEF TailTells
      <4>4. QED BY <4>1, <4>2, <4>3
    <3>2. CASE chain # << >>
      <4>1. chain[Len(chain)].hash = FirstCalls(m) BY <2>1, <3>2, Zenon DEF TailTells, Appended
      <4>2. QED BY <2>1, <3>2, <4>1, Zenon DEF TailHash, Last
    <3>3. QED BY <3>1, <3>2
  <2>3. new.hash = FirstCalls(m + 1) /\ recorded' = FirstCalls(m + 1)
    <3>1. recorded = FirstCalls(m) BY <2>1 DEF TailTells
    <3>2. Append(FirstCalls(m), m + 1) = FirstCalls(m + 1) BY <1>3, FirstCallsTell
    <3>3. QED BY <1>1, <1>5, <2>2, <3>1, <3>2, Zenon
  <2>4. Appended(new, m + 1)
    <3>1. m + 1 - 1 = m BY <1>3
    <3>2. FirstCalls(m + 1 - 1) = FirstCalls(m) BY <3>1, Zenon
    <3>3. new.body = m + 1 BY <1>5
    <3>4. QED BY <1>5, <2>2, <2>3, <3>2, <3>3 DEF Appended
  <2>5. EntryTells(new) BY <1>3, <1>5, <2>2, <2>3, Zenon DEF EntryTells
  <2>6. recorded' = FirstCalls(Len(recorded')) /\ Len(chain') <= Len(recorded')
    BY <1>3, <1>6, <1>7, <2>1, <2>3 DEF TailTells
  <2>7. Len(chain') # 0 /\ chain' # << >>
    <3>1. Len(chain') # 0 BY <1>3, <1>6
    <3>2. QED BY <3>1, EmptySeq
  <2>8. Appended(chain'[Len(chain')], Len(recorded')) BY <1>6, <1>7, <2>4, Zenon
  <2>9. \A i \in 1 .. Len(chain') : EntryTells(chain'[i])
    <3>1. \A i \in 1 .. Len(chain) : EntryTells(chain[i]) BY <2>1, Zenon DEF TailTells
    <3>2. ASSUME NEW i \in 1 .. Len(chain') PROVE EntryTells(chain'[i])
      <4>1. i \in 1 .. Len(chain) \/ i = Len(chain) + 1 BY <1>3, <1>6
      <4>2. QED BY <1>6, <2>5, <3>1, <4>1, Zenon
    <3>3. QED BY <3>2
  <2>10. ~edited' => Len(chain') = Len(recorded') /\ \A i \in 1 .. Len(chain') : Appended(chain'[i], i)
    <3>1. SUFFICES ASSUME ~edited PROVE Len(chain') = Len(recorded') /\ \A i \in 1 .. Len(chain') : Appended(chain'[i], i)
      BY <1>2
    <3>2. Len(chain) = m /\ \A i \in 1 .. Len(chain) : Appended(chain[i], i) BY <2>1, <3>1, Zenon DEF TailTells
    <3>3. ASSUME NEW i \in 1 .. Len(chain') PROVE Appended(chain'[i], i)
      <4>1. i \in 1 .. Len(chain) \/ i = Len(chain) + 1 BY <1>3, <1>6
      <4>2. QED BY <1>6, <2>4, <3>2, <4>1, Zenon
    <3>4. QED BY <1>6, <1>7, <3>2, <3>3
  <2>11. edited' => Len(chain') < Len(recorded') \/ \E i \in 1 .. Len(chain') : chain'[i].body = 0
    <3>1. SUFFICES ASSUME edited PROVE Len(chain') < Len(recorded') \/ \E i \in 1 .. Len(chain') : chain'[i].body = 0
      BY <1>2
    <3>2. CASE Len(chain) < m BY <1>3, <1>6, <1>7, <3>2
    <3>3. CASE \E i \in 1 .. Len(chain) : chain[i].body = 0
      <4>1. PICK i \in 1 .. Len(chain) : chain[i].body = 0 BY <3>3
      <4>2. i \in 1 .. Len(chain') BY <1>3, <1>6
      <4>3. QED BY <1>6, <4>1, <4>2
    <3>4. QED BY <2>1, <3>1, <3>2, <3>3, Zenon DEF TailTells
  <2>12. QED BY <2>6, <2>7, <2>8, <2>9, <2>10, <2>11, Zenon DEF TailTells
<1>10. QED BY <1>2, <1>3, <1>6, <1>7, <1>8, <1>9 DEF ChainTells

\* the entry altered in its body, or sealed anew with it
LEMMA AlteredEntryTells ==
  ASSUME NEW e \in Entry, EntryTells(e), NEW f,
         \/ f = [e EXCEPT !.body = 0]
         \/ f = [e EXCEPT !.body = 0, !.hash = Append(e.prev, 0)]
  PROVE  f \in Entry /\ EntryTells(f) /\ f.body = 0
<1>1. PICK n \in Nat :
        /\ e.prev = FirstCalls(n)
        /\ \/ e.body = n + 1 /\ e.hash = FirstCalls(n + 1)
           \/ e.body = 0 /\ e.hash \in {FirstCalls(n + 1), Append(FirstCalls(n), 0)}
  BY Zenon DEF EntryTells
<1>2. Append(FirstCalls(n), 0) \in Seq(Nat) BY FirstCallsTell
<1>3. CASE f = [e EXCEPT !.body = 0]
  <2>1. f \in Entry /\ f.body = 0 /\ f.prev = e.prev /\ f.hash = e.hash BY <1>3 DEF Entry
  <2>2. f.hash \in {FirstCalls(n + 1), Append(FirstCalls(n), 0)} BY <1>1, <2>1
  <2>3. QED BY <1>1, <2>1, <2>2, Zenon DEF EntryTells
<1>4. CASE f = [e EXCEPT !.body = 0, !.hash = Append(e.prev, 0)]
  <2>1. Append(e.prev, 0) \in Seq(Nat) BY <1>1, <1>2
  <2>2. f \in Entry /\ f.body = 0 /\ f.prev = e.prev /\ f.hash = Append(e.prev, 0) BY <1>4, <2>1 DEF Entry
  <2>3. f.hash \in {FirstCalls(n + 1), Append(FirstCalls(n), 0)} BY <1>1, <2>2
  <2>4. QED BY <1>1, <2>2, <2>3, Zenon DEF EntryTells
<1>5. QED BY <1>3, <1>4

LEMMA EditChainMoves == ASSUME ChainTells, NEW i \in 1 .. MaxEntries, NEW how, EditChain(i, how) PROVE ChainTells'
<1>1. /\ i < Len(chain) /\ edited' = TRUE /\ tail' = tail /\ recorded' = recorded /\ overlapped' = overlapped
  BY DEF EditChain
<1>2. /\ chain \in Seq(Entry) /\ Len(chain) \in Nat /\ recorded \in Seq(Nat) /\ Len(recorded) \in Nat
      /\ overlapped => overlapped'
      /\ tail' \in [Writers -> SUBSET Seq(Nat)] /\ overlapped' \in BOOLEAN /\ i \in Nat
  BY <1>1, LenProperties DEF ChainTells
<1>3. i \in 1 .. Len(chain) /\ i # Len(chain) BY <1>1, <1>2
<1>4. ASSUME NEW f, f = [chain[i] EXCEPT !.body = 0] \/ f = [chain[i] EXCEPT !.body = 0, !.hash = Append(chain[i].prev, 0)],
             chain' = [chain EXCEPT ![i] = f]
      PROVE  ChainTells'
  <2>1. chain[i] \in Entry BY <1>2, <1>3, ElementOfSeq, Zenon
  <2>2. f \in Entry
    <3>1. CASE f = [chain[i] EXCEPT !.body = 0] BY <2>1, <3>1 DEF Entry
    <3>2. CASE f = [chain[i] EXCEPT !.body = 0, !.hash = Append(chain[i].prev, 0)]
      <4>1. chain[i].prev \in Seq(Nat) BY <2>1 DEF Entry
      <4>2. Append(chain[i].prev, 0) \in Seq(Nat) BY <4>1, AppendProperties
      <4>3. QED BY <2>1, <3>2, <4>2 DEF Entry
    <3>3. QED BY <1>4, <3>1, <3>2
  <2>3. /\ chain' \in Seq(Entry) /\ Len(chain') = Len(chain)
        /\ \A j \in 1 .. Len(chain) : chain'[j] = IF j = i THEN f ELSE chain[j]
    <3>1. chain \in Seq(Entry) /\ i \in 1 .. Len(chain) BY <1>2, <1>3
    <3>2. [chain EXCEPT ![i] = f] \in Seq(Entry) BY <2>2, <3>1, ExceptSeq
    <3>3. Len([chain EXCEPT ![i] = f]) = Len(chain) BY <2>2, <3>1, ExceptSeq
    <3>4. \A j \in 1 .. Len(chain) : [chain EXCEPT ![i] = f][j] = IF j = i THEN f ELSE chain[j]
      BY <3>1
    <3>5. QED BY <1>4, <3>2, <3>3, <3>4, Zenon
  <2>4. ASSUME ~overlapped' PROVE TailTells'
    <3>1. TailTells BY <1>1, <2>4 DEF ChainTells
    <3>2. EntryTells(chain[i]) BY <1>3, <3>1, Zenon DEF TailTells
    <3>3. EntryTells(f) /\ f.body = 0 BY <1>4, <2>1, <3>2, AlteredEntryTells, Zenon
    <3>4. chain'[Len(chain')] = chain[Len(chain)] /\ chain # << >>
      <4>1. Len(chain) \in 1 .. Len(chain) BY <1>2, <1>3
      <4>2. Len(chain) # 0 BY <1>2, <1>3
      <4>3. QED BY <1>3, <2>3, <4>1, <4>2, EmptySeq
    <3>5. /\ recorded' = FirstCalls(Len(recorded')) /\ Len(chain') <= Len(recorded') /\ chain' # << >>
          /\ Appended(chain'[Len(chain')], Len(recorded'))
      <4>1. Len(chain') # 0 BY <1>2, <1>3, <2>3
      <4>2. chain' # << >> BY <4>1, EmptySeq
      <4>3. QED BY <1>1, <2>3, <3>1, <3>4, <4>2 DEF TailTells
    <3>6. \A j \in 1 .. Len(chain') : EntryTells(chain'[j])
      <4>1. \A j \in 1 .. Len(chain) : EntryTells(chain[j]) BY <3>1, Zenon DEF TailTells
      <4>2. QED BY <2>3, <3>3, <4>1, Zenon
    <3>7. \E j \in 1 .. Len(chain') : chain'[j].body = 0 BY <1>3, <2>3, <3>3, Zenon
    <3>8. QED BY <1>1, <3>5, <3>6, <3>7, Zenon DEF TailTells
  <2>5. QED BY <1>1, <1>2, <2>3, <2>4 DEF ChainTells
<1>5. CASE how = "alter" /\ chain' = [chain EXCEPT ![i].body = 0]
  <2>1. chain' = [chain EXCEPT ![i] = [chain[i] EXCEPT !.body = 0]] BY <1>5, Zenon
  <2>2. QED BY <1>4, <2>1
<1>6. CASE how = "reseal" /\ chain' = [chain EXCEPT ![i].body = 0, ![i].hash = EntryHash(chain[i].prev, 0)]
  <2> DEFINE f == [chain[i] EXCEPT !.body = 0, !.hash = Append(chain[i].prev, 0)]
  <2>1. chain' = [chain EXCEPT ![i] = f]
    <3>1. chain' = [[chain EXCEPT ![i] = [chain[i] EXCEPT !.body = 0]] EXCEPT ![i] =
                      [[chain EXCEPT ![i] = [chain[i] EXCEPT !.body = 0]][i] EXCEPT !.hash = Append(chain[i].prev, 0)]]
      BY <1>6, Zenon DEF EntryHash
    <3>2. chain = [k \in 1 .. Len(chain) |-> chain[k]] BY <1>2
    <3>3. QED BY <1>3, <3>1, <3>2
  <2>2. QED BY <1>4, <2>1
<1>7. CASE how = "remove" /\ chain' = RemoveAt(chain, i)
  <2>1. /\ chain' \in Seq(Entry) /\ Len(chain') = Len(chain) - 1
        /\ \A j \in 1 .. Len(chain) - 1 : chain'[j] = IF j < i THEN chain[j] ELSE chain[j + 1]
    BY <1>2, <1>3, <1>7, RemoveAtTells, Zenon
  <2>2. ASSUME ~overlapped' PROVE TailTells'
    <3>1. TailTells BY <1>1, <2>2 DEF ChainTells
    <3>2. Len(chain') # 0 /\ Len(chain') \in 1 .. Len(chain) - 1 /\ ~(Len(chain') < i) /\ Len(chain') + 1 = Len(chain)
          /\ Len(chain) # 0
      <4>1. Len(chain') = Len(chain) - 1 BY <2>1
      <4>2. Len(chain) \in Nat /\ i \in Nat /\ 1 <= i /\ i < Len(chain) BY <1>1, <1>2, <1>3
      <4>3. QED BY <4>1, <4>2
    <3>3. chain'[Len(chain')] = chain[Len(chain)] BY <2>1, <3>2, Zenon
    <3>4. /\ recorded' = FirstCalls(Len(recorded')) /\ Len(chain') < Len(recorded') /\ Len(chain') <= Len(recorded')
          /\ chain # << >> /\ chain' # << >>
          /\ Appended(chain'[Len(chain')], Len(recorded'))
      <4>1. chain' # << >> /\ chain # << >> BY <3>2, EmptySeq
      <4>2. Len(chain) <= Len(recorded) BY <3>1 DEF TailTells
      <4>3. Len(chain') < Len(recorded') /\ Len(chain') <= Len(recorded') 
        <5>1. Len(chain') = Len(chain) - 1 /\ recorded' = recorded BY <1>1, <2>1
        <5>2. Len(chain) \in Nat /\ Len(recorded) \in Nat BY <1>2
        <5>3. QED BY <4>2, <5>1, <5>2
      <4>4. QED BY <1>1, <3>1, <3>3, <4>1, <4>3, Zenon DEF TailTells
    <3>5. \A j \in 1 .. Len(chain') : EntryTells(chain'[j])
      <4>1. \A j \in 1 .. Len(chain) : EntryTells(chain[j]) BY <3>1, Zenon DEF TailTells
      <4>2. \A j \in 1 .. Len(chain') : j \in 1 .. Len(chain) - 1 /\ j \in 1 .. Len(chain) /\ j + 1 \in 1 .. Len(chain)
        BY <1>2, <2>1
      <4>3. QED BY <2>1, <4>1, <4>2, Zenon
    <3>6. QED BY <1>1, <3>4, <3>5, Zenon DEF TailTells
  <2>3. QED BY <1>1, <1>2, <2>1, <2>2 DEF ChainTells
<1>8. QED BY <1>5, <1>6, <1>7 DEF EditChain

LEMMA ChainStep == ASSUME ChainTells, [Next]_vars PROVE ChainTells'
<1>1. [ChainNext]_chainVars BY DEF Next, OthersStill, vars
<1>2. CASE UNCHANGED chainVars
  BY <1>2 DEF chainVars, ChainTells, TailTells
<1>3. ASSUME NEW a \in Writers, ReadTail(a) PROVE ChainTells'
  <2>1. /\ chain' = chain /\ recorded' = recorded /\ edited' = edited /\ overlapped' = overlapped
        /\ tail' = [tail EXCEPT ![a] = {TailHash}]
    BY <1>3 DEF ReadTail
  <2>2. TailHash \in Seq(Nat)
    <3>1. CASE chain = << >> BY <3>1, EmptySeq DEF TailHash
    <3>2. CASE chain # << >>
      <4>1. chain \in Seq(Entry) BY DEF ChainTells
      <4>2. Len(chain) \in 1 .. Len(chain) BY <3>2, <4>1, EmptySeq
      <4>3. chain[Len(chain)] \in Entry BY <4>1, <4>2, ElementOfSeq, Zenon
      <4>4. QED BY <3>2, <4>3 DEF TailHash, Last, Entry
    <3>3. QED BY <3>1, <3>2
  <2>3. TailTells' = TailTells BY <2>1 DEF TailTells
  <2>4. QED BY <2>1, <2>2, <2>3 DEF ChainTells
<1>4. ASSUME NEW a \in Writers, EvidenceLost(a) PROVE ChainTells'
  <2>1. /\ chain' = chain /\ recorded' = recorded /\ edited' = edited /\ overlapped' = overlapped
        /\ tail' = [tail EXCEPT ![a] = {}]
    BY <1>4 DEF EvidenceLost
  <2>2. TailTells' = TailTells BY <2>1 DEF TailTells
  <2>3. QED BY <2>1, <2>2 DEF ChainTells
<1>5. QED BY <1>1, <1>2, <1>3, <1>4, AppendEvidenceMoves, EditChainMoves DEF ChainNext

LEMMA LeastThereIs == \A S \in SUBSET Nat : S # {} => \E n \in S : \A m \in S : n =< m
<1>1. ASSUME NEW S \in SUBSET Nat, S # {} PROVE \E n \in S : \A m \in S : n =< m
  <2>1. S \subseteq Nat /\ S # {} BY <1>1
  <2>2. PICK n \in S : \A m \in S : ~(<<m, n>> \in OpToRel(<, Nat))
    BY <2>1, WFMin, NatLessThanWellFounded, Zenon
  <2>3. \A m \in S : ~(m < n) BY <2>1, <2>2 DEF OpToRel
  <2>4. QED BY <2>1, <2>3
<1>2. QED BY <1>1

\* a chain that verifies is the calls from the first to the last, each as it was
LEMMA VerifiedIsWhole ==
  ASSUME ChainTells, ~overlapped, ChainVerifies
  PROVE  /\ \A i \in 1 .. Len(chain) : chain[i].body = i
         /\ Len(chain) = Len(recorded) /\ ~edited
<1>1. TailTells BY DEF ChainTells
<1>2. chain \in Seq(Entry) /\ Len(chain) \in Nat /\ recorded \in Seq(Nat) /\ Len(recorded) \in Nat /\ edited \in BOOLEAN
  BY LenProperties DEF ChainTells
<1>3. ASSUME NEW i \in 1 .. Len(chain) PROVE chain[i].body # 0
  <2>1. SUFFICES ASSUME chain[i].body = 0 PROVE FALSE OBVIOUS
  <2>2. PICK n \in Nat :
          /\ chain[i].prev = FirstCalls(n)
          /\ \/ chain[i].body = n + 1 /\ chain[i].hash = FirstCalls(n + 1)
             \/ chain[i].body = 0 /\ chain[i].hash \in {FirstCalls(n + 1), Append(FirstCalls(n), 0)}
    BY <1>1, Zenon DEF TailTells, EntryTells
  <2>3. chain[i].hash = Append(FirstCalls(n), 0) BY <2>1, <2>2, Zenon DEF ChainVerifies, EntryHash
  <2>4. chain # << >> BY <1>2, EmptySeq
  <2>5. CASE i = Len(chain)
    <3>1. chain[i].body = Len(recorded) /\ chain[i].hash = FirstCalls(Len(recorded))
      BY <1>1, <2>4, <2>5, Zenon DEF TailTells, Appended
    <3>2. QED BY <1>2, <2>2, <2>3, <3>1, FirstCallsTell
  <2>6. CASE i # Len(chain)
    <3>1. i + 1 \in 1 .. Len(chain) /\ i + 1 # 1 /\ i + 1 - 1 = i BY <1>2, <2>6
    <3>2. chain[i + 1].prev = chain[i].hash
      <4>1. PICK k : k = i + 1 BY Zenon
      <4>2. k \in 1 .. Len(chain) BY <3>1, <4>1
      <4>3. chain[k].prev = IF k = 1 THEN << >> ELSE chain[k - 1].hash BY <4>2, Zenon DEF ChainVerifies
      <4>4. QED BY <3>1, <4>1, <4>3
    <3>3. \E k \in Nat : chain[i + 1].prev = FirstCalls(k) BY <1>1, <3>1, Zenon DEF TailTells, EntryTells
    <3>4. QED BY <2>2, <2>3, <3>2, <3>3, FirstCallsTell
  <2>7. QED BY <2>5, <2>6
<1>4. \A i \in 1 .. Len(chain) : \E n \in Nat :
        chain[i].prev = FirstCalls(n) /\ chain[i].body = n + 1 /\ chain[i].hash = FirstCalls(n + 1)
  <2>1. ASSUME NEW i \in 1 .. Len(chain)
        PROVE  \E n \in Nat : chain[i].prev = FirstCalls(n) /\ chain[i].body = n + 1 /\ chain[i].hash = FirstCalls(n + 1)
    BY <1>1, <1>3, Zenon DEF TailTells, EntryTells
  <2>2. QED BY <2>1
<1> DEFINE Misplaced == {i \in 1 .. Len(chain) : chain[i].body # i}
<1>5. Misplaced = {}
  <2>1. SUFFICES ASSUME Misplaced # {} PROVE FALSE OBVIOUS
  <2>2. PICK i \in Misplaced : \A j \in Misplaced : i =< j
    <3>1. Misplaced \subseteq Nat OBVIOUS
    <3> HIDE DEF Misplaced
    <3>2. QED BY <2>1, <3>1, LeastThereIs
  <2>3. PICK n \in Nat : chain[i].prev = FirstCalls(n) /\ chain[i].body = n + 1 BY <1>4, <2>2
  <2>4. Len(chain[i].prev) = n BY <2>3, FirstCallsTell
  <2>5. i \in 1 .. Len(chain) /\ i \in Nat /\ chain[i].body # i BY <1>2, <2>2
  <2>6. chain[i].prev = IF i = 1 THEN << >> ELSE chain[i - 1].hash BY <2>5, Zenon DEF ChainVerifies
  <2>7. CASE i = 1
    <3>1. Len(chain[i].prev) = 0 BY <2>6, <2>7, EmptySeq
    <3>2. QED BY <2>3, <2>4, <2>5, <2>7, <3>1
  <2>8. CASE i # 1
    <3>1. i - 1 \in 1 .. Len(chain) /\ ~(i <= i - 1) BY <1>2, <2>5, <2>8
    <3>2. chain[i - 1].body = i - 1 BY <2>2, <3>1
    <3>3. PICK k \in Nat : chain[i - 1].body = k + 1 /\ chain[i - 1].hash = FirstCalls(k + 1) BY <1>4, <3>1
    <3>4. k + 1 = i - 1 /\ i - 1 \in Nat BY <2>5, <3>1, <3>2, <3>3
    <3>5. Len(FirstCalls(i - 1)) = i - 1 BY <3>4, FirstCallsTell
    <3>6. chain[i].prev = FirstCalls(i - 1) BY <2>6, <2>8, <3>3, <3>4
    <3>7. n = i - 1 BY <2>4, <3>5, <3>6
    <3>8. QED BY <2>3, <2>5, <3>7
  <2>9. QED BY <2>7, <2>8
<1>6. \A i \in 1 .. Len(chain) : chain[i].body = i BY <1>5
<1>7. Len(chain) = Len(recorded)
  <2>1. CASE chain = << >>
    <3>1. recorded = << >> BY <1>1, <2>1 DEF TailTells
    <3>2. QED BY <2>1, <3>1
  <2>2. CASE chain # << >>
    <3>1. Len(chain) \in 1 .. Len(chain) BY <1>2, <2>2, EmptySeq
    <3>2. chain[Len(chain)].body = Len(recorded) BY <1>1, <2>2, Zenon DEF TailTells, Appended
    <3>3. QED BY <1>6, <3>1, <3>2
  <2>3. QED BY <2>1, <2>2
<1>8. ~edited
  <2>1. SUFFICES ASSUME edited PROVE FALSE OBVIOUS
  <2>2. Len(chain) < Len(recorded) \/ \E i \in 1 .. Len(chain) : chain[i].body = 0 BY <1>1, <2>1, Zenon DEF TailTells
  <2>3. ~(Len(chain) < Len(recorded)) BY <1>2, <1>7
  <2>4. QED BY <1>3, <2>2, <2>3, Zenon
<1>9. QED BY <1>6, <1>7, <1>8

\* a chain nobody edited verifies
LEMMA UneditedVerifies == ASSUME ChainTells, ~overlapped, ~edited PROVE ChainVerifies
<1>1. \A i \in 1 .. Len(chain) : Appended(chain[i], i) BY Zenon DEF ChainTells, TailTells
<1>2. chain \in Seq(Entry) /\ Len(chain) \in Nat BY LenProperties DEF ChainTells
<1>3. ASSUME NEW i \in 1 .. Len(chain)
      PROVE  /\ chain[i].prev = IF i = 1 THEN << >> ELSE chain[i - 1].hash
             /\ chain[i].hash = Append(chain[i].prev, chain[i].body)
  <2>1. chain[i].body = i /\ chain[i].prev = FirstCalls(i - 1) /\ chain[i].hash = FirstCalls(i) BY <1>1, Zenon DEF Appended
  <2>2. i - 1 \in Nat /\ i - 1 + 1 = i BY <1>2
  <2>3. Append(FirstCalls(i - 1), i - 1 + 1) = FirstCalls(i - 1 + 1) BY <2>2, FirstCallsTell
  <2>4. CASE i = 1
    <3>1. FirstCalls(0) \in Seq(Nat) /\ Len(FirstCalls(0)) = 0 BY FirstCallsTell
    <3>2. FirstCalls(0) = << >> BY <3>1, EmptySeq
    <3>3. QED BY <2>1, <2>2, <2>3, <2>4, <3>2
  <2>5. CASE i # 1
    <3>1. i - 1 \in 1 .. Len(chain) BY <1>2, <2>5
    <3>2. chain[i - 1].hash = FirstCalls(i - 1) BY <1>1, <3>1, Zenon DEF Appended
    <3>3. QED BY <2>1, <2>2, <2>3, <2>5, <3>2
  <2>6. QED BY <2>4, <2>5
<1>4. QED BY <1>3, Zenon DEF ChainVerifies, EntryHash

LEMMA ChainHoldsHere == ASSUME ChainTells PROVE ChainHolds
<1>1. SUFFICES ASSUME ~overlapped
               PROVE  /\ ChainVerifies <=> ~edited
                      /\ ChainVerifies => [i \in DOMAIN chain |-> chain[i].body] = recorded
  BY DEF ChainHolds
<1>2. ChainVerifies <=> ~edited BY <1>1, VerifiedIsWhole, UneditedVerifies
<1>3. ASSUME ChainVerifies PROVE [i \in DOMAIN chain |-> chain[i].body] = recorded
  <2>1. (\A i \in 1 .. Len(chain) : chain[i].body = i) /\ Len(chain) = Len(recorded) BY <1>1, <1>3, VerifiedIsWhole
  <2>2. recorded = FirstCalls(Len(recorded)) BY <1>1 DEF ChainTells, TailTells
  <2>3. DOMAIN chain = 1 .. Len(chain) BY DEF ChainTells
  <2>4. QED BY <2>1, <2>2, <2>3 DEF FirstCalls
<1>4. QED BY <1>2, <1>3

-----------------------------------------------------------------------------
(* The sealed checkpoints: a row that was touched differs from what its seal *)
(* covers, or its new seal is not the one the next row names, or the row is  *)
(* sealed by another run, or there are fewer rows than the last one counts;  *)
(* and no later edit or put mends that                                       *)

Listing(s) == \E S : s \in Seq(S)

Unforged(h, run) == h[1] # run \/ h[4] # 0

RowTells(r, run) ==
  /\ r = [run |-> r.run, seq |-> r.seq, node |-> r.node, state |-> r.state, ref |-> r.ref, prev |-> r.prev,
          hash |-> r.hash]
  /\ r.run = run /\ r.seq \in Nat \ {0}
  /\ r.hash[1] = run /\ r.hash[4] # 0 => r.hash[3] # "forged"

RowsSound(s, run) ==
  /\ Listing(s)
  /\ \A i \in 1 .. Len(s) : RowTells(s[i], run)
  /\ s # << >> => Len(s) <= s[Len(s)].seq /\ Unforged(s[Len(s)].hash, run)
  /\ \A i \in 2 .. Len(s) : Unforged(s[i].prev, run)

SpoiltRow(r, run) == r.hash[1] # run \/ r.hash[4] = 0 \/ r.state = 0 \/ r.node = "forged"

Spoilt(s, run) ==
  s # << >> /\ (Len(s) < s[Len(s)].seq \/ \E i \in 1 .. Len(s) : SpoiltRow(s[i], run))

AsPut(s, run, p) ==
  /\ Len(s) = Len(p)
  /\ \A i \in 1 .. Len(s) :
       /\ s[i].seq = i /\ s[i].state = p[i] /\ s[i].ref = p[i]
       /\ s[i].prev = IF i = 1 THEN << >> ELSE s[i - 1].hash
       /\ s[i].hash = <<run, i, s[i].node, p[i], s[i].prev>>

LEMMA ListingTells == ASSUME NEW s, Listing(s) PROVE Len(s) \in Nat /\ DOMAIN s = 1 .. Len(s) /\ (s = << >> <=> Len(s) = 0)
<1>1. PICK S : s \in Seq(S) BY DEF Listing
<1>2. QED BY <1>1, EmptySeq, LenProperties

LEMMA ListingGrows ==
  ASSUME NEW s, Listing(s), NEW e
  PROVE  /\ Listing(Append(s, e)) /\ Len(Append(s, e)) = Len(s) + 1 /\ Append(s, e) # << >>
         /\ \A k \in 1 .. Len(s) : Append(s, e)[k] = s[k]
         /\ Append(s, e)[Len(s) + 1] = e
<1>1. PICK S : s \in Seq(S) BY DEF Listing
<1>2. PICK T : T = S \cup {e} BY Zenon
<1>3. s \in Seq(T) /\ e \in T BY <1>1, <1>2
<1>4. /\ Append(s, e) \in Seq(T) /\ Len(Append(s, e)) = Len(s) + 1 /\ Append(s, e) # << >>
      /\ \A k \in 1 .. Len(s) : Append(s, e)[k] = s[k]
      /\ Append(s, e)[Len(s) + 1] = e
  BY <1>3, AppendProperties
<1>5. QED BY <1>4, Zenon DEF Listing

LEMMA ListingAltered ==
  ASSUME NEW s, Listing(s), NEW i \in 1 .. Len(s), NEW e, NEW t, t = [s EXCEPT ![i] = e]
  PROVE  /\ Listing(t) /\ Len(t) = Len(s)
         /\ \A j \in 1 .. Len(s) : t[j] = IF j = i THEN e ELSE s[j]
<1>1. PICK S : s \in Seq(S) BY DEF Listing
<1>2. PICK T : T = S \cup {e} BY Zenon
<1>3. s \in Seq(T) /\ e \in T BY <1>1, <1>2
<1>4. t \in Seq(T) BY <1>3, ExceptSeq
<1>5. Len(t) = Len(s) BY <1>3, ExceptSeq
<1>6. \A j \in 1 .. Len(s) : t[j] = IF j = i THEN e ELSE s[j] BY <1>3
<1>7. QED BY <1>4, <1>5, <1>6, Zenon DEF Listing

\* what holds of the rows s holds of t, to which n was put
Carried(s, t, run, n) ==
  /\ RowsSound(t, run)
  /\ Spoilt(s, run) => Spoilt(t, run)
  /\ \A p \in Seq(Nat \ {0}) : AsPut(s, run, p) => AsPut(t, run, Append(p, n))

LEMMA PutKeeps ==
  ASSUME NEW s, NEW run, RowsSound(s, run), NEW node \in {"__input__", "triage"}, NEW n \in Nat \ {0},
         NEW t, t = Append(s, SealEnvelope(run, s, node, n))
  PROVE  Carried(s, t, run, n)
<1> DEFINE seq == IF s = << >> THEN 1 ELSE s[Len(s)].seq + 1
           before == IF s = << >> THEN << >> ELSE s[Len(s)].hash
<1>1. PICK e : e = [run |-> run, seq |-> seq, node |-> node, state |-> n, ref |-> n, prev |-> before,
                    hash |-> <<run, seq, node, n, before>>]
  BY Zenon
<1>2. t = Append(s, e) BY <1>1, Zenon DEF SealEnvelope, Last
<1>3. /\ Listing(t) /\ Len(t) = Len(s) + 1 /\ t # << >>
      /\ \A k \in 1 .. Len(s) : t[k] = s[k]
      /\ t[Len(s) + 1] = e
  BY <1>2, ListingGrows DEF RowsSound
<1>4. Len(s) \in Nat /\ (s = << >> <=> Len(s) = 0) BY ListingTells DEF RowsSound
<1>5. \A k \in 1 .. Len(t) : k \in 1 .. Len(s) \/ k = Len(s) + 1 BY <1>3, <1>4
<1>6. /\ e.run = run /\ e.seq = seq /\ e.node = node /\ e.state = n /\ e.ref = n /\ e.prev = before
      /\ e.hash = <<run, seq, node, n, before>>
  BY <1>1
<1>7. e.hash[1] = run /\ e.hash[3] = node /\ e.hash[4] = n BY <1>6
<1>8. seq \in Nat \ {0} /\ Len(s) + 1 <= seq
  <2>1. CASE s = << >> BY <1>4, <2>1
  <2>2. CASE s # << >>
    <3>1. Len(s) \in 1 .. Len(s) BY <1>4, <2>2
    <3>2. s[Len(s)].seq \in Nat \ {0} /\ Len(s) <= s[Len(s)].seq BY <2>2, <3>1, Zenon DEF RowsSound, RowTells
    <3>3. QED BY <1>4, <2>2, <3>2
  <2>3. QED BY <2>1, <2>2
<1> HIDE DEF seq, before
<1>9. RowTells(e, run) BY <1>1, <1>6, <1>7, <1>8 DEF RowTells
<1>10. RowsSound(t, run)
  <2>1. \A i \in 1 .. Len(t) : RowTells(t[i], run) BY <1>3, <1>5, <1>9, Zenon DEF RowsSound
  <2>2. Len(t) <= t[Len(t)].seq /\ Unforged(t[Len(t)].hash, run) BY <1>3, <1>6, <1>7, <1>8 DEF Unforged
  <2>3. ASSUME NEW i \in 2 .. Len(t) PROVE Unforged(t[i].prev, run)
    <3>1. CASE i \in 1 .. Len(s)
      <4>1. i \in 2 .. Len(s) BY <2>3, <3>1
      <4>2. QED BY <1>3, <3>1, <4>1, Zenon DEF RowsSound
    <3>2. CASE i = Len(s) + 1
      <4>1. s # << >> BY <1>4, <2>3, <3>2
      <4>2. QED BY <1>3, <1>6, <3>2, <4>1, Zenon DEF RowsSound, before
    <3>3. i \in 1 .. Len(t) BY <2>3, <1>3, <1>4
    <3>4. QED BY <1>5, <3>1, <3>2, <3>3
  <2>4. QED BY <1>3, <2>1, <2>2, <2>3, Zenon DEF RowsSound
<1>11. ASSUME Spoilt(s, run) PROVE Spoilt(t, run)
  <2>1. CASE Len(s) < s[Len(s)].seq
    <3>1. s # << >> BY <1>11 DEF Spoilt
    <3>2. Len(s) \in 1 .. Len(s) BY <1>4, <3>1
    <3>3. s[Len(s)].seq \in Nat BY <3>2, Zenon DEF RowsSound, RowTells
    <3>4. seq = s[Len(s)].seq + 1 BY <3>1 DEF seq
    <3>5. Len(t) < t[Len(t)].seq BY <1>3, <1>4, <1>6, <2>1, <3>3, <3>4
    <3>6. QED BY <1>3, <3>5 DEF Spoilt
  <2>2. CASE \E i \in 1 .. Len(s) : SpoiltRow(s[i], run)
    <3>1. PICK i \in 1 .. Len(s) : SpoiltRow(s[i], run) BY <2>2
    <3>2. i \in 1 .. Len(t) BY <1>3, <1>4
    <3>3. QED BY <1>3, <3>1, <3>2, Zenon DEF Spoilt
  <2>3. QED BY <1>11, <2>1, <2>2 DEF Spoilt
<1>12. ASSUME NEW p \in Seq(Nat \ {0}), AsPut(s, run, p) PROVE AsPut(t, run, Append(p, n))
  <2>1. /\ Len(Append(p, n)) = Len(p) + 1 /\ \A k \in 1 .. Len(p) : Append(p, n)[k] = p[k]
        /\ Append(p, n)[Len(p) + 1] = n
    BY AppendProperties
  <2>2. Len(s) = Len(p) BY <1>12, Zenon DEF AsPut
  <2>3. seq = Len(s) + 1
    <3>1. CASE s = << >> BY <1>4, <3>1 DEF seq
    <3>2. CASE s # << >>
      <4>1. Len(s) \in 1 .. Len(s) BY <1>4, <3>2
      <4>2. s[Len(s)].seq = Len(s) BY <1>12, <4>1, Zenon DEF AsPut
      <4>3. QED BY <3>2, <4>2 DEF seq
    <3>3. QED BY <3>1, <3>2
  <2>4. ASSUME NEW i \in 1 .. Len(t)
        PROVE  /\ t[i].seq = i /\ t[i].state = Append(p, n)[i] /\ t[i].ref = Append(p, n)[i]
               /\ t[i].prev = IF i = 1 THEN << >> ELSE t[i - 1].hash
               /\ t[i].hash = <<run, i, t[i].node, Append(p, n)[i], t[i].prev>>
    <3>1. CASE i \in 1 .. Len(s)
      <4>1. /\ s[i].seq = i /\ s[i].state = p[i] /\ s[i].ref = p[i]
            /\ s[i].prev = IF i = 1 THEN << >> ELSE s[i - 1].hash
            /\ s[i].hash = <<run, i, s[i].node, p[i], s[i].prev>>
        BY <1>12, <3>1, Zenon DEF AsPut
      <4>2. t[i] = s[i] /\ Append(p, n)[i] = p[i] BY <1>3, <2>1, <2>2, <3>1
      <4>3. i # 1 => t[i - 1] = s[i - 1]
        <5>1. i # 1 => i - 1 \in 1 .. Len(s) BY <1>4, <3>1
        <5>2. QED BY <1>3, <5>1
      <4>4. QED BY <4>1, <4>2, <4>3
    <3>2. CASE i = Len(s) + 1
      <4>1. t[i] = e /\ Append(p, n)[i] = n BY <1>3, <2>1, <2>2, <3>2
      <4>2. t[i].seq = i /\ t[i].state = n /\ t[i].ref = n /\ t[i].hash = <<run, i, t[i].node, n, t[i].prev>>
        BY <1>6, <2>3, <3>2, <4>1
      <4>3. t[i].prev = IF i = 1 THEN << >> ELSE t[i - 1].hash
        <5>1. CASE s = << >> BY <1>4, <1>6, <3>2, <4>1, <5>1 DEF before
        <5>2. CASE s # << >>
          <6>1. Len(s) \in 1 .. Len(s) /\ i # 1 /\ i - 1 = Len(s) BY <1>4, <3>2, <5>2
          <6>2. t[i - 1].hash = s[Len(s)].hash BY <1>3, <6>1
          <6>3. t[i].prev = s[Len(s)].hash BY <1>6, <4>1, <5>2 DEF before
          <6>4. QED BY <6>1, <6>2, <6>3
        <5>3. QED BY <5>1, <5>2
      <4>4. QED BY <4>1, <4>2, <4>3
    <3>3. QED BY <1>5, <3>1, <3>2
  <2>5. QED BY <1>3, <2>1, <2>2, <2>4, Zenon DEF AsPut
<1>13. QED BY <1>10, <1>11, <1>12, Zenon DEF Carried

LEMMA AlterKeeps ==
  ASSUME NEW s, NEW run, RowsSound(s, run), NEW i \in 1 .. Len(s),
         NEW how \in {"state", "ref", "node", "seal"}, how = "seal" => i < Len(s),
         NEW f, f = Touched(s[i], how),
         NEW t, Listing(t), Len(t) = Len(s), \A j \in 1 .. Len(s) : t[j] = IF j = i THEN f ELSE s[j]
  PROVE  RowsSound(t, run) /\ Spoilt(t, run)
<1>2. /\ Listing(t) /\ Len(t) = Len(s)
      /\ \A j \in 1 .. Len(s) : t[j] = IF j = i THEN f ELSE s[j]
  OBVIOUS
<1>3. Len(s) \in Nat /\ (s = << >> <=> Len(s) = 0) /\ (t = << >> <=> Len(t) = 0)
  BY <1>2, ListingTells DEF RowsSound
<1>4. PICK r : r = s[i] BY Zenon
<1>5. RowTells(r, run) BY <1>4, Zenon DEF RowsSound
<1>6. /\ RowTells(f, run) /\ SpoiltRow(f, run) /\ f.prev = r.prev /\ f.seq = r.seq
      /\ how # "seal" => f.hash = r.hash
  <2>0. f = Touched(r, how) BY <1>4
  <2>1. CASE how = "state"
    <3>1. f = [r EXCEPT !.state = 0] BY <2>0, <2>1 DEF Touched
    <3>2. f = [run |-> r.run, seq |-> r.seq, node |-> r.node, state |-> 0, ref |-> r.ref, prev |-> r.prev, hash |-> r.hash]
      BY <1>5, <3>1 DEF RowTells
    <3>3. QED BY <1>5, <3>2 DEF RowTells, SpoiltRow
  <2>2. CASE how = "ref"
    <3>1. f = [r EXCEPT !.state = 0, !.ref = 0] BY <2>0, <2>2 DEF Touched
    <3>2. f = [run |-> r.run, seq |-> r.seq, node |-> r.node, state |-> 0, ref |-> 0, prev |-> r.prev, hash |-> r.hash]
      BY <1>5, <3>1 DEF RowTells
    <3>3. QED BY <1>5, <3>2 DEF RowTells, SpoiltRow
  <2>3. CASE how = "node"
    <3>1. f = [r EXCEPT !.node = "forged"] BY <2>0, <2>3 DEF Touched
    <3>2. f = [run |-> r.run, seq |-> r.seq, node |-> "forged", state |-> r.state, ref |-> r.ref, prev |-> r.prev, hash |-> r.hash]
      BY <1>5, <3>1 DEF RowTells
    <3>3. QED BY <1>5, <3>2 DEF RowTells, SpoiltRow
  <2>4. CASE how = "seal"
    <3>1. f = [r EXCEPT !.state = 0, !.ref = 0, !.hash = <<r.run, r.seq, r.node, 0, r.prev>>] BY <2>0, <2>4 DEF Touched
    <3>2. f = [run |-> r.run, seq |-> r.seq, node |-> r.node, state |-> 0, ref |-> 0, prev |-> r.prev,
               hash |-> <<r.run, r.seq, r.node, 0, r.prev>>]
      BY <1>5, <3>1 DEF RowTells
    <3>3. f.hash[4] = 0 BY <3>2
    <3>4. QED BY <1>5, <2>4, <3>2, <3>3 DEF RowTells, SpoiltRow
  <2>5. QED BY <2>1, <2>2, <2>3, <2>4
<1>7. s # << >> /\ t # << >> /\ Len(s) \in 1 .. Len(s) BY <1>2, <1>3
<1>8. \A j \in 1 .. Len(t) : RowTells(t[j], run) BY <1>2, <1>6, Zenon DEF RowsSound
<1>9. Len(t) <= t[Len(t)].seq /\ Unforged(t[Len(t)].hash, run)
  <2>1. Len(s) <= s[Len(s)].seq /\ Unforged(s[Len(s)].hash, run) BY <1>7, Zenon DEF RowsSound
  <2>2. CASE i = Len(s)
    <3>1. how # "seal" BY <1>3, <2>2
    <3>2. t[Len(t)] = f /\ s[Len(s)] = r BY <1>2, <1>4, <1>7, <2>2
    <3>3. QED BY <1>2, <1>6, <2>1, <3>1, <3>2
  <2>3. CASE i # Len(s) BY <1>2, <1>7, <2>1, <2>3
  <2>4. QED BY <2>2, <2>3
<1>10. ASSUME NEW j \in 2 .. Len(t) PROVE Unforged(t[j].prev, run)
  <2>1. j \in 1 .. Len(s) /\ j \in 2 .. Len(s) BY <1>2, <1>3
  <2>2. t[j].prev = s[j].prev BY <1>2, <1>4, <1>6, <2>1
  <2>3. QED BY <2>1, <2>2, Zenon DEF RowsSound
<1>11. Spoilt(t, run)
  <2>1. i \in 1 .. Len(t) /\ t[i] = f BY <1>2
  <2>2. QED BY <1>6, <1>7, <2>1, Zenon DEF Spoilt
<1>12. QED BY <1>2, <1>8, <1>9, <1>10, <1>11, Zenon DEF RowsSound

LEMMA RemoveKeeps ==
  ASSUME NEW s, NEW run, RowsSound(s, run), NEW i \in 1 .. Len(s), i < Len(s), NEW t, t = RemoveAt(s, i)
  PROVE  RowsSound(t, run) /\ Spoilt(t, run)
<1>1. PICK S : s \in Seq(S) BY DEF RowsSound, Listing
<1>2. /\ t \in Seq(S) /\ Len(t) = Len(s) - 1
      /\ \A j \in 1 .. Len(s) - 1 : t[j] = IF j < i THEN s[j] ELSE s[j + 1]
  BY <1>1, RemoveAtTells, Zenon
<1>3. Listing(t) BY <1>2, Zenon DEF Listing
<1>4. Len(s) \in Nat /\ Len(t) \in Nat /\ Len(t) < Len(s) /\ Len(t) + 1 = Len(s) /\ Len(t) # 0 /\ i \in Nat
  <2>1. Len(s) \in Nat BY <1>1, LenProperties
  <2>2. Len(t) = Len(s) - 1 BY <1>2
  <2>3. i \in Nat /\ 1 <= i /\ i < Len(s) BY <2>1
  <2>4. QED BY <2>1, <2>2, <2>3
<1>5. s # << >> /\ t # << >> BY <1>4, EmptySeq
<1>6. t[Len(t)] = s[Len(s)]
  <2>1. Len(t) \in 1 .. Len(s) - 1 /\ ~(Len(t) < i) BY <1>4
  <2>2. QED BY <1>2, <1>4, <2>1, Zenon
<1>7. s[Len(s)].seq \in Nat /\ Len(s) <= s[Len(s)].seq /\ Unforged(s[Len(s)].hash, run)
  <2>1. Len(s) \in 1 .. Len(s) BY <1>4
  <2>2. QED BY <1>5, <2>1, Zenon DEF RowsSound, RowTells
<1>8. Len(t) < t[Len(t)].seq /\ Len(t) <= t[Len(t)].seq BY <1>4, <1>6, <1>7
<1>9. \A j \in 1 .. Len(t) : j \in 1 .. Len(s) - 1 /\ j \in 1 .. Len(s) /\ j + 1 \in 1 .. Len(s) BY <1>4
<1>10. \A j \in 1 .. Len(t) : RowTells(t[j], run) BY <1>2, <1>9, Zenon DEF RowsSound
<1>11. ASSUME NEW j \in 2 .. Len(t) PROVE Unforged(t[j].prev, run)
  <2>1. j \in 1 .. Len(t) /\ j \in 2 .. Len(s) /\ j + 1 \in 2 .. Len(s) BY <1>4
  <2>2. t[j] = s[j] \/ t[j] = s[j + 1] BY <1>2, <1>9, <2>1, Zenon
  <2>3. QED BY <2>1, <2>2, Zenon DEF RowsSound
<1>12. QED BY <1>3, <1>5, <1>6, <1>7, <1>8, <1>10, <1>11, Zenon DEF RowsSound, Spoilt

LEMMA TransplantKeeps ==
  ASSUME NEW s, NEW run, NEW other, RowsSound(s, run), s # << >>, s[1].hash[1] # other,
         NEW t, t = <<[s[1] EXCEPT !.run = other]>>
  PROVE  RowsSound(t, other) /\ Spoilt(t, other)
<1>1. PICK r : r = s[1] BY Zenon
<1>2. 1 \in 1 .. Len(s) BY ListingTells DEF RowsSound
<1>3. RowTells(r, run) BY <1>1, <1>2, Zenon DEF RowsSound
<1>4. PICK f : f = [r EXCEPT !.run = other] BY Zenon
<1>5. f = [run |-> other, seq |-> r.seq, node |-> r.node, state |-> r.state, ref |-> r.ref, prev |-> r.prev,
           hash |-> r.hash]
  BY <1>3, <1>4 DEF RowTells
<1>6. f.hash[1] # other /\ f.seq \in Nat \ {0} BY <1>1, <1>3, <1>5 DEF RowTells
<1>7. RowTells(f, other) BY <1>5, <1>6 DEF RowTells
<1>8. t = <<f>> BY <1>1, <1>4
<1>9. Listing(t) /\ Len(t) = 1 /\ t # << >> /\ t[1] = f
  <2>1. <<f>> \in Seq({f}) /\ Len(<<f>>) = 1 /\ <<f>>[1] = f OBVIOUS
  <2>2. QED BY <1>8, <2>1, EmptySeq DEF Listing
<1>10. \A j \in 1 .. Len(t) : RowTells(t[j], other) BY <1>7, <1>9
<1>11. 2 .. Len(t) = {} BY <1>9
<1>12. Len(t) <= t[Len(t)].seq /\ Unforged(t[Len(t)].hash, other) BY <1>6, <1>9 DEF Unforged
<1>13. Spoilt(t, other) BY <1>6, <1>9 DEF Spoilt, SpoiltRow
<1>14. QED BY <1>9, <1>10, <1>11, <1>12, <1>13 DEF RowsSound

LEMMA NothingPut == ASSUME NEW run PROVE RowsSound(<< >>, run) /\ AsPut(<< >>, run, << >>)
<1>1. Listing(<< >>) /\ Len(<< >>) = 0 BY EmptySeq DEF Listing
<1>2. QED BY <1>1 DEF RowsSound, AsPut

\* what was spoilt is refused
LEMMA SpoiltRefused == ASSUME NEW s, NEW run, RowsSound(s, run), Spoilt(s, run) PROVE ~VerifyChain(s)
<1>1. SUFFICES ASSUME VerifyChain(s) PROVE FALSE OBVIOUS
<1>2. Len(s) \in Nat /\ s # << >> /\ Len(s) # 0 BY ListingTells DEF RowsSound, Spoilt
<1>3. ASSUME NEW i \in 1 .. Len(s)
      PROVE  /\ s[i].seq = i /\ s[i].ref = s[i].state
             /\ s[i].prev = IF i = 1 THEN << >> ELSE s[i - 1].hash
             /\ s[i].hash = <<s[i].run, s[i].seq, s[i].node, s[i].ref, s[i].prev>>
  BY <1>1, Zenon DEF VerifyChain
<1>4. Len(s) \in 1 .. Len(s) BY <1>2
<1>5. s[Len(s)].seq = Len(s) BY <1>3, <1>4
<1>6. PICK i \in 1 .. Len(s) : SpoiltRow(s[i], run) BY <1>2, <1>5 DEF Spoilt
<1>7. /\ s[i].hash[1] = s[i].run /\ s[i].hash[3] = s[i].node /\ s[i].hash[4] = s[i].state
  <2>1. PICK h : h = s[i].hash BY Zenon
  <2>2. h = <<s[i].run, s[i].seq, s[i].node, s[i].ref, s[i].prev>> /\ s[i].ref = s[i].state BY <1>3, <2>1
  <2>3. h[1] = s[i].run /\ h[3] = s[i].node /\ h[4] = s[i].ref BY <2>2
  <2>4. QED BY <2>1, <2>2, <2>3
<1>8. RowTells(s[i], run) BY Zenon DEF RowsSound
<1>9. s[i].hash[1] = run BY <1>7, <1>8, Zenon DEF RowTells
<1>10. s[i].hash[4] = 0
  <2>1. SUFFICES ASSUME s[i].hash[4] # 0 PROVE FALSE OBVIOUS
  <2>2. s[i].hash[3] # "forged" BY <1>8, <1>9, <2>1, Zenon DEF RowTells
  <2>3. QED BY <1>6, <1>7, <1>9, <2>1, <2>2, Zenon DEF SpoiltRow
<1>11. i # Len(s) BY <1>2, <1>9, <1>10 DEF RowsSound, Unforged
<1>12. i + 1 \in 2 .. Len(s) /\ i + 1 \in 1 .. Len(s) /\ i + 1 # 1 /\ i + 1 - 1 = i BY <1>2, <1>11
<1>13. s[i + 1].prev = s[i].hash
  <2>1. PICK k : k = i + 1 BY Zenon
  <2>2. k \in 1 .. Len(s) BY <1>12, <2>1
  <2>3. s[k].prev = IF k = 1 THEN << >> ELSE s[k - 1].hash BY <1>3, <2>2
  <2>4. QED BY <1>12, <2>1, <2>3
<1>14. Unforged(s[i + 1].prev, run) BY <1>12, Zenon DEF RowsSound
<1>15. QED BY <1>9, <1>10, <1>13, <1>14 DEF Unforged

\* what nobody touched verifies
LEMMA AsPutVerifies ==
  ASSUME NEW s, NEW run, RowsSound(s, run), NEW p, AsPut(s, run, p) PROVE VerifyChain(s)
<1>1. ASSUME NEW i \in 1 .. Len(s)
      PROVE  /\ s[i].seq = i /\ s[i].ref = s[i].state
             /\ s[i].prev = IF i = 1 THEN << >> ELSE s[i - 1].hash
             /\ s[i].hash = <<s[i].run, s[i].seq, s[i].node, s[i].ref, s[i].prev>>
  <2>1. /\ s[i].seq = i /\ s[i].state = p[i] /\ s[i].ref = p[i]
        /\ s[i].prev = IF i = 1 THEN << >> ELSE s[i - 1].hash
        /\ s[i].hash = <<run, i, s[i].node, p[i], s[i].prev>>
    BY Zenon DEF AsPut
  <2>2. s[i].run = run BY Zenon DEF RowsSound, RowTells
  <2>3. QED BY <2>1, <2>2, Zenon
<1>2. QED BY <1>1, Zenon DEF VerifyChain

Wanted == [id : Nat, channel : Channels, value : Nat]

SameKey(v, w) == v.id = w.id /\ v.channel = w.channel

\* w is in a the first of its key, or of a channel of the framework the last
Stands(a, w) ==
  \E k \in DOMAIN a :
    /\ a[k] = w
    /\ \A j \in DOMAIN a :
         a[j].id = w.id /\ a[j].channel = w.channel => IF w.channel \in SpecialChannels THEN j <= k ELSE k <= j

AskedTells(a, ws) ==
  /\ a \in Seq(Wanted)
  /\ \A w \in ws : Stands(a, w)
  /\ \A j \in 1 .. Len(a) : \E w \in ws : SameKey(w, a[j])

RunTells(run) ==
  /\ RowsSound(rows[run], run)
  /\ IF run \in touched THEN Spoilt(rows[run], run) ELSE AsPut(rows[run], run, put[run])

SealsShape ==
  /\ puts \in Nat /\ put \in [ChainRuns -> Seq(Nat \ {0})] /\ touched \subseteq ChainRuns
  /\ rows = [r \in ChainRuns |-> rows[r]] /\ writes = [r \in ChainRuns |-> writes[r]]
  /\ asked = [r \in ChainRuns |-> asked[r]]

SealsInv ==
  /\ SealsShape
  /\ \A run \in ChainRuns : RunTells(run)
  /\ \A run \in ChainRuns : AskedTells(asked[run], writes[run])

LEMMA NothingAsked == AskedTells(<< >>, {})
<1>1. << >> \in Seq(Wanted) /\ Len(<< >>) = 0 BY EmptySeq
<1>2. QED BY <1>1 DEF AskedTells

LEMMA SealsInitial == ASSUME RunChainInit PROVE SealsInv
<1>1. /\ rows = [r \in ChainRuns |-> << >>] /\ writes = [r \in ChainRuns |-> {}]
      /\ put = [r \in ChainRuns |-> << >>] /\ asked = [r \in ChainRuns |-> << >>]
      /\ touched = {} /\ puts = 0
  BY DEF RunChainInit
<1>2. << >> \in Seq(Nat \ {0}) BY EmptySeq
<1>3. SealsShape BY <1>1, <1>2 DEF SealsShape
<1>4. ASSUME NEW run \in ChainRuns PROVE RunTells(run) /\ AskedTells(asked[run], writes[run])
  <2>1. rows[run] = << >> /\ put[run] = << >> /\ asked[run] = << >> /\ writes[run] = {} /\ run \notin touched BY <1>1
  <2>2. RunTells(run) BY <2>1, NothingPut DEF RunTells
  <2>3. QED BY <2>1, <2>2, NothingAsked
<1>5. QED BY <1>3, <1>4 DEF SealsInv

\* one more value asked for, and what stands of it
LEMMA AskedMore ==
  ASSUME NEW a, NEW ws, AskedTells(a, ws), NEW new \in Wanted,
         NEW same, same = {w \in ws : SameKey(w, new)},
         NEW after, after = IF new.channel \in SpecialChannels THEN (ws \ same) \cup {new}
                            ELSE IF same = {} THEN ws \cup {new} ELSE ws
  PROVE  AskedTells(Append(a, new), after)
<1>1. PICK b : b = Append(a, new) BY Zenon
<1>2. /\ b \in Seq(Wanted) /\ Len(b) = Len(a) + 1 /\ Len(a) \in Nat
      /\ \A k \in 1 .. Len(a) : b[k] = a[k]
      /\ b[Len(a) + 1] = new
  BY <1>1, AppendProperties, LenProperties DEF AskedTells
<1>3. DOMAIN b = 1 .. Len(a) + 1 /\ DOMAIN a = 1 .. Len(a) BY <1>2 DEF AskedTells
<1>4. \A k \in 1 .. Len(a) + 1 : k \in 1 .. Len(a) \/ k = Len(a) + 1 BY <1>2
<1>5. Len(a) + 1 \in 1 .. Len(a) + 1 /\ \A k \in 1 .. Len(a) + 1 : k <= Len(a) + 1 BY <1>2
<1>6. ASSUME new \in after, new.channel \in SpecialChannels \/ same = {} PROVE Stands(b, new)
  <2>1. CASE new.channel \in SpecialChannels
    BY <1>2, <1>3, <1>5, <2>1 DEF Stands
  <2>2. CASE new.channel \notin SpecialChannels
    <3>1. ASSUME NEW j \in 1 .. Len(a) + 1, b[j].id = new.id /\ b[j].channel = new.channel PROVE j = Len(a) + 1
      <4>1. SUFFICES ASSUME j # Len(a) + 1 PROVE FALSE OBVIOUS
      <4>2. j \in 1 .. Len(a) /\ b[j] = a[j] BY <1>2, <1>4, <3>1, <4>1
      <4>3. PICK w \in ws : SameKey(w, a[j]) BY <4>2 DEF AskedTells
      <4>4. w \in same BY <3>1, <4>2, <4>3 DEF SameKey
      <4>5. QED BY <1>6, <2>2, <4>4
    <3>2. QED BY <1>2, <1>3, <1>5, <2>2, <3>1 DEF Stands
  <2>3. QED BY <2>1, <2>2
<1>7. ASSUME NEW w \in after, w \in ws, w.channel \in SpecialChannels => ~SameKey(w, new) PROVE Stands(b, w)
  <2>1. PICK k \in 1 .. Len(a) :
          /\ a[k] = w
          /\ \A j \in 1 .. Len(a) :
               a[j].id = w.id /\ a[j].channel = w.channel => IF w.channel \in SpecialChannels THEN j <= k ELSE k <= j
    BY <1>3, <1>7 DEF AskedTells, Stands
  <2>2. k \in DOMAIN b /\ b[k] = w BY <1>2, <1>3, <2>1
  <2>3. ASSUME NEW j \in DOMAIN b, b[j].id = w.id /\ b[j].channel = w.channel
        PROVE  IF w.channel \in SpecialChannels THEN j <= k ELSE k <= j
    <3>1. CASE j \in 1 .. Len(a) BY <1>2, <2>1, <2>3, <3>1
    <3>2. CASE j = Len(a) + 1
      <4>1. SameKey(w, new) BY <1>2, <2>3, <3>2 DEF SameKey
      <4>2. k <= j BY <1>2, <3>2
      <4>3. QED BY <1>7, <4>1, <4>2
    <3>3. QED BY <1>3, <1>4, <3>1, <3>2
  <2>4. QED BY <2>2, <2>3 DEF Stands
<1>8. \A w \in after : Stands(b, w)
  <2>1. SUFFICES ASSUME NEW w \in after PROVE Stands(b, w) OBVIOUS
  <2>2. CASE new.channel \in SpecialChannels
    <3>1. w = new \/ (w \in ws /\ ~SameKey(w, new)) BY <2>2
    <3>2. QED BY <1>6, <1>7, <2>2, <3>1
  <2>3. CASE new.channel \notin SpecialChannels
    <3>1. (w = new /\ same = {}) \/ w \in ws BY <2>3
    <3>2. w.channel \in SpecialChannels => ~SameKey(w, new) BY <2>3 DEF SameKey
    <3>3. QED BY <1>6, <1>7, <3>1, <3>2
  <2>4. QED BY <2>2, <2>3
<1>9. ASSUME NEW j \in 1 .. Len(b) PROVE \E w \in after : SameKey(w, b[j])
  <2>1. \E w \in after : SameKey(w, new)
    <3>1. CASE new \in after BY <3>1 DEF SameKey
    <3>2. CASE new \notin after
      <4>1. same # {} /\ after = ws BY <3>2
      <4>2. QED BY <4>1
    <3>3. QED BY <3>1, <3>2
  <2>2. CASE j \in 1 .. Len(a)
    <3>1. PICK w \in ws : SameKey(w, b[j]) BY <1>2, <2>2 DEF AskedTells
    <3>2. CASE w \in after BY <3>1, <3>2
    <3>3. CASE w \notin after
      <4>1. w \in same BY <3>3
      <4>2. SameKey(new, b[j]) BY <3>1, <4>1 DEF SameKey
      <4>3. QED BY <2>1, <4>2 DEF SameKey
    <3>4. QED BY <3>2, <3>3
  <2>3. CASE j = Len(a) + 1 BY <1>2, <2>1, <2>3
  <2>4. QED BY <1>2, <1>4, <2>2, <2>3
<1>10. QED BY <1>1, <1>2, <1>8, <1>9 DEF AskedTells

LEMMA PutStep == ASSUME SealsInv, NEW run \in ChainRuns, NEW node \in {"__input__", "triage"}, Put(run, node) PROVE SealsInv'
<1>1. /\ puts' = puts + 1
      /\ rows' = [rows EXCEPT ![run] = Append(rows[run], SealEnvelope(run, rows[run], node, puts'))]
      /\ put' = [put EXCEPT ![run] = Append(put[run], puts')]
      /\ writes' = writes /\ asked' = asked /\ touched' = touched
  BY Zenon DEF Put
<1>2. PICK n : n = puts' BY Zenon
<1>3. n \in Nat \ {0} /\ puts' \in Nat BY <1>1, <1>2 DEF SealsInv, SealsShape
<1>4. PICK t : t = Append(rows[run], SealEnvelope(run, rows[run], node, n)) BY Zenon
<1>5. rows' = [rows EXCEPT ![run] = t] BY <1>1, <1>2, <1>4, Zenon
<1>6. SealsShape'
  <2>1. put[run] \in Seq(Nat \ {0}) BY DEF SealsInv, SealsShape
  <2>2. Append(put[run], n) \in Seq(Nat \ {0}) BY <1>3, <2>1, AppendProperties
  <2>3. put' = [put EXCEPT ![run] = Append(put[run], n)] BY <1>1, <1>2
  <2>4. put' \in [ChainRuns -> Seq(Nat \ {0})] BY <2>2, <2>3 DEF SealsInv, SealsShape
  <2>5. rows' = [r \in ChainRuns |-> rows'[r]] BY <1>5 DEF SealsInv, SealsShape
  <2>6. QED BY <1>1, <1>3, <2>4, <2>5 DEF SealsInv, SealsShape
<1>7. ASSUME NEW other \in ChainRuns PROVE RunTells(other)'
  <2>1. CASE other = run
    <3>1. /\ rows'[run] = t /\ put'[run] = Append(put[run], n) /\ touched' = touched /\ put[run] \in Seq(Nat \ {0})
      BY <1>1, <1>2, <1>5 DEF SealsInv, SealsShape
    <3>2. RowsSound(rows[run], run) /\ IF run \in touched THEN Spoilt(rows[run], run) ELSE AsPut(rows[run], run, put[run])
      BY Zenon DEF SealsInv, RunTells
    <3>3. /\ RowsSound(t, run)
          /\ Spoilt(rows[run], run) => Spoilt(t, run)
          /\ AsPut(rows[run], run, put[run]) => AsPut(t, run, Append(put[run], n))
      <4>1. PICK s : s = rows[run] BY Zenon
      <4>2. t = Append(s, SealEnvelope(run, s, node, n)) /\ RowsSound(s, run) BY <1>4, <3>2, <4>1, Zenon
      <4>3. /\ RowsSound(t, run) /\ (Spoilt(s, run) => Spoilt(t, run))
            /\ \A p \in Seq(Nat \ {0}) : AsPut(s, run, p) => AsPut(t, run, Append(p, n))
        <5>1. node \in {"__input__", "triage"} /\ n \in Nat \ {0} BY <1>3
        <5>2. Carried(s, t, run, n) BY <4>2, <5>1, PutKeeps, Zenon
        <5>3. QED BY <5>2, Zenon DEF Carried
      <4>4. QED BY <3>1, <4>1, <4>3, Zenon
    <3>4. QED BY <2>1, <3>1, <3>2, <3>3, Zenon DEF RunTells
  <2>2. CASE other # run
    <3>1. rows'[other] = rows[other] /\ put'[other] = put[other] /\ touched' = touched
      BY <1>1, <1>5, <2>2 DEF SealsInv, SealsShape
    <3>2. QED BY <3>1, Zenon DEF SealsInv, RunTells
  <2>3. QED BY <2>1, <2>2
<1>8. QED BY <1>1, <1>6, <1>7 DEF SealsInv

LEMMA PutWritesStep == ASSUME SealsInv, NEW run \in ChainRuns, NEW channel \in Channels, PutWrites(run, channel) PROVE SealsInv'
<1>1. PICK new : new = [id |-> Last(put[run]), channel |-> channel, value |-> Len(asked[run]) + 1] BY Zenon
<1>2. PICK same : same = {w \in writes[run] : SameKey(w, new)} BY Zenon
<1>3. PICK after : after = IF new.channel \in SpecialChannels THEN (writes[run] \ same) \cup {new}
                            ELSE IF same = {} THEN writes[run] \cup {new} ELSE writes[run]
  BY Zenon
<1>4. new.id = Last(put[run]) /\ new.channel = channel BY <1>1
<1>5. same = {w \in writes[run] : w.id = Last(put[run]) /\ w.channel = channel} BY <1>2, <1>4 DEF SameKey
<1>6. /\ writes' = [writes EXCEPT ![run] =
                      IF channel \in SpecialChannels THEN (writes[run] \ same) \cup {new}
                      ELSE IF same = {} THEN writes[run] \cup {new} ELSE writes[run]]
      /\ asked' = [asked EXCEPT ![run] = Append(asked[run], new)]
      /\ put[run] # << >>
      /\ rows' = rows /\ put' = put /\ touched' = touched /\ puts' = puts
  BY <1>1, <1>5, Zenon DEF PutWrites
<1>7. writes'[run] = after /\ asked'[run] = Append(asked[run], new)
  BY <1>3, <1>4, <1>6 DEF SealsInv, SealsShape
<1>8. new \in Wanted
  <2>1. put[run] \in Seq(Nat \ {0}) /\ put[run] # << >> BY <1>6 DEF SealsInv, SealsShape
  <2>2. Len(put[run]) \in 1 .. Len(put[run]) BY <2>1, EmptySeq
  <2>3. put[run][Len(put[run])] \in Nat \ {0} BY <2>1, <2>2, ElementOfSeq
  <2>4. Last(put[run]) \in Nat BY <2>3 DEF Last
  <2>5. Len(asked[run]) + 1 \in Nat BY LenProperties DEF SealsInv, AskedTells
  <2>6. QED BY <1>1, <2>4, <2>5 DEF Wanted
<1>9. AskedTells(asked[run], writes[run]) BY DEF SealsInv
<1>10. AskedTells(Append(asked[run], new), after)
  <2>1. PICK a : a = asked[run] BY Zenon
  <2>2. PICK ws : ws = writes[run] BY Zenon
  <2>3. /\ AskedTells(a, ws) /\ same = {w \in ws : SameKey(w, new)}
        /\ after = IF new.channel \in SpecialChannels THEN (ws \ same) \cup {new}
                   ELSE IF same = {} THEN ws \cup {new} ELSE ws
    BY <1>2, <1>3, <1>9, <2>1, <2>2, Zenon
  <2>4. AskedTells(Append(a, new), after) BY <1>8, <2>3, AskedMore, Zenon
  <2>5. QED BY <2>1, <2>4
<1>11. SealsShape'
  <2>1. writes' = [r \in ChainRuns |-> writes'[r]] /\ asked' = [r \in ChainRuns |-> asked'[r]]
    BY <1>6 DEF SealsInv, SealsShape
  <2>2. QED BY <1>6, <2>1 DEF SealsInv, SealsShape
<1>12. \A other \in ChainRuns : RunTells(other)' BY <1>6 DEF SealsInv, RunTells
<1>13. ASSUME NEW other \in ChainRuns PROVE AskedTells(asked'[other], writes'[other])
  <2>1. CASE other = run BY <1>7, <1>10, <2>1
  <2>2. CASE other # run
    <3>1. asked'[other] = asked[other] /\ writes'[other] = writes[other] BY <1>6, <2>2 DEF SealsInv, SealsShape
    <3>2. QED BY <3>1, Zenon DEF SealsInv
  <2>3. QED BY <2>1, <2>2
<1>14. QED BY <1>11, <1>12, <1>13 DEF SealsInv

LEMMA DeleteStep == ASSUME SealsInv, NEW run \in ChainRuns, DeleteThread(run) PROVE SealsInv'
<1>1. /\ rows' = [rows EXCEPT ![run] = << >>] /\ writes' = [writes EXCEPT ![run] = {}]
      /\ put' = [put EXCEPT ![run] = << >>] /\ asked' = [asked EXCEPT ![run] = << >>]
      /\ touched' = touched \ {run} /\ puts' = puts
  BY DEF DeleteThread
<1>2. << >> \in Seq(Nat \ {0}) BY EmptySeq
<1>3. SealsShape' BY <1>1, <1>2 DEF SealsInv, SealsShape
<1>4. ASSUME NEW other \in ChainRuns PROVE RunTells(other)' /\ AskedTells(asked'[other], writes'[other])
  <2>1. CASE other = run
    <3>1. rows'[run] = << >> /\ put'[run] = << >> /\ asked'[run] = << >> /\ writes'[run] = {} /\ run \notin touched'
      BY <1>1 DEF SealsInv, SealsShape
    <3>2. QED BY <2>1, <3>1, NothingPut, NothingAsked DEF RunTells
  <2>2. CASE other # run
    <3>1. /\ rows'[other] = rows[other] /\ put'[other] = put[other] /\ asked'[other] = asked[other]
          /\ writes'[other] = writes[other] /\ (other \in touched' <=> other \in touched)
      BY <1>1, <2>2 DEF SealsInv, SealsShape
    <3>2. QED BY <3>1, Zenon DEF SealsInv, RunTells
  <2>3. QED BY <2>1, <2>2
<1>5. QED BY <1>3, <1>4 DEF SealsInv

\* the rows of one run replaced by others, sound and spoilt
LEMMA SpoilStep ==
  ASSUME SealsInv, NEW run \in ChainRuns, NEW t, RowsSound(t, run), Spoilt(t, run),
         rows' = [rows EXCEPT ![run] = t], touched' = touched \cup {run},
         writes' = writes, put' = put, asked' = asked, puts' = puts
  PROVE  SealsInv'
<1>1. SealsShape' BY DEF SealsInv, SealsShape
<1>2. ASSUME NEW other \in ChainRuns PROVE RunTells(other)'
  <2>1. CASE other = run
    <3>1. rows'[run] = t /\ run \in touched' BY DEF SealsInv, SealsShape
    <3>2. QED BY <2>1, <3>1 DEF RunTells
  <2>2. CASE other # run
    <3>1. rows'[other] = rows[other] /\ put'[other] = put[other] /\ (other \in touched' <=> other \in touched)
      BY <2>2 DEF SealsInv, SealsShape
    <3>2. QED BY <3>1, Zenon DEF SealsInv, RunTells
  <2>3. QED BY <2>1, <2>2
<1>3. QED BY <1>1, <1>2 DEF SealsInv

LEMMA TouchStep ==
  ASSUME SealsInv, NEW run \in ChainRuns, NEW i, NEW how \in {"state", "ref", "node", "seal", "remove"}, Touch(run, i, how)
  PROVE  SealsInv'
<1>1. /\ i \in DOMAIN rows[run] /\ (how \in {"seal", "remove"} => i < Len(rows[run]))
      /\ rows' = [rows EXCEPT ![run] = IF how = "remove" THEN RemoveAt(rows[run], i)
                                       ELSE [rows[run] EXCEPT ![i] = Touched(rows[run][i], how)]]
      /\ touched' = touched \cup {run} /\ writes' = writes /\ put' = put /\ asked' = asked /\ puts' = puts
  BY Zenon DEF Touch
<1>2. PICK s : s = rows[run] BY Zenon
<1>3. RowsSound(s, run) BY <1>2, Zenon DEF SealsInv, RunTells
<1>4. Listing(s) BY <1>3 DEF RowsSound
<1>5. i \in 1 .. Len(s) BY <1>1, <1>2, <1>4, ListingTells
<1>6. CASE how = "remove"
  <2>1. PICK t : t = RemoveAt(s, i) BY Zenon
  <2>2. i < Len(s) BY <1>1, <1>2, <1>6
  <2>3. RowsSound(t, run) /\ Spoilt(t, run) BY <1>3, <1>5, <2>1, <2>2, RemoveKeeps, Zenon
  <2>4. rows' = [rows EXCEPT ![run] = t] BY <1>1, <1>2, <1>6, <2>1, Zenon
  <2>5. QED BY <1>1, <2>3, <2>4, SpoilStep
<1>7. CASE how # "remove"
  <2>1. PICK f : f = Touched(s[i], how) BY Zenon
  <2>2. PICK t : t = [s EXCEPT ![i] = f] BY Zenon
  <2>3. /\ Listing(t) /\ Len(t) = Len(s) /\ \A j \in 1 .. Len(s) : t[j] = IF j = i THEN f ELSE s[j]
    <3>1. Listing(t) BY <1>4, <1>5, <2>2, ListingAltered, Zenon
    <3>2. Len(t) = Len(s) BY <1>4, <1>5, <2>2, ListingAltered, Zenon
    <3>3. \A j \in 1 .. Len(s) : t[j] = IF j = i THEN f ELSE s[j] BY <1>4, <1>5, <2>2, ListingAltered
    <3>4. QED BY <3>1, <3>2, <3>3, Zenon
  <2>4. how \in {"state", "ref", "node", "seal"} /\ (how = "seal" => i < Len(s)) BY <1>1, <1>2, <1>7
  <2>5. RowsSound(t, run) /\ Spoilt(t, run) BY <1>3, <1>5, <2>1, <2>3, <2>4, AlterKeeps, Zenon
  <2>6. rows' = [rows EXCEPT ![run] = t] BY <1>1, <1>2, <1>7, <2>1, <2>2, Zenon
  <2>7. QED BY <1>1, <2>5, <2>6, SpoilStep
<1>8. QED BY <1>6, <1>7

LEMMA TransplantStep ==
  ASSUME SealsInv, NEW run \in ChainRuns, NEW other \in ChainRuns, Transplant(run, other) PROVE SealsInv'
<1>1. /\ rows[run] # << >> /\ rows[run][1].hash[1] # other
      /\ rows' = [rows EXCEPT ![other] = <<[rows[run][1] EXCEPT !.run = other]>>]
      /\ touched' = touched \cup {other} /\ writes' = writes /\ put' = put /\ asked' = asked /\ puts' = puts
  BY Zenon DEF Transplant
<1>2. PICK s : s = rows[run] BY Zenon
<1>3. PICK t : t = <<[s[1] EXCEPT !.run = other]>> BY Zenon
<1>4. RowsSound(s, run) BY <1>2, Zenon DEF SealsInv, RunTells
<1>5. s # << >> /\ s[1].hash[1] # other BY <1>1, <1>2, Zenon
<1>6. RowsSound(t, other) /\ Spoilt(t, other) BY <1>3, <1>4, <1>5, TransplantKeeps, Zenon
<1>7. rows' = [rows EXCEPT ![other] = t] BY <1>1, <1>2, <1>3, Zenon
<1>8. QED BY <1>1, <1>6, <1>7, SpoilStep

LEMMA SealsStep == ASSUME SealsInv, [Next]_vars PROVE SealsInv'
<1>1. [RunChainNext]_runChainVars BY DEF Next, OthersStill, vars
<1>2. CASE UNCHANGED runChainVars
  <2>1. /\ rows' = rows /\ writes' = writes /\ put' = put /\ asked' = asked /\ touched' = touched /\ puts' = puts
    BY <1>2 DEF runChainVars
  <2>2. SealsShape' BY <2>1 DEF SealsInv, SealsShape
  <2>3. \A run \in ChainRuns : RunTells(run)' BY <2>1 DEF SealsInv, RunTells
  <2>4. QED BY <2>1, <2>2, <2>3 DEF SealsInv
<1>3. QED BY <1>1, <1>2, PutStep, PutWritesStep, DeleteStep, TouchStep, TransplantStep DEF RunChainNext

LEMMA HonestHere == ASSUME SealsInv PROVE HonestOrRefused
<1>1. ASSUME NEW run \in ChainRuns, run \in touched PROVE LoadRunState(run) = REFUSED
  <2>1. RowsSound(rows[run], run) /\ Spoilt(rows[run], run) BY <1>1, Zenon DEF SealsInv, RunTells
  <2>2. ~VerifyChain(rows[run]) /\ rows[run] # << >> BY <2>1, SpoiltRefused, Zenon DEF Spoilt
  <2>3. QED BY <2>2, Zenon DEF LoadRunState, GetTuple
<1>2. ASSUME NEW run \in ChainRuns, run \notin touched
      PROVE  /\ LoadRunState(run) = IF put[run] = << >> THEN {} ELSE {Last(put[run])}
             /\ \A i \in DOMAIN put[run] : GetTuple(run, put[run][i]) = {put[run][i]}
  <2>1. PICK s : s = rows[run] BY Zenon
  <2>2. PICK p : p = put[run] BY Zenon
  <2>3. p \in Seq(Nat \ {0}) BY <2>2 DEF SealsInv, SealsShape
  <2>4. RowsSound(s, run) /\ AsPut(s, run, p) BY <1>2, <2>1, <2>2, Zenon DEF SealsInv, RunTells
  <2>5. VerifyChain(s) BY <2>4, AsPutVerifies, Zenon
  <2>6. /\ Len(s) = Len(p) /\ Len(p) \in Nat /\ DOMAIN s = 1 .. Len(p) /\ DOMAIN p = 1 .. Len(p)
        /\ (s = << >> <=> Len(p) = 0) /\ (p = << >> <=> Len(p) = 0)
    <3>1. Listing(s) /\ Len(s) = Len(p) BY <2>4 DEF RowsSound, AsPut
    <3>2. Len(s) \in Nat /\ DOMAIN s = 1 .. Len(s) /\ (s = << >> <=> Len(s) = 0) BY <3>1, ListingTells
    <3>3. DOMAIN p = 1 .. Len(p) /\ (p = << >> <=> Len(p) = 0) BY <2>3, EmptySeq, LenProperties
    <3>4. QED BY <3>1, <3>2, <3>3
  <2>7. \A i \in 1 .. Len(p) : s[i].state = p[i] BY <2>4, <2>6 DEF AsPut
  <2>8. ASSUME NEW i \in 1 .. Len(p) PROVE GetTuple(run, p[i]) = {p[i]}
    <3>1. GetTuple(run, p[i]) = {s[k].state : k \in {k \in DOMAIN s : s[k].state = p[i]}}
      BY <2>1, <2>5, Zenon DEF GetTuple
    <3>2. QED BY <2>6, <2>7, <3>1
  <2>9. LoadRunState(run) = IF p = << >> THEN {} ELSE {Last(p)}
    <3>1. CASE p = << >>
      <4>1. s = << >> BY <2>6, <3>1
      <4>2. QED BY <2>1, <3>1, <4>1, Zenon DEF LoadRunState
    <3>2. CASE p # << >>
      <4>1. Len(p) \in 1 .. Len(p) /\ s # << >> BY <2>6, <3>2
      <4>2. Last(s).state = p[Len(p)] BY <2>6, <2>7, <4>1 DEF Last
      <4>3. LoadRunState(run) = GetTuple(run, p[Len(p)]) BY <2>1, <4>1, <4>2, Zenon DEF LoadRunState
      <4>4. QED BY <2>8, <3>2, <4>1, <4>3 DEF Last
    <3>3. QED BY <3>1, <3>2
  <2>10. QED BY <2>2, <2>6, <2>8, <2>9
<1>3. ASSUME NEW run \in ChainRuns, NEW w \in writes[run] PROVE Stands(asked[run], w)
  BY Zenon DEF SealsInv, AskedTells
<1>4. QED BY <1>1, <1>2, <1>3, Zenon DEF HonestOrRefused, Stands

\* For any number of runs, puts and edits: of checkpoints rewritten on disk no reader is
\* given anything but what was put, or nothing, and what tasks wrote stands as they wrote
\* it; and the script finds the chain of evidence whole exactly if nobody edited it
\* (checkpointer.ts:164-302, envelope.ts:65-91, agent.py:125-141, verify-evidence-chain.py).
THEOREM SealsTellHolds == Spec => []SealsTell
<1>1. Init => SealsInv /\ ChainTells BY SealsInitial, ChainInitial DEF Init
<1>2. (SealsInv /\ ChainTells) /\ [Next]_vars => (SealsInv /\ ChainTells)' BY SealsStep, ChainStep
<1>3. SealsInv /\ ChainTells => SealsTell BY HonestHere, ChainHoldsHere DEF SealsTell
<1>4. QED BY <1>1, <1>2, <1>3, PTL DEF Spec

-----------------------------------------------------------------------------
(* The tickets: the registry and the gate, and how long a token is good     *)

\* no kind's ticket holds a dangerous tool
LEMMA NoDangerOnTickets ==
  \A kind \in RunKinds : RequireRunKind(kind) \subseteq Tools /\ RequireRunKind(kind) \cap L2Tools = {}
<1>1. SUFFICES ASSUME NEW kind \in RunKinds
      PROVE  RequireRunKind(kind) \subseteq Tools /\ RequireRunKind(kind) \cap L2Tools = {}
  OBVIOUS
<1>2. RequireRunKind(kind) \subseteq Tools
  BY DEF Tools
<1>3. RequireRunKind(kind) \cap L2Tools = {}
  BY DEF RequireRunKind, RunKinds, TRIAGE_TOOLS, INVESTIGATION_TOOLS, ENRICHMENT_TOOLS,
     KNOWLEDGE_TOOLS, CHAT_READONLY_TOOLS, HuntFlowTicketFace, DefaultMenu, TemplateMenus, L2Tools
<1> QED BY <1>2, <1>3

LEMMA HuntFaceIsHarmless == HuntFlowTicketFace \subseteq Tools /\ HuntFlowTicketFace \cap L2Tools = {}
BY DEF Tools, HuntFlowTicketFace, DefaultMenu, TemplateMenus, L2Tools

LEMMA DangerIsATool == L2Tools \subseteq Tools
BY DEF Tools

LEMMA SpecIsHarmless ==
  ASSUME NEW run \in Launches
  PROVE  TicketSpecFor(run) \subseteq Tools /\ TicketSpecFor(run) \cap L2Tools = {}
BY NoDangerOnTickets, HuntFaceIsHarmless DEF TicketSpecFor, Launches

LEMMA Tiers == \A tool : TierOf(tool) = 2 <=> tool \in L2Tools
BY DEF TierOf, L0Tools, L2Tools

LEMMA TheEmptyToolIsHarmless == "" \notin L2Tools
BY DEF L2Tools

LEMMA TheElement == ASSUME NEW S, S # {} PROVE The(S) \in S
BY DEF The

LEMMA TheOne == ASSUME NEW x PROVE The({x}) = x
BY TheElement

\* what the gate lets through under a ticket
LEMMA TicketAllows ==
  ASSUME NEW t, NEW tool, NEW ctx, VerifyTaskTicket(t, tool, ctx) = "allow"
  PROVE  /\ t.signed /\ t.whole /\ t.form = "task" /\ ~(ctx.now >= t.exp)
         /\ ~ctx.sick /\ t.jti \notin ctx.used /\ tool \in t.tools
         /\ ctx.case = Nowhere \/ t.case = ctx.case
         /\ t.run = ctx.run
BY DEF VerifyTaskTicket

\* what the gate lets through under an approval
LEMMA ApprovalAllows ==
  ASSUME NEW t, NEW tool, NEW params, NEW ctx, VerifyApproval(t, tool, params, ctx) = "allow"
  PROVE  /\ t.signed /\ t.whole /\ t.form = "approval" /\ ~(ctx.now >= t.exp)
         /\ ~ctx.sick /\ t.jti \notin ctx.used /\ tool \in t.tools /\ params = t.params
         /\ ctx.case = Nowhere \/ t.case = ctx.case
BY DEF VerifyApproval

-----------------------------------------------------------------------------
(* Steps of the tickets *)

LEMMA SomeParams == AnyParams \in Params
BY TicketsAssumption DEF AnyParams

LEMMA TicketsInvInit == TicketsInit => TicketsInv
<1>1. SUFFICES ASSUME TicketsInit PROVE TicketsInv
  OBVIOUS
<1>2. NoApproval \in Approval
  BY SomeParams DEF NoApproval, Approval
<1>3. TypeOK
  BY <1>1, <1>2, FS_EmptySet DEF TicketsInit, TypeOK, Idle, NoApproval
<1>4. TicketsAreNarrow
  BY <1>1 DEF TicketsInit, TicketsAreNarrow, NoApproval
<1>5. OpenedOnce
  BY <1>1 DEF TicketsInit, OpenedOnce, Idle
<1>6. CallsAreCovered
  BY <1>1 DEF TicketsInit, CallsAreCovered
<1> QED BY <1>3, <1>4, <1>5, <1>6 DEF TicketsInv

LEMMA Lives == TASK_TTL \in Nat /\ APPROVAL_TTL \in Nat
BY TicketsAssumption

LEMMA NextJti == ASSUME TypeOK PROVE Jti \in Nat
BY FS_CardinalityType DEF TypeOK, Jti

LEMMA InvMintTaskTicket == TicketsInv /\ MintTaskTicket => TicketsInv'
<1>1. SUFFICES ASSUME TicketsInv, MintTaskTicket PROVE TicketsInv'
  OBVIOUS
<1> DEFINE t(s) == [jti |-> Jti, form |-> "task", signed |-> s.signed, whole |-> s.whole,
                    run |-> launch.id, case |-> launch.case, tools |-> TicketSpecFor(launch),
                    params |-> AnyParams, exp |-> now + TASK_TTL]
<1>2. PICK s \in Seals : tokens' = tokens \cup {t(s)} /\ held' = {t(s)}
  BY <1>1 DEF MintTaskTicket
<1>3. t(s) \in Token
  <2>1. s.signed \in BOOLEAN /\ s.whole \in BOOLEAN
    BY DEF Seals
  <2>2. launch.id \in RunIds /\ launch.case \in Cases /\ TicketSpecFor(launch) \subseteq Tools
    BY <1>1, SpecIsHarmless DEF TicketsInv, TypeOK, Launches
  <2>3. now + TASK_TTL \in Nat
    <3>1. now \in Nat
      BY <1>1 DEF TicketsInv, TypeOK
    <3> QED BY <3>1, Lives
  <2>4. Jti \in Nat
    BY <1>1, NextJti DEF TicketsInv
  <2> HIDE DEF Cases, Tools
  <2> QED BY <2>1, <2>2, <2>3, <2>4, SomeParams DEF Token
<1> HIDE DEF t
<1>5. TypeOK'
  BY <1>1, <1>2, <1>3, FS_AddElement DEF TicketsInv, TypeOK, MintTaskTicket
<1>6. TicketsAreNarrow'
  <2>1. t(s).run = launch.id /\ t(s).tools = TicketSpecFor(launch)
    BY DEF t
  <2> QED BY <1>1, <1>2, <2>1 DEF TicketsInv, TicketsAreNarrow, MintTaskTicket
<1>7. OpenedOnce' /\ CallsAreCovered'
  BY <1>1, <1>2 DEF TicketsInv, TypeOK, OpenedOnce, CallsAreCovered, CoveredBy, MintTaskTicket
<1> QED BY <1>5, <1>6, <1>7 DEF TicketsInv

LEMMA InvApprove == ASSUME NEW c \in Approvals, TicketsInv, Approve(c) PROVE TicketsInv'
<1> DEFINE t(s) == [jti |-> Jti, form |-> "approval", signed |-> s.signed, whole |-> s.whole,
                    run |-> launch.id, case |-> launch.case, tools |-> {approval[c].tool},
                    params |-> approval[c].params, exp |-> now + APPROVAL_TTL]
<1>2. PICK s \in Seals :
        /\ tokens' = tokens \cup {t(s)}
        /\ approval' = [approval EXCEPT ![c] = [@ EXCEPT !.status = "approved", !.token = {t(s)}]]
  BY DEF Approve
<1>1. approval[c] \in Approval /\ approval[c].status = "pending" /\ approval[c].tool \in L2Tools
  BY DEF TicketsInv, TypeOK, TicketsAreNarrow, Approve
<1>3. t(s) \in Token
  <2>1. s.signed \in BOOLEAN /\ s.whole \in BOOLEAN
    BY DEF Seals
  <2>2. launch.id \in RunIds /\ launch.case \in Cases
    BY DEF TicketsInv, TypeOK, Launches
  <2>3. now + APPROVAL_TTL \in Nat
    <3>1. now \in Nat
      BY DEF TicketsInv, TypeOK
    <3> QED BY <3>1, Lives
  <2>4. Jti \in Nat
    BY NextJti DEF TicketsInv
  <2>5. {approval[c].tool} \subseteq Tools /\ approval[c].params \in Params
    BY <1>1, DangerIsATool DEF Approval
  <2> HIDE DEF Cases, Tools
  <2> QED BY <2>1, <2>2, <2>3, <2>4, <2>5 DEF Token
<1> HIDE DEF t
<1>4. /\ approval' \in [Approvals -> Approval]
      /\ approval'[c].status = "approved" /\ approval'[c].tool = approval[c].tool
      /\ approval'[c].token = {t(s)}
      /\ \A d \in Approvals \ {c} : approval'[d] = approval[d]
  <2>1. [approval[c] EXCEPT !.status = "approved", !.token = {t(s)}] \in Approval
    BY <1>1, <1>3 DEF Approval
  <2> QED BY <1>1, <1>2, <2>1 DEF TicketsInv, TypeOK, Approval
<1>6. TypeOK'
  <2>1. \A d \in Approvals : approval'[d].token \subseteq tokens'
    BY <1>2, <1>4 DEF TicketsInv, TypeOK
  <2> QED BY <1>2, <1>3, <1>4, <2>1, FS_AddElement DEF TicketsInv, TypeOK, Approve
<1>7. TicketsAreNarrow'
  <2>1. t(s).form = "approval"
    BY DEF t
  <2> QED BY <1>1, <1>2, <1>4, <2>1 DEF TicketsInv, TicketsAreNarrow, Approve
<1>8. OpenedOnce'
  <2>1. \A d \in Approvals : approval[d].status \in {"approved", "executed"} => approval'[d].status = approval[d].status
    BY <1>1, <1>4
  <2> QED BY <2>1 DEF TicketsInv, OpenedOnce, Approve
<1>9. CallsAreCovered'
  BY <1>2 DEF TicketsInv, TypeOK, CallsAreCovered, CoveredBy, Approve
<1> QED BY <1>6, <1>7, <1>8, <1>9 DEF TicketsInv

\* steps that mint nothing and touch neither card nor call
LEMMA InvQuiet ==
  ASSUME TicketsInv, now' \in Nat, failed' \in BOOLEAN, burnt' \subseteq Nat, burns' \subseteq Nat,
         gating' = gating \/ gating' = Idle, failed => failed',
         gating'.step # "idle" => failed' = failed,
         gating' # gating => failed',
         UNCHANGED <<launch, external, tokens, held, approval, call, opened>>
  PROVE  TicketsInv'
<1>1. TypeOK'
  <2>1. Idle \in [step : {"idle", "asked", "acting"}, card : SUBSET Approvals,
                  used : SUBSET Nat, sick : BOOLEAN]
    BY DEF Idle
  <2> QED BY <2>1 DEF TicketsInv, TypeOK
<1>2. TicketsAreNarrow' /\ CallsAreCovered'
  BY DEF TicketsInv, TicketsAreNarrow, CallsAreCovered, CoveredBy
<1>3. OpenedOnce'
  <2>1. CASE gating' = gating
    BY <2>1 DEF TicketsInv, OpenedOnce
  <2>2. CASE gating' # gating
    BY <2>2 DEF TicketsInv, OpenedOnce, Idle
  <2> QED BY <2>1, <2>2
<1> QED BY <1>1, <1>2, <1>3 DEF TicketsInv

LEMMA InvOpenCard ==
  ASSUME NEW c \in Approvals, NEW tool \in Asked \cap L2Tools, NEW p \in Params,
         TicketsInv, OpenCard(c, tool, p)
  PROVE  TicketsInv'
<1>1. [status |-> "pending", tool |-> tool, params |-> p, token |-> {}] \in Approval
  BY DEF Approval
<1>2. TypeOK'
  BY <1>1 DEF TicketsInv, TypeOK, OpenCard
<1>3. TicketsAreNarrow'
  BY DEF TicketsInv, TypeOK, TicketsAreNarrow, OpenCard
<1>4. OpenedOnce'
  BY DEF TicketsInv, TypeOK, OpenedOnce, OpenCard
<1>5. CallsAreCovered'
  BY DEF TicketsInv, CallsAreCovered, CoveredBy, OpenCard
<1> QED BY <1>2, <1>3, <1>4, <1>5 DEF TicketsInv

LEMMA InvWorkerCalls ==
  ASSUME NEW tool \in Asked, NEW p \in Params, TicketsInv, WorkerCalls(tool, p)
  PROVE  TicketsInv'
<1>1. CASE failed'
  <2>1. /\ gating' = gating /\ gating'.step = "idle" /\ ~failed
        /\ UNCHANGED <<now, launch, external, tokens, held, approval, burnt, burns, call, opened>>
    BY <1>1 DEF WorkerCalls, Idle
  <2> QED BY <1>1, <2>1, InvQuiet DEF TicketsInv, TypeOK
<1>2. CASE ~failed'
  <2> DEFINE c == [tool |-> tool, params |-> p, at |-> now, by |-> held]
             ctx == At(now, {}, FALSE)
  <2>1. /\ held # {} /\ call' = {c} /\ UNCHANGED failed
        /\ VerifyTicket({}, held, tool, p, ctx) = "allow"
    BY <1>2 DEF WorkerCalls
  <2>2. VerifyTaskTicket(The(held), tool, ctx) = "allow" /\ The(held) \in held
    BY <2>1, TheElement DEF VerifyTicket
  <2>3. CoveredBy(c, The(held)) /\ The(held).tools = TicketSpecFor(launch)
    <3>1. /\ The(held).signed /\ The(held).form = "task" /\ ~(now >= The(held).exp)
          /\ tool \in The(held).tools
      BY <2>2, TicketAllows DEF At
    <3>2. The(held) \in Token /\ The(held) \in tokens
      BY <2>2 DEF TicketsInv, TypeOK
    <3>3. The(held).run = launch.id /\ The(held).tools = TicketSpecFor(launch)
      BY <3>1, <3>2 DEF TicketsInv, TicketsAreNarrow
    <3>4. TierOf(tool) # 2
      BY <3>1, <3>3, SpecIsHarmless, Tiers DEF TicketsInv, TypeOK
    <3>5. TierOf(tool) < 2
      BY <3>4 DEF TierOf
    <3>6. now < The(held).exp
      BY <3>1, <3>2 DEF TicketsInv, TypeOK, Token
    <3> QED BY <3>1, <3>2, <3>3, <3>5, <3>6 DEF CoveredBy
  <2>4. Narrows(launch) => tool = launch.task
    BY <2>2, <2>3, TicketAllows DEF TicketSpecFor
  <2>5. TypeOK'
    BY <2>1 DEF TicketsInv, TypeOK, CallRecord, WorkerCalls
  <2>6. CallsAreCovered'
    BY <2>1, <2>2, <2>3, <2>4 DEF TicketsInv, CallsAreCovered, CoveredBy, WorkerCalls
  <2>7. TicketsAreNarrow' /\ OpenedOnce'
    BY <2>1 DEF TicketsInv, TicketsAreNarrow, OpenedOnce, WorkerCalls
  <2> QED BY <2>5, <2>6, <2>7 DEF TicketsInv
<1> QED BY <1>1, <1>2

LEMMA InvAskLedger == ASSUME NEW c \in Approvals, TicketsInv, AskLedger(c) PROVE TicketsInv'
<1>1. /\ approval[c].status = "approved" /\ ~failed
      /\ gating'.step = "asked" /\ gating'.card = {c} /\ gating.step = "idle"
      /\ gating' \in [step : {"idle", "asked", "acting"}, card : SUBSET Approvals,
                       used : SUBSET Nat, sick : BOOLEAN]
  <2>1. PICK sick \in BOOLEAN :
          gating' = [step |-> "asked", card |-> {c}, sick |-> sick,
                     used |-> IF sick \/ ~Readable(The(approval[c].token)) THEN {}
                              ELSE burnt \cap {The(approval[c].token).jti}]
    BY DEF AskLedger
  <2>2. burnt \subseteq Nat
    BY DEF TicketsInv, TypeOK
  <2> QED BY <2>1, <2>2 DEF AskLedger, Idle
<1>2. TypeOK'
  BY <1>1 DEF TicketsInv, TypeOK, AskLedger
<1>3. TicketsAreNarrow' /\ CallsAreCovered'
  BY DEF TicketsInv, TicketsAreNarrow, CallsAreCovered, CoveredBy, AskLedger
<1>4. OpenedOnce'
  BY <1>1 DEF TicketsInv, OpenedOnce, AskLedger
<1> QED BY <1>2, <1>3, <1>4 DEF TicketsInv

LEMMA InvApprovedCall == ASSUME NEW c \in Approvals, TicketsInv, ApprovedCall(c) PROVE TicketsInv'
<1> DEFINE a == approval[c]
           ctx == At(now, gating.used, gating.sick)
           k == [tool |-> a.tool, params |-> a.params, at |-> now, by |-> a.token]
<1>1. gating.step = "asked" /\ gating.card = {c} /\ a.status = "approved" /\ ~failed
  BY DEF TicketsInv, OpenedOnce, ApprovedCall
<1>2. CASE VerifyTicket(a.token, {}, a.tool, a.params, ctx) # "allow"
  <2>1. /\ failed' = TRUE /\ gating' = Idle
        /\ UNCHANGED <<now, launch, external, tokens, held, approval, burnt, burns, call, opened>>
    BY <1>2 DEF ApprovedCall
  <2> QED BY <2>1, InvQuiet DEF TicketsInv, TypeOK, Idle
<1>3. CASE VerifyTicket(a.token, {}, a.tool, a.params, ctx) = "allow"
  <2>1. /\ call' = {k} /\ opened' = [opened EXCEPT ![c] = @ + 1]
        /\ gating' = [gating EXCEPT !.step = "acting"]
        /\ UNCHANGED <<now, launch, external, tokens, held, approval, burnt, burns, failed>>
    BY <1>3 DEF ApprovedCall
  <2>2. VerifyApproval(The(a.token), a.tool, a.params, ctx) = "allow" /\ The(a.token) \in a.token
    <3>1. a.token # {}
      BY <1>1, <1>3, Tiers DEF VerifyTicket, TicketsInv, TicketsAreNarrow
    <3> QED BY <1>3, <3>1, TheElement DEF VerifyTicket
  <2>3. a \in Approval /\ a.tool \in L2Tools /\ a.token \subseteq tokens
    BY <1>1 DEF TicketsInv, TypeOK, TicketsAreNarrow
  <2>4. CoveredBy(k, The(a.token))
    <3>1. /\ The(a.token).signed /\ The(a.token).form = "approval" /\ ~(now >= The(a.token).exp)
          /\ a.tool \in The(a.token).tools /\ a.params = The(a.token).params
      BY <2>2, ApprovalAllows DEF At
    <3>2. The(a.token) \in Token /\ The(a.token) \in tokens
      BY <2>2, <2>3 DEF TicketsInv, TypeOK
    <3>3. now < The(a.token).exp
      BY <3>1, <3>2 DEF TicketsInv, TypeOK, Token
    <3> QED BY <3>1, <3>2, <3>3 DEF CoveredBy
  <2>5. ~(TierOf(a.tool) < 2)
    BY <2>3, Tiers
  <2>6. opened[c] = 0
    BY <1>1 DEF TicketsInv, OpenedOnce
  <2>7. TypeOK'
    <3>1. k \in CallRecord
      <4>1. a.tool \in Asked
        BY <1>1, <2>3, TheEmptyToolIsHarmless DEF Approval
      <4> QED BY <2>3, <4>1 DEF CallRecord, Approval, TicketsInv, TypeOK
    <3>2. opened' \in [Approvals -> Nat]
      BY <2>1 DEF TicketsInv, TypeOK
    <3> QED BY <2>1, <2>3, <3>1, <3>2 DEF TicketsInv, TypeOK
  <2>8. TicketsAreNarrow'
    BY <2>1 DEF TicketsInv, TicketsAreNarrow
  <2>9. OpenedOnce'
    BY <1>1, <2>1, <2>6 DEF TicketsInv, TypeOK, OpenedOnce
  <2>10. CallsAreCovered'
    BY <2>1, <2>2, <2>4, <2>5, <2>6 DEF TicketsInv, TypeOK, CallsAreCovered, CoveredBy
  <2> QED BY <2>7, <2>8, <2>9, <2>10 DEF TicketsInv
<1> QED BY <1>2, <1>3

LEMMA InvActionReturned == ASSUME NEW c \in Approvals, TicketsInv, ActionReturned(c) PROVE TicketsInv'
<1>1. gating.step = "acting" /\ gating.card = {c} /\ gating' = Idle
  BY DEF ActionReturned
<1>2. /\ approval' \in [Approvals -> Approval]
      /\ \A d \in Approvals : /\ approval'[d].tool = approval[d].tool
                              /\ approval'[d].token = approval[d].token
      /\ approval'[c].status = "executed"
      /\ \A d \in Approvals \ {c} : approval'[d].status = approval[d].status
  <2>1. approval \in [Approvals -> Approval]
    BY DEF TicketsInv, TypeOK
  <2>2. approval' = [approval EXCEPT ![c] = [@ EXCEPT !.status = "executed"]]
    BY DEF ActionReturned
  <2>3. [approval[c] EXCEPT !.status = "executed"] \in Approval
    BY <2>1 DEF Approval
  <2> QED BY <2>1, <2>2, <2>3 DEF Approval
<1>3. approval[c].status = "approved"
  BY <1>1 DEF TicketsInv, OpenedOnce
<1>4. TypeOK'
  <2>1. burns' \subseteq Nat
    BY DEF ActionReturned, TicketsInv, TypeOK, Token
  <2> QED BY <1>2, <2>1 DEF TicketsInv, TypeOK, ActionReturned, Idle
<1>5. TicketsAreNarrow'
  BY <1>2, <1>3 DEF TicketsInv, TicketsAreNarrow, ActionReturned
<1>6. OpenedOnce'
  BY <1>1, <1>2 DEF TicketsInv, OpenedOnce, ActionReturned, Idle
<1>7. CallsAreCovered'
  BY DEF TicketsInv, CallsAreCovered, CoveredBy, ActionReturned
<1> QED BY <1>4, <1>5, <1>6, <1>7 DEF TicketsInv

LEMMA TicketsInvStep == TicketsInv /\ [TicketsNext]_ticketVars => TicketsInv'
<1>1. SUFFICES ASSUME TicketsInv, [TicketsNext]_ticketVars PROVE TicketsInv'
  OBVIOUS
<1>2. CASE MintRefused
  <2>1. gating.step = "idle"
    BY <1>1, <1>2 DEF MintRefused, TicketsInv, OpenedOnce
  <2> QED BY <1>1, <1>2, <2>1, InvQuiet DEF MintRefused, TicketsInv, TypeOK
<1>3. CASE Clock
  BY <1>1, <1>3, InvQuiet DEF Clock, TicketsInv, TypeOK
<1>4. ASSUME NEW c \in Approvals, ActionThrew(c) PROVE TicketsInv'
  BY <1>1, <1>4, InvQuiet DEF ActionThrew, TicketsInv, TypeOK, Idle
<1>5. ASSUME NEW c \in Approvals, UsedElsewhere(c) PROVE TicketsInv'
  <2>1. burnt' \subseteq Nat
    <3>1. \A t \in approval[c].token : t \in Token
      BY <1>1 DEF TicketsInv, TypeOK
    <3>2. \A t \in approval[c].token : t.jti \in Nat
      BY <3>1 DEF Token
    <3> QED BY <1>1, <1>5, <3>2 DEF UsedElsewhere, TicketsInv, TypeOK
  <2> QED BY <1>1, <1>5, <2>1, InvQuiet DEF UsedElsewhere, TicketsInv, TypeOK
<1>6. ASSUME NEW j \in burns, BurnLands(j) \/ BurnLost(j) PROVE TicketsInv'
  BY <1>1, <1>6, InvQuiet DEF BurnLands, BurnLost, TicketsInv, TypeOK
<1>7. CASE UNCHANGED ticketVars
  BY <1>1, <1>7, InvQuiet DEF ticketVars, TicketsInv, TypeOK
<1> QED BY <1>1, <1>2, <1>3, <1>4, <1>5, <1>6, <1>7, InvMintTaskTicket, InvWorkerCalls, InvOpenCard,
        InvApprove, InvAskLedger, InvApprovedCall, InvActionReturned DEF TicketsNext

LEMMA TicketsStep == ASSUME TicketsInv, [Next]_vars PROVE TicketsInv'
<1>1. [TicketsNext]_ticketVars BY DEF Next, OthersStill, vars
<1>2. QED BY <1>1, TicketsInvStep

LEMMA GatesAgreeHere == ASSUME TypeOK PROVE GatesAgree
<1>1. SUFFICES ASSUME NEW t \in tokens, NEW tool \in Asked, NEW p \in Params,
                      NEW r \in RunIds, NEW k \in Cases
      PROVE  LET ctx == [now |-> now, run |-> r, case |-> k, used |-> burnt, sick |-> FALSE]
                 asToken  == IF t.form = "approval" THEN {t} ELSE {}
                 asTicket == IF t.form = "task" THEN {t} ELSE {}
             IN VerifyTicket(asToken, asTicket, tool, p, ctx) = "allow"
                  <=> PyVerify(t, tool, p, now, burnt) = "allow" /\ Bound(t, tool, r, k)
  BY DEF GatesAgree
<1> DEFINE ctx == [now |-> now, run |-> r, case |-> k, used |-> burnt, sick |-> FALSE]
<1>2. t.form \in {"task", "approval"}
  BY <1>1 DEF TypeOK, Token
<1>3. ctx.now = now /\ ctx.run = r /\ ctx.case = k /\ ctx.used = burnt /\ ctx.sick = FALSE
  OBVIOUS
<1> HIDE DEF ctx
<1>4. CASE t.form = "approval"
  <2>1. VerifyTicket({t}, {}, tool, p, ctx) = VerifyApproval(t, tool, p, ctx)
    BY TheOne DEF VerifyTicket
  <2>2. VerifyApproval(t, tool, p, ctx) = "allow"
          <=> PyVerify(t, tool, p, ctx.now, ctx.used) = "allow" /\ Bound(t, tool, ctx.run, ctx.case)
    BY <1>3, <1>4 DEF VerifyApproval, PyVerify, Bound, Nowhere
  <2> QED BY <1>3, <1>4, <2>1, <2>2 DEF ctx
<1>5. CASE t.form = "task"
  <2>1. VerifyTicket({}, {t}, tool, p, ctx) = VerifyTaskTicket(t, tool, ctx)
    BY TheOne DEF VerifyTicket
  <2>2. VerifyTaskTicket(t, tool, ctx) = "allow"
          <=> PyVerify(t, tool, p, ctx.now, ctx.used) = "allow" /\ Bound(t, tool, ctx.run, ctx.case)
    BY <1>3, <1>5 DEF VerifyTaskTicket, PyVerify, Bound, Nowhere
  <2> QED BY <1>3, <1>5, <2>1, <2>2 DEF ctx
<1> QED BY <1>2, <1>4, <1>5

\* Every variable keeps its type, and no hand holds a token that was never minted.
THEOREM TicketsTypeCorrect == Spec => []TypeOK
<1>1. Init => TicketsInv BY TicketsInvInit DEF Init
<1>2. TicketsInv /\ [Next]_vars => TicketsInv' BY TicketsStep
<1>3. TicketsInv => TypeOK BY DEF TicketsInv
<1>4. QED BY <1>1, <1>2, <1>3, PTL DEF Spec

\* Every call that goes ahead stands under a token of the run that had not lapsed and
\* was made for it, a dangerous one under an approval of its own, which opens no other.
THEOREM CallsAreCoveredHolds == Spec => []CallsAreCovered
<1>1. Init => TicketsInv BY TicketsInvInit DEF Init
<1>2. TicketsInv /\ [Next]_vars => TicketsInv' BY TicketsStep
<1>3. TicketsInv => CallsAreCovered BY DEF TicketsInv
<1>4. QED BY <1>1, <1>2, <1>3, PTL DEF Spec

\* The gate and the minting side's verify agree on every token there is, at any time,
\* up to the bindings only the gate knows.
THEOREM GatesAgreeHolds == Spec => []GatesAgree
<1>1. TypeOK => GatesAgree BY GatesAgreeHere
<1>2. QED BY <1>1, TicketsTypeCorrect, PTL

-----------------------------------------------------------------------------
(* The evaluation suite: a case that was closed is entered once, as its     *)
(* evidence says, or its run broke and its test is red                      *)

Colours == {"green", "red"}

ResultOf ==
  [case : Nat, ran : BOOLEAN, passed : BOOLEAN, verdictOk : BOOLEAN, attack : SUBSET BOOLEAN, score : {-1, 0, 1}]

SuiteShape ==
  /\ cases \in Seq(CaseOf) /\ suite \in [at : Nat, phase : {"case", "judge", "purple", "done"}]
  /\ gate \in Seq(Colours) /\ seen \in Seq(SUBSET Evidences) /\ results \in Seq(ResultOf)
  /\ suite.phase \in {"case", "judge"} =>
       /\ Here \in 1 .. Len(cases) /\ Len(gate) = Here - 1
       /\ purple = << >> /\ report = {}
  /\ suite.phase = "case" => Len(seen) = Here - 1
  /\ suite.phase = "judge" => Len(seen) = Here /\ \E e \in Evidences : seen[Here] = {e}
  /\ suite.phase \in {"purple", "done"} => Len(gate) = Len(cases) /\ Len(seen) = Len(cases)

\* the result r is what the evidence e makes of its case, and so is the test
EnteredAs(r, e) ==
  LET c == cases[r.case] IN
  /\ seen[r.case] = {e}
  /\ r.passed <=> Passed(c, e)
  /\ r.verdictOk <=> CheckExpectedVerdict(c, e)
  /\ r.attack = IF c.attack = "none" THEN {} ELSE AttackEvidence(c, e)
  /\ gate[r.case] = IF Passed(c, e) THEN "green" ELSE "red"

ResultsTell ==
  /\ \A k \in DOMAIN results : LET r == results[k] IN
       /\ r.case \in 1 .. Len(gate)
       /\ r.ran => \E e \in Evidences : EnteredAs(r, e)
       /\ ~r.ran => seen[r.case] = {} /\ gate[r.case] = "green"
  /\ \A j, k \in DOMAIN results : results[j].case = results[k].case => j = k
  /\ \A i \in 1 .. Len(gate) :
       (\E k \in DOMAIN results : results[k].case = i) \/ (seen[i] = {} /\ gate[i] = "red")

PurpleRows == {Row(entry, h, same) : entry \in EntryOf, h \in Hunts, same \in BOOLEAN}

PurpleTells ==
  /\ purple \in Seq(PurpleRows)
  /\ \A i \in DOMAIN purple :
       i \in DOMAIN Entries /\ \E h \in Hunts, same \in BOOLEAN : purple[i] = Row(Entries[i], h, same)
  /\ suite.phase = "purple" => Here = Len(purple) + 1 /\ report = {}

ReportTells ==
  report # {} => suite.phase = "done" /\ report = {Latest} /\ DOMAIN Entries = DOMAIN purple

ScoresTell == \A s \in scores : s.score = 1 => Points \subseteq s.hit

SuiteInv == SuiteShape /\ ResultsTell /\ PurpleTells /\ ReportTells /\ ScoresTell

LEMMA SuiteInitial == ASSUME EvalInit PROVE SuiteInv
<1>1. cases \in Seq(CaseOf) BY EvalsAssumption, EmptySeq DEF EvalInit, ListCases
<1>2. /\ suite = [at |-> 1, phase |-> IF cases = << >> THEN "done" ELSE "case"]
      /\ seen = << >> /\ scores = {} /\ results = << >> /\ gate = << >> /\ purple = << >> /\ report = {}
  BY DEF EvalInit
<1>3. SuiteShape
  <2>1. CASE cases = << >>
    <3>1. suite.phase = "done" /\ suite.at = 1 BY <1>2, <2>1
    <3>2. QED BY <1>1, <1>2, <2>1, <3>1, EmptySeq DEF SuiteShape, Here
  <2>2. CASE cases # << >>
    <3>1. suite.phase = "case" /\ suite.at = 1 BY <1>2, <2>2
    <3>2. Len(cases) \in Nat /\ Len(cases) # 0 BY <1>1, <2>2, EmptySeq, LenProperties
    <3>3. QED BY <1>1, <1>2, <3>1, <3>2, EmptySeq DEF SuiteShape, Here
  <2>3. QED BY <2>1, <2>2
<1>4. ResultsTell /\ ReportTells /\ ScoresTell BY <1>2, EmptySeq DEF ResultsTell, ReportTells, ScoresTell
<1>5. PurpleTells
  <2>1. suite.phase # "purple" BY <1>2
  <2>2. QED BY <1>2, <2>1, EmptySeq DEF PurpleTells
<1>6. QED BY <1>3, <1>4, <1>5 DEF SuiteInv

-----------------------------------------------------------------------------
(* A case is closed *)

\* where the suite goes on, and that what was said of the cases before still holds
LEMMA CaseCloses ==
  ASSUME SuiteInv, suite.phase \in {"case", "judge"}, NEW colour \in Colours, Close(colour),
         seen' \in Seq(SUBSET Evidences), Len(seen') = Here, \A i \in 1 .. Here - 1 : seen'[i] = seen[i],
         results' \in Seq(ResultOf), UNCHANGED <<cases, purple, report>>
  PROVE  /\ SuiteShape' /\ PurpleTells' /\ ReportTells'
         /\ Len(gate') = Here /\ gate'[Here] = colour /\ \A i \in 1 .. Here - 1 : gate'[i] = gate[i]
<1>1. /\ Here \in 1 .. Len(cases) /\ Len(cases) \in Nat /\ Len(gate) = Here - 1 /\ gate \in Seq(Colours)
      /\ purple = << >> /\ report = {}
  BY LenProperties DEF SuiteInv, SuiteShape
<1>2. Here \in Nat /\ Here >= 1 BY <1>1
<1>3. /\ gate' \in Seq(Colours) /\ Len(gate') = Here /\ gate'[Here] = colour
      /\ \A i \in 1 .. Here - 1 : gate'[i] = gate[i]
  BY <1>1, <1>2, AppendProperties DEF Close
<1>4. SuiteShape' /\ suite'.phase # "done"
  <2>1. CASE Here = Len(cases)
    <3>1. suite' = [at |-> 1, phase |-> "purple"] BY <2>1 DEF Close
    <3>2. suite'.phase = "purple" /\ suite' \in [at : Nat, phase : {"case", "judge", "purple", "done"}] BY <3>1
    <3>3. QED BY <1>1, <1>3, <2>1, <3>2 DEF SuiteInv, SuiteShape
  <2>2. CASE Here # Len(cases)
    <3>1. suite' = [at |-> Here + 1, phase |-> "case"] BY <2>2 DEF Close
    <3>2. suite'.phase = "case" /\ Here' = Here + 1 /\ suite' \in [at : Nat, phase : {"case", "judge", "purple", "done"}]
      BY <1>2, <3>1 DEF Here
    <3>3. Here + 1 \in 1 .. Len(cases) /\ (Here + 1) - 1 = Here BY <1>1, <2>2
    <3>4. QED BY <1>1, <1>3, <3>2, <3>3 DEF SuiteInv, SuiteShape
  <2>3. QED BY <2>1, <2>2
<1>5. PurpleTells' /\ ReportTells'
  <2>1. purple' = << >> /\ report' = {} BY <1>1
  <2>2. suite'.phase = "purple" => Here' = 1 BY DEF Close, Here
  <2>3. QED BY <2>1, <2>2, EmptySeq DEF PurpleTells, ReportTells
<1>6. QED BY <1>3, <1>4, <1>5

\* an entry in the results, or none of a run that broke
LEMMA ResultEntered ==
  ASSUME SuiteInv, suite.phase \in {"case", "judge"}, NEW colour \in Colours, Close(colour),
         seen' \in Seq(SUBSET Evidences), Len(seen') = Here, \A i \in 1 .. Here - 1 : seen'[i] = seen[i],
         NEW r \in ResultOf, results' = Append(results, r), r.case = Here,
         IF r.ran THEN \E e \in Evidences : EnteredAs(r, e)' ELSE seen'[Here] = {} /\ colour = "green",
         UNCHANGED <<cases, purple, report>>
  PROVE  SuiteShape' /\ PurpleTells' /\ ReportTells' /\ ResultsTell'
<1>1. results \in Seq(ResultOf) /\ Len(results) \in Nat /\ Here \in Nat /\ Here >= 1 /\ Len(gate) = Here - 1
  BY LenProperties DEF SuiteInv, SuiteShape
<1>2. /\ results' \in Seq(ResultOf) /\ Len(results') = Len(results) + 1 /\ results'[Len(results) + 1] = r
      /\ \A k \in 1 .. Len(results) : results'[k] = results[k]
  BY <1>1, AppendProperties
<1>3. /\ SuiteShape' /\ PurpleTells' /\ ReportTells'
      /\ Len(gate') = Here /\ gate'[Here] = colour /\ \A i \in 1 .. Here - 1 : gate'[i] = gate[i]
  BY <1>2, CaseCloses
<1>4. DOMAIN results = 1 .. Len(results) /\ DOMAIN results' = 1 .. Len(results) + 1
  BY <1>1, <1>2, LenProperties
<1>5. ASSUME NEW k \in 1 .. Len(results)
      PROVE  /\ results'[k] = results[k] /\ results[k].case \in 1 .. Here - 1
             /\ results[k].ran => \E e \in Evidences : EnteredAs(results[k], e)'
             /\ ~results[k].ran => seen'[results[k].case] = {} /\ gate'[results[k].case] = "green"
  <2>1. results'[k] = results[k] /\ results[k].case \in 1 .. Here - 1
    BY <1>1, <1>2, <1>4 DEF SuiteInv, ResultsTell
  <2>2. seen'[results[k].case] = seen[results[k].case] /\ gate'[results[k].case] = gate[results[k].case]
    BY <1>3, <2>1
  <2>3. ASSUME NEW e \in Evidences, EnteredAs(results[k], e) PROVE EnteredAs(results[k], e)'
    BY <2>1, <2>2, <2>3 DEF EnteredAs
  <2>4. QED BY <1>4, <2>1, <2>2, <2>3 DEF SuiteInv, ResultsTell
<1>6. \A k \in DOMAIN results' :
        /\ results'[k].case \in 1 .. Len(gate')
        /\ results'[k].ran => \E e \in Evidences : EnteredAs(results[k], e)'
        /\ ~results'[k].ran => seen'[results'[k].case] = {} /\ gate'[results'[k].case] = "green"
  <2>1. ASSUME NEW k \in 1 .. Len(results) + 1
        PROVE  /\ results'[k].case \in 1 .. Here
               /\ results'[k].ran => \E e \in Evidences : EnteredAs(results[k], e)'
               /\ ~results'[k].ran => seen'[results'[k].case] = {} /\ gate'[results'[k].case] = "green"
    <3>1. CASE k = Len(results) + 1 BY <1>1, <1>2, <1>3, <3>1
    <3>2. CASE k # Len(results) + 1
      <4>1. k \in 1 .. Len(results) BY <1>1, <3>2
      <4>2. QED BY <1>1, <1>5, <4>1
    <3>3. QED BY <3>1, <3>2
  <2>2. QED BY <1>3, <1>4, <2>1
<1>7. ASSUME NEW j \in 1 .. Len(results) + 1, NEW k \in 1 .. Len(results) + 1, results'[j].case = results'[k].case
      PROVE  j = k
  <2>1. \A m \in 1 .. Len(results) + 1 :
          IF m = Len(results) + 1 THEN results'[m].case = Here
          ELSE m \in 1 .. Len(results) /\ results'[m] = results[m] /\ results[m].case # Here
    BY <1>1, <1>2, <1>5
  <2>2. QED BY <1>4, <1>7, <2>1 DEF SuiteInv, ResultsTell
<1>8. ASSUME NEW i \in 1 .. Here
      PROVE  (\E k \in DOMAIN results' : results'[k].case = i) \/ (seen'[i] = {} /\ gate'[i] = "red")
  <2>1. CASE i = Here BY <1>1, <1>2, <1>4, <2>1
  <2>2. CASE i # Here
    <3>1. i \in 1 .. Here - 1 BY <1>1, <2>2
    <3>2. (\E k \in DOMAIN results : results[k].case = i) \/ (seen[i] = {} /\ gate[i] = "red")
      BY <1>1, <3>1 DEF SuiteInv, ResultsTell
    <3>3. QED BY <1>1, <1>2, <1>3, <1>4, <3>1, <3>2
  <2>3. QED BY <2>1, <2>2
<1>9. ResultsTell' BY <1>3, <1>4, <1>6, <1>7, <1>8 DEF ResultsTell
<1>10. QED BY <1>3, <1>9

LEMMA CaseSkipped == ASSUME SuiteInv, SkipCase PROVE SuiteInv'
<1> DEFINE hits == IF cases[Here].attack = "none" THEN {} ELSE {FALSE}
           r == Result(FALSE, FALSE, hits, -1)
<1>1. /\ seen \in Seq(SUBSET Evidences) /\ Len(seen) = Here - 1 /\ Here \in Nat
  BY LenProperties DEF SuiteInv, SuiteShape, SkipCase
<1>2. seen' = Append(seen, {}) /\ results' = Append(results, r) /\ Close("green") BY DEF SkipCase
<1>3. /\ seen' \in Seq(SUBSET Evidences) /\ Len(seen') = Here /\ seen'[Here] = {}
      /\ \A i \in 1 .. Here - 1 : seen'[i] = seen[i]
  BY <1>1, <1>2, AppendProperties
<1>4. r \in ResultOf /\ r.case = Here /\ ~r.ran BY <1>1 DEF Result, ResultOf
<1> HIDE DEF r
<1>5. SuiteShape' /\ PurpleTells' /\ ReportTells' /\ ResultsTell'
  BY <1>2, <1>3, <1>4, ResultEntered DEF SkipCase, Colours
<1>6. ScoresTell' BY DEF SkipCase, SuiteInv, ScoresTell
<1>7. QED BY <1>5, <1>6 DEF SuiteInv

LEMMA CaseBreaks == ASSUME SuiteInv, BrokenCase PROVE SuiteInv'
<1>1. /\ seen \in Seq(SUBSET Evidences) /\ Len(seen) = Here - 1 /\ Here \in Nat /\ Here >= 1
      /\ Len(gate) = Here - 1 /\ results \in Seq(ResultOf)
  BY LenProperties DEF SuiteInv, SuiteShape, BrokenCase
<1>2. seen' = Append(seen, {}) /\ results' = results /\ Close("red") BY DEF BrokenCase
<1>3. /\ seen' \in Seq(SUBSET Evidences) /\ Len(seen') = Here /\ seen'[Here] = {}
      /\ \A i \in 1 .. Here - 1 : seen'[i] = seen[i]
  BY <1>1, <1>2, AppendProperties
<1>4. /\ SuiteShape' /\ PurpleTells' /\ ReportTells'
      /\ Len(gate') = Here /\ gate'[Here] = "red" /\ \A i \in 1 .. Here - 1 : gate'[i] = gate[i]
  BY <1>1, <1>2, <1>3, CaseCloses DEF BrokenCase, Colours
<1>5. \A i \in 1 .. Here : i = Here \/ i \in 1 .. Here - 1 BY <1>1
<1>6. ASSUME NEW k \in DOMAIN results
      PROVE  /\ results[k].case \in 1 .. Here
             /\ results[k].ran => \E e \in Evidences : EnteredAs(results[k], e)'
             /\ ~results[k].ran => seen'[results[k].case] = {} /\ gate'[results[k].case] = "green"
  <2>1. results[k].case \in 1 .. Here - 1 BY <1>1 DEF SuiteInv, ResultsTell
  <2>2. seen'[results[k].case] = seen[results[k].case] /\ gate'[results[k].case] = gate[results[k].case]
    BY <1>3, <1>4, <2>1
  <2>3. ASSUME NEW e \in Evidences, EnteredAs(results[k], e) PROVE EnteredAs(results[k], e)'
    BY <1>2, <2>2, <2>3 DEF EnteredAs, BrokenCase
  <2>4. results[k].case \in 1 .. Here BY <1>1, <2>1
  <2>5. QED BY <2>2, <2>3, <2>4 DEF SuiteInv, ResultsTell
<1>7. ASSUME NEW i \in 1 .. Here
      PROVE  (\E k \in DOMAIN results : results[k].case = i) \/ (seen'[i] = {} /\ gate'[i] = "red")
  BY <1>1, <1>3, <1>4, <1>5 DEF SuiteInv, ResultsTell
<1>8. ResultsTell'
  <2>1. \A j, k \in DOMAIN results : results[j].case = results[k].case => j = k BY DEF SuiteInv, ResultsTell
  <2>2. QED BY <1>2, <1>4, <1>6, <1>7, <2>1 DEF ResultsTell
<1>9. ScoresTell' BY DEF BrokenCase, SuiteInv, ScoresTell
<1>10. QED BY <1>4, <1>8, <1>9 DEF SuiteInv

LEMMA StoppedAre ==
  ASSUME NEW c, NEW e \in Evidences PROVE AttackEvidence(c, e) \subseteq BOOLEAN
<1>1. e.stopped \in SUBSET BOOLEAN BY EvalsAssumption DEF EvidenceOf
<1>2. (e.denied /\ c.label # "none" /\ e.verdict = c.label) \in BOOLEAN OBVIOUS
<1>3. QED BY <1>1, <1>2 DEF AttackEvidence

\* a case whose run left the evidence e is entered and closed
LEMMA CaseEntered ==
  ASSUME SuiteInv, suite.phase \in {"case", "judge"}, NEW e \in Evidences, NEW score \in {-1, 0, 1},
         seen' \in Seq(SUBSET Evidences), Len(seen') = Here, \A i \in 1 .. Here - 1 : seen'[i] = seen[i],
         seen'[Here] = {e}, Enter(e, score), UNCHANGED <<cases, purple, report>>
  PROVE  SuiteShape' /\ PurpleTells' /\ ReportTells' /\ ResultsTell'
<1> DEFINE hits(c) == IF c.attack = "none" THEN {} ELSE AttackEvidence(c, e)
           res(c) == [Result(TRUE, Passed(c, e), hits(c), score) EXCEPT !.verdictOk = CheckExpectedVerdict(c, e)]
           colour(c) == IF Passed(c, e) THEN "green" ELSE "red"
<1>1. PICK c : c = cases[Here] OBVIOUS
<1>2. results' = Append(results, res(c)) /\ Close(colour(c)) /\ colour(c) \in Colours BY <1>1 DEF Enter, Colours
<1>3. Here \in Nat BY DEF SuiteInv, SuiteShape, Here
<1>4. res(c) \in ResultOf
  <2>1. hits(c) \in SUBSET BOOLEAN BY StoppedAre
  <2>2. CheckExpectedVerdict(c, e) \in BOOLEAN BY DEF CheckExpectedVerdict
  <2>3. Passed(c, e) \in BOOLEAN BY DEF Passed, RunChecks
  <2> HIDE DEF hits
  <2>4. Result(TRUE, Passed(c, e), hits(c), score) \in ResultOf
    BY <1>3, <2>1, <2>3 DEF Result, ResultOf
  <2>5. QED BY <2>2, <2>4 DEF ResultOf
<1>5. /\ res(c).case = Here /\ res(c).ran
      /\ (res(c).passed <=> Passed(c, e)) /\ (res(c).verdictOk <=> CheckExpectedVerdict(c, e))
      /\ res(c).attack = hits(c)
  BY DEF Result
<1>6. PICK r \in ResultOf :
        /\ results' = Append(results, r) /\ r.case = Here /\ r.ran
        /\ (r.passed <=> Passed(c, e)) /\ (r.verdictOk <=> CheckExpectedVerdict(c, e))
        /\ r.attack = hits(c)
  BY <1>2, <1>4, <1>5
<1>7. gate'[Here] = colour(c)
  <2>1. results' \in Seq(ResultOf) BY <1>6, AppendProperties DEF SuiteInv, SuiteShape
  <2>2. QED BY <1>2, <2>1, CaseCloses
<1>8. EnteredAs(r, e)'
  <2>1. cases'[r.case] = c BY <1>1, <1>6
  <2>2. QED BY <1>6, <1>7, <2>1 DEF EnteredAs
<1>9. QED BY <1>2, <1>6, <1>8, ResultEntered

LEMMA LatestStands == ASSUME UNCHANGED <<cases, results, purple>> PROVE Latest' = Latest
BY DEF Latest, Count, Weakest, Misses, PurpleChecks

LEMMA SuiteStands ==
  ASSUME SuiteInv, UNCHANGED <<cases, suite, gate, seen, results, scores, purple, report>> PROVE SuiteInv'
<1>1. SuiteShape' /\ PurpleTells' /\ ScoresTell' BY DEF SuiteInv, SuiteShape, PurpleTells, ScoresTell, Here
<1>2. ResultsTell' BY DEF SuiteInv, ResultsTell, EnteredAs
<1>3. ReportTells' BY LatestStands DEF SuiteInv, ReportTells
<1>4. QED BY <1>1, <1>2, <1>3 DEF SuiteInv

\* the evidence of one more case leaves what was said of the others
LEMMA SeenBefore ==
  ASSUME SuiteInv, \A i \in 1 .. Len(gate) : seen'[i] = seen[i], UNCHANGED <<cases, gate, results>>
  PROVE  ResultsTell'
<1>1. ASSUME NEW k \in DOMAIN results, NEW e \in Evidences, EnteredAs(results[k], e) PROVE EnteredAs(results[k], e)'
  BY <1>1 DEF SuiteInv, ResultsTell, EnteredAs
<1>2. QED BY <1>1 DEF SuiteInv, ResultsTell

LEMMA CaseRuns == ASSUME SuiteInv, RunCase PROVE SuiteInv'
<1>1. /\ seen \in Seq(SUBSET Evidences) /\ Len(seen) = Here - 1 /\ Here \in Nat /\ Here >= 1
      /\ results \in Seq(ResultOf)
  BY LenProperties DEF SuiteInv, SuiteShape, RunCase
<1>2. PICK e \in Evidences :
        /\ seen' = Append(seen, {e})
        /\ IF judge.there
           THEN suite' = [suite EXCEPT !.phase = "judge"] /\ UNCHANGED <<gate, results>>
           ELSE Enter(e, -1)
  BY DEF RunCase
<1>3. /\ seen' \in Seq(SUBSET Evidences) /\ Len(seen') = Here /\ seen'[Here] = {e}
      /\ \A i \in 1 .. Here - 1 : seen'[i] = seen[i]
  <2>1. {e} \in SUBSET Evidences OBVIOUS
  <2>2. QED BY <1>1, <1>2, <2>1, AppendProperties
<1>4. ScoresTell' BY DEF RunCase, SuiteInv, ScoresTell
<1>5. CASE ~judge.there
  <2>1. Enter(e, -1) BY <1>2, <1>5
  <2>2. SuiteShape' /\ PurpleTells' /\ ReportTells' /\ ResultsTell'
    BY <1>3, <2>1, CaseEntered DEF RunCase
  <2>3. QED BY <1>4, <2>2 DEF SuiteInv
<1>6. CASE judge.there
  <2>1. suite' = [suite EXCEPT !.phase = "judge"] /\ UNCHANGED <<cases, gate, results, purple, report>>
    BY <1>2, <1>6 DEF RunCase
  <2>2. suite'.phase = "judge" /\ suite'.at = suite.at /\ suite' \in [at : Nat, phase : {"case", "judge", "purple", "done"}]
    BY <2>1 DEF SuiteInv, SuiteShape
  <2>3. suite.phase = "case" BY DEF RunCase
  <2>4. SuiteShape' BY <1>3, <2>1, <2>2, <2>3 DEF SuiteInv, SuiteShape, Here
  <2>5. PurpleTells' /\ ReportTells'
    BY <2>1, <2>2, <2>3 DEF SuiteInv, SuiteShape, PurpleTells, ReportTells
  <2>6. ResultsTell' BY <1>3, <2>1, <2>3, SeenBefore DEF SuiteInv, SuiteShape
  <2>7. QED BY <1>4, <2>4, <2>5, <2>6 DEF SuiteInv
<1>7. QED BY <1>5, <1>6

LEMMA NoScoreIsNotOne == -1 # 1
OBVIOUS

LEMMA JudgeSays ==
  ASSUME SuiteInv, NEW how \in {"points", "bad shape", "none"}, NEW hit, JudgeAnswers(how, hit) PROVE SuiteInv'
<1>1. /\ suite.phase = "judge" /\ seen \in Seq(SUBSET Evidences) /\ Len(seen) = Here
      /\ UNCHANGED <<cases, seen, purple, report>>
  BY DEF SuiteInv, SuiteShape, JudgeAnswers
<1>2. CASE how = "bad shape" /\ judge.tries = 0
  <2>1. UNCHANGED <<cases, suite, gate, seen, results, scores, purple, report>> BY <1>1, <1>2 DEF JudgeAnswers
  <2>2. QED BY <2>1, SuiteStands
<1>3. CASE ~(how = "bad shape" /\ judge.tries = 0)
  <2> DEFINE score == IF how # "points" THEN -1 ELSE IF Points \subseteq hit THEN 1 ELSE 0
  <2>1. PICK e \in Last(seen) : Enter(e, score) BY <1>3 DEF JudgeAnswers
  <2>2. seen[Here] = {e} /\ e \in Evidences
    <3>1. PICK f \in Evidences : seen[Here] = {f} BY <1>1 DEF SuiteInv, SuiteShape
    <3>2. Last(seen) = seen[Here] BY <1>1 DEF Last
    <3>3. QED BY <2>1, <3>1, <3>2
  <2>3. score \in {-1, 0, 1} OBVIOUS
  <2>4. SuiteShape' /\ PurpleTells' /\ ReportTells' /\ ResultsTell' BY <1>1, <2>1, <2>2, <2>3, CaseEntered
  <2>5. ScoresTell'
    <3>1. scores' = IF how = "points" THEN scores \cup {[score |-> score, hit |-> hit]} ELSE scores
      BY <1>3 DEF JudgeAnswers
    <3>2. ASSUME score = 1 PROVE Points \subseteq hit
      <4>1. CASE how # "points"
        <5>1. score = -1 BY <4>1
        <5> HIDE DEF score
        <5>2. score # 1 BY <5>1, NoScoreIsNotOne, Zenon
        <5>3. QED BY <3>2, <5>2
      <4>2. CASE how = "points" BY <3>2, <4>2
      <4>3. QED BY <4>1, <4>2
    <3> HIDE DEF score
    <3>3. \A s \in scores' : s \in scores \/ s = [score |-> score, hit |-> hit] BY <3>1
    <3>4. ASSUME NEW s \in scores', s.score = 1 PROVE Points \subseteq s.hit
      <4>1. CASE s \in scores BY <3>4, <4>1 DEF SuiteInv, ScoresTell
      <4>2. CASE s = [score |-> score, hit |-> hit] BY <3>2, <3>4, <4>2
      <4>3. QED BY <3>3, <4>1, <4>2
    <3>5. QED BY <3>4 DEF ScoresTell
  <2>6. QED BY <2>4, <2>5 DEF SuiteInv
<1>4. QED BY <1>2, <1>3

-----------------------------------------------------------------------------
(* The purple team and the report *)

\* the cases are as they were, and so is what was said of them
LEMMA CasesStand ==
  ASSUME SuiteInv, suite.phase \in {"purple", "done"}, suite'.phase \in {"purple", "done"}, suite'.at \in Nat,
         suite' \in [at : Nat, phase : {"case", "judge", "purple", "done"}],
         UNCHANGED <<cases, seen, scores, results, gate>>
  PROVE  SuiteShape' /\ ResultsTell' /\ ScoresTell'
<1>1. SuiteShape' BY DEF SuiteInv, SuiteShape
<1>2. ResultsTell' BY DEF SuiteInv, ResultsTell, EnteredAs
<1>3. ScoresTell' BY DEF SuiteInv, ScoresTell
<1>4. QED BY <1>1, <1>2, <1>3

LEMMA Hunted == ASSUME SuiteInv, HuntEntry PROVE SuiteInv'
<1>1. PICK h \in Hunts, same \in BOOLEAN : purple' = Append(purple, Row(Entries[Here], h, same))
  BY DEF HuntEntry
<1>2. /\ suite.phase = "purple" /\ Here <= Len(Entries) /\ suite' = [suite EXCEPT !.at = @ + 1]
      /\ UNCHANGED <<cases, seen, scores, results, gate, report>>
      /\ purple \in Seq(PurpleRows) /\ Here = Len(purple) + 1 /\ Len(purple) \in Nat /\ report = {}
  BY LenProperties DEF HuntEntry, SuiteInv, PurpleTells
<1>3. suite' \in [at : Nat, phase : {"case", "judge", "purple", "done"}] /\ suite'.phase = "purple" /\ Here' = Here + 1
  BY <1>2 DEF SuiteInv, SuiteShape, Here
<1>4. Here \in DOMAIN Entries /\ Entries[Here] \in EntryOf
  BY <1>2, EvalsAssumption, LenProperties, ElementOfSeq
<1>5. Row(Entries[Here], h, same) \in PurpleRows BY <1>4 DEF PurpleRows
<1>6. /\ purple' \in Seq(PurpleRows) /\ Len(purple') = Len(purple) + 1
      /\ purple'[Len(purple) + 1] = Row(Entries[Here], h, same)
      /\ \A i \in 1 .. Len(purple) : purple'[i] = purple[i]
  BY <1>1, <1>2, <1>5, AppendProperties
<1>7. DOMAIN purple = 1 .. Len(purple) /\ DOMAIN purple' = 1 .. Len(purple) + 1
  BY <1>2, <1>6, LenProperties
<1>8. PurpleTells'
  <2>1. ASSUME NEW i \in 1 .. Len(purple) + 1
        PROVE  i \in DOMAIN Entries /\ \E g \in Hunts, s \in BOOLEAN : purple'[i] = Row(Entries[i], g, s)
    <3>1. CASE i = Len(purple) + 1 BY <1>2, <1>4, <1>6, <3>1
    <3>2. CASE i # Len(purple) + 1
      <4>1. i \in 1 .. Len(purple) BY <1>2, <3>2
      <4>2. QED BY <1>6, <1>7, <4>1 DEF SuiteInv, PurpleTells
    <3>3. QED BY <3>1, <3>2
  <2>2. Here' = Len(purple') + 1 /\ report' = {} BY <1>2, <1>3, <1>6
  <2>3. QED BY <1>6, <1>7, <2>1, <2>2 DEF PurpleTells
<1>9. ReportTells' BY <1>2 DEF ReportTells
<1>10. SuiteShape' /\ ResultsTell' /\ ScoresTell' BY <1>2, <1>3, CasesStand
<1>11. QED BY <1>8, <1>9, <1>10 DEF SuiteInv

LEMMA PurpleEnds == ASSUME SuiteInv, PurpleBreaks \/ WriteReport PROVE SuiteInv'
<1>1. /\ suite.phase = "purple" /\ suite' = [suite EXCEPT !.phase = "done"]
      /\ UNCHANGED <<cases, seen, scores, results, gate, purple>>
  BY DEF PurpleBreaks, WriteReport
<1>2. /\ suite' \in [at : Nat, phase : {"case", "judge", "purple", "done"}] /\ suite'.phase = "done"
  BY <1>1 DEF SuiteInv, SuiteShape
<1>3. SuiteShape' /\ ResultsTell' /\ ScoresTell' BY <1>1, <1>2, CasesStand
<1>4. PurpleTells' BY <1>1, <1>2 DEF SuiteInv, PurpleTells
<1>5. ReportTells'
  <2>1. CASE PurpleBreaks
    <3>1. report' = {} BY <2>1 DEF PurpleBreaks, SuiteInv, PurpleTells
    <3>2. QED BY <3>1 DEF ReportTells
  <2>2. CASE WriteReport
    <3>1. Latest' = Latest BY <1>1, LatestStands
    <3>2. DOMAIN Entries = DOMAIN purple
      <4>1. DOMAIN Entries = 1 .. Len(Entries) /\ Len(Entries) \in Nat BY EvalsAssumption, LenProperties
      <4>2. DOMAIN purple = 1 .. Len(purple) /\ Len(purple) \in Nat BY LenProperties DEF SuiteInv, PurpleTells
      <4>3. Len(purple) >= Len(Entries) BY <1>1, <2>2, <4>1, <4>2 DEF WriteReport, SuiteInv, PurpleTells
      <4>4. DOMAIN purple \subseteq DOMAIN Entries BY DEF SuiteInv, PurpleTells
      <4>5. Len(purple) <= Len(Entries)
        <5>1. CASE Len(purple) = 0 BY <4>1, <5>1
        <5>2. CASE Len(purple) # 0
          <6>1. Len(purple) \in DOMAIN purple BY <4>2, <5>2
          <6>2. QED BY <4>1, <4>4, <6>1
        <5>3. QED BY <5>1, <5>2
      <4>6. Len(purple) \in Nat /\ Len(Entries) \in Nat BY <4>1, <4>2
      <4>7. Len(purple) = Len(Entries) BY <4>3, <4>5, <4>6
      <4>8. QED BY <4>1, <4>2, <4>7
    <3>3. report' = {Latest} BY <2>2 DEF WriteReport
    <3>4. QED BY <1>1, <1>2, <3>1, <3>2, <3>3 DEF ReportTells
  <2>3. QED BY <2>1, <2>2
<1>6. QED BY <1>3, <1>4, <1>5 DEF SuiteInv

LEMMA SuiteStep == ASSUME SuiteInv, [Next]_vars PROVE SuiteInv'
<1>1. [EvalNext]_evalVars BY DEF Next, OthersStill, vars
<1>2. CASE UNCHANGED evalVars
  <2>1. UNCHANGED <<cases, suite, gate, seen, results, scores, purple, report>> BY <1>2 DEF evalVars
  <2>2. QED BY <2>1, SuiteStands
<1>3. ASSUME NEW how \in {"points", "bad shape", "none"}, NEW hit \in SUBSET (Points \cup {"made up"}),
             JudgeAnswers(how, hit) PROVE SuiteInv'
  BY <1>3, JudgeSays
<1>4. QED BY <1>1, <1>2, <1>3, CaseSkipped, CaseBreaks, CaseRuns, Hunted, PurpleEnds DEF EvalNext

-----------------------------------------------------------------------------
(* What the report counts are cases: each result is that of a case of its own *)

CaseOfResults(J) == {results[k].case : k \in J}

LEMMA ResultsAreCases ==
  ASSUME SuiteInv, NEW J \in SUBSET DOMAIN results
  PROVE  /\ IsFiniteSet(J) /\ IsFiniteSet(CaseOfResults(J))
         /\ Cardinality(CaseOfResults(J)) = Cardinality(J) /\ Cardinality(J) \in Nat
<1>1. IsFiniteSet(J) /\ Cardinality(J) \in Nat
  <2>1. DOMAIN results = 1 .. Len(results) /\ Len(results) \in Nat BY LenProperties DEF SuiteInv, SuiteShape
  <2>2. IsFiniteSet(DOMAIN results) BY <2>1, FS_Interval
  <2>3. QED BY <2>2, FS_Subset, FS_CardinalityType
<1> DEFINE f == [k \in J |-> results[k].case]
<1>2. f \in Bijection(J, CaseOfResults(J))
  <2>1. f \in [J -> CaseOfResults(J)] BY DEF CaseOfResults
  <2>2. \A j, k \in J : f[j] = f[k] => j = k BY DEF SuiteInv, ResultsTell
  <2>3. \A i \in CaseOfResults(J) : \E k \in J : f[k] = i BY DEF CaseOfResults
  <2>4. QED BY <2>1, <2>2, <2>3 DEF Bijection, Injection, Surjection, IsInjective
<1>3. ExistsBijection(J, CaseOfResults(J)) BY <1>2 DEF ExistsBijection
<1>4. QED BY <1>1, <1>3, FS_Bijection

\* of a case that ran there is a result, which says what its evidence says
LEMMA RanIsEntered ==
  ASSUME SuiteInv, suite.phase = "done", NEW i \in DOMAIN cases, seen[i] # {}
  PROVE  \E k \in DOMAIN results, e \in Evidences :
           results[k].case = i /\ results[k].ran /\ EnteredAs(results[k], e)
<1>1. i \in 1 .. Len(gate) BY LenProperties DEF SuiteInv, SuiteShape
<1>2. PICK k \in DOMAIN results : results[k].case = i BY <1>1 DEF SuiteInv, ResultsTell
<1>3. results[k].ran BY <1>2 DEF SuiteInv, ResultsTell
<1>4. QED BY <1>2, <1>3 DEF SuiteInv, ResultsTell

LEMMA EnteredRan ==
  ASSUME SuiteInv, suite.phase = "done", NEW k \in DOMAIN results, results[k].ran
  PROVE  /\ results[k].case \in DOMAIN cases /\ seen[results[k].case] # {}
         /\ \E e \in Evidences : EnteredAs(results[k], e)
<1>1. results[k].case \in DOMAIN cases BY LenProperties DEF SuiteInv, SuiteShape, ResultsTell
<1>2. PICK e \in Evidences : EnteredAs(results[k], e) BY DEF SuiteInv, ResultsTell
<1>3. QED BY <1>1, <1>2 DEF EnteredAs

CasesRan == {i \in DOMAIN cases : seen[i] # {}}

LEMMA CountsTell ==
  ASSUME SuiteInv, suite.phase = "done"
  PROVE  /\ Latest.ran = Cardinality(CasesRan)
         /\ Latest.passed = Cardinality({i \in CasesRan : ~Red(i)})
         /\ Len(cases) - Latest.cases = Cardinality({i \in DOMAIN cases \ CasesRan : Red(i)})
         /\ Latest.attacks <= Cardinality({i \in CasesRan : cases[i].attack # "none"})
<1>1. DOMAIN results = 1 .. Len(results) /\ Len(results) \in Nat /\ DOMAIN cases = 1 .. Len(cases)
      /\ Len(cases) \in Nat /\ Len(gate) = Len(cases)
  BY LenProperties DEF SuiteInv, SuiteShape
<1>2. IsFiniteSet(DOMAIN cases) /\ Cardinality(DOMAIN cases) = Len(cases)
      /\ IsFiniteSet(DOMAIN results) /\ Cardinality(DOMAIN results) = Len(results)
  <2>1. 1 \in Int /\ Len(cases) \in Int /\ Len(results) \in Int BY <1>1
  <2>2. /\ IsFiniteSet(1 .. Len(cases)) /\ Cardinality(1 .. Len(cases)) = IF 1 > Len(cases) THEN 0 ELSE Len(cases) - 1 + 1
        /\ IsFiniteSet(1 .. Len(results)) /\ Cardinality(1 .. Len(results)) = IF 1 > Len(results) THEN 0 ELSE Len(results) - 1 + 1
    BY <2>1, FS_Interval
  <2>3. \A n \in Nat : (IF 1 > n THEN 0 ELSE n - 1 + 1) = n OBVIOUS
  <2>4. QED BY <1>1, <2>2, <2>3
<1>3. Latest.ran = Cardinality(CasesRan)
  <2> DEFINE J == {k \in DOMAIN results : results[k].ran}
  <2>1. Latest.ran = Cardinality(J) BY DEF Latest, Count
  <2>2. CaseOfResults(J) = CasesRan BY RanIsEntered, EnteredRan DEF CaseOfResults, CasesRan
  <2>3. QED BY <2>1, <2>2, ResultsAreCases
<1>4. Latest.passed = Cardinality({i \in CasesRan : ~Red(i)})
  <2> DEFINE J == {k \in DOMAIN results : results[k].ran /\ results[k].passed}
             I == {i \in CasesRan : ~Red(i)}
  <2>1. Latest.passed = Cardinality(J) BY DEF Latest, Count
  <2>2. ASSUME NEW i \in I PROVE i \in CaseOfResults(J)
    <3>1. PICK k \in DOMAIN results, e \in Evidences : results[k].case = i /\ results[k].ran /\ EnteredAs(results[k], e)
      BY RanIsEntered DEF CasesRan
    <3>2. results[k].passed BY <3>1 DEF EnteredAs, Red
    <3>3. QED BY <3>1, <3>2 DEF CaseOfResults
  <2>3. ASSUME NEW k \in J PROVE results[k].case \in I
    <3>1. PICK e \in Evidences : EnteredAs(results[k], e) BY EnteredRan
    <3>2. gate[results[k].case] = "green" BY <3>1 DEF EnteredAs
    <3>3. QED BY <3>2, EnteredRan DEF CasesRan, Red
  <2>4. CaseOfResults(J) = I BY <2>2, <2>3 DEF CaseOfResults
  <2>5. QED BY <2>1, <2>4, ResultsAreCases
<1>5. Len(cases) - Latest.cases = Cardinality({i \in DOMAIN cases \ CasesRan : Red(i)})
  <2> DEFINE E == CaseOfResults(DOMAIN results)
             B == {i \in DOMAIN cases \ CasesRan : Red(i)}
  <2>1. Latest.cases = Len(results) BY DEF Latest
  <2>2. Cardinality(E) = Len(results) BY <1>2, ResultsAreCases
  <2>3. E \subseteq DOMAIN cases BY <1>1 DEF CaseOfResults, SuiteInv, ResultsTell
  <2>4. ASSUME NEW i \in DOMAIN cases, i \notin E PROVE i \in B
    <3>1. seen[i] = {} /\ gate[i] = "red" BY <1>1, <2>4 DEF CaseOfResults, SuiteInv, ResultsTell
    <3>2. QED BY <3>1 DEF CasesRan, Red
  <2>5. ASSUME NEW k \in DOMAIN results PROVE results[k].case \notin B
    <3>1. CASE results[k].ran BY <3>1, EnteredRan DEF CasesRan
    <3>2. CASE ~results[k].ran
      <4>1. gate[results[k].case] = "green" BY <3>2 DEF SuiteInv, ResultsTell
      <4>2. QED BY <4>1 DEF Red
    <3>3. QED BY <3>1, <3>2
  <2>6. B = DOMAIN cases \ E BY <2>3, <2>4, <2>5 DEF CaseOfResults
  <2>7. DOMAIN cases \cap E = E BY <2>3
  <2>8. Cardinality(DOMAIN cases \ E) = Cardinality(DOMAIN cases) - Cardinality(DOMAIN cases \cap E)
    BY <1>2, FS_Difference
  <2>9. QED BY <1>2, <2>1, <2>2, <2>6, <2>7, <2>8
<1>6. Latest.attacks <= Cardinality({i \in CasesRan : cases[i].attack # "none"})
  <2> DEFINE J == {k \in DOMAIN results : results[k].ran /\ results[k].attack # {}}
             I == {i \in CasesRan : cases[i].attack # "none"}
  <2>1. Latest.attacks = Cardinality(J) BY DEF Latest, Count
  <2>2. ASSUME NEW k \in J PROVE results[k].case \in I
    <3>1. PICK e \in Evidences : EnteredAs(results[k], e) BY EnteredRan
    <3>2. cases[results[k].case].attack # "none" BY <3>1 DEF EnteredAs
    <3>3. QED BY <3>2, EnteredRan DEF CasesRan
  <2>3. CaseOfResults(J) \subseteq I BY <2>2 DEF CaseOfResults
  <2>4. IsFiniteSet(I)
    <3>1. I \in SUBSET DOMAIN cases BY DEF CasesRan
    <3>2. QED BY <1>2, <3>1, FS_Subset
  <2>5. Cardinality(CaseOfResults(J)) <= Cardinality(I) BY <2>3, <2>4, FS_Subset
  <2>6. Cardinality(CaseOfResults(J)) = Cardinality(J) BY ResultsAreCases
  <2>7. QED BY <2>1, <2>5, <2>6
<1>7. QED BY <1>3, <1>4, <1>5, <1>6

\* an attack with evidence of which the case passed was stopped
LEMMA PassedIsStopped ==
  ASSUME NEW c, NEW e \in Evidences, Passed(c, e), AttackEvidence(c, e) # {}
  PROVE  AttackEvidence(c, e) = {TRUE}
<1>1. AttackEvidence(c, e) \subseteq BOOLEAN BY StoppedAre
<1>2. FALSE \notin AttackEvidence(c, e) BY DEF Passed
<1>3. \A b \in AttackEvidence(c, e) : b = TRUE BY <1>1, <1>2
<1>4. QED BY <1>3

LEMMA AllGreenTells ==
  ASSUME SuiteInv, suite.phase = "done", \A i \in DOMAIN cases : ~Red(i)
  PROVE  Latest.stopped = Latest.attacks /\ Latest.correct = Latest.triage
<1>1. ASSUME NEW k \in DOMAIN results, results[k].ran
      PROVE  results[k].verdictOk /\ (results[k].attack # {} => results[k].attack = {TRUE})
  <2>1. PICK e \in Evidences : EnteredAs(results[k], e) BY <1>1, EnteredRan
  <2> DEFINE c == cases[results[k].case]
  <2>2. Passed(c, e)
    <3>1. ~Red(results[k].case) BY <1>1, EnteredRan
    <3>2. QED BY <2>1, <3>1 DEF EnteredAs, Red
  <2>3. results[k].verdictOk BY <2>1, <2>2 DEF EnteredAs, Passed, RunChecks
  <2>4. ASSUME results[k].attack # {} PROVE results[k].attack = {TRUE}
    <3>1. results[k].attack = AttackEvidence(c, e) BY <2>1, <2>4 DEF EnteredAs
    <3>2. QED BY <2>2, <2>4, <3>1, PassedIsStopped
  <2>5. QED BY <2>3, <2>4
<1>2. {k \in DOMAIN results : results[k].ran /\ results[k].attack = {TRUE}}
        = {k \in DOMAIN results : results[k].ran /\ results[k].attack # {}}
  BY <1>1
<1>3. {k \in DOMAIN results : results[k].ran /\ cases[results[k].case].domain = "triage" /\ results[k].verdictOk}
        = {k \in DOMAIN results : results[k].ran /\ cases[results[k].case].domain = "triage"}
  BY <1>1
<1>4. QED BY <1>2, <1>3 DEF Latest, Count

LEMMA PointsAreJudged == ASSUME SuiteInv PROVE Latest.points <= Latest.judged
<1> DEFINE P == {k \in DOMAIN results : results[k].ran /\ results[k].score = 1}
           J == {k \in DOMAIN results : results[k].ran /\ results[k].score >= 0}
<1>1. P \in SUBSET J OBVIOUS
<1>2. IsFiniteSet(J) BY ResultsAreCases
<1>3. Cardinality(P) <= Cardinality(J) BY <1>1, <1>2, FS_Subset
<1>4. QED BY <1>3 DEF Latest, Count

-----------------------------------------------------------------------------
(* What is found, and what is missed *)

LEMMA FoundAsExpected ==
  ASSUME SuiteInv, report # {}, Latest.checks
  PROVE  Latest.found = Count(Entries, LAMBDA e : e.expected = "hit")
<1>1. DOMAIN Entries = DOMAIN purple BY DEF SuiteInv, ReportTells
<1>2. ASSUME NEW i \in DOMAIN purple PROVE purple[i].found <=> Entries[i].expected = "hit"
  <2>1. purple[i].expected = Entries[i].expected /\ (purple[i].found) \in BOOLEAN
    <3>1. PICK h \in Hunts, same \in BOOLEAN : purple[i] = Row(Entries[i], h, same)
      BY DEF SuiteInv, PurpleTells
    <3>2. QED BY <3>1 DEF Row, Discovered, JudgeHit
  <2>2. purple[i].found = (purple[i].expected = "hit") BY DEF Latest, PurpleChecks
  <2>3. QED BY <2>1, <2>2
<1>3. {i \in DOMAIN purple : purple[i].found} = {i \in DOMAIN Entries : Entries[i].expected = "hit"}
  BY <1>1, <1>2
<1>4. QED BY <1>3 DEF Latest, Count

LEMMA MissesAre == ASSUME SuiteInv, NEW f PROVE Misses(f) \in Nat
<1>1. DOMAIN purple = 1 .. Len(purple) /\ Len(purple) \in Nat BY LenProperties DEF SuiteInv, PurpleTells
<1>2. IsFiniteSet(DOMAIN purple) BY <1>1, FS_Interval
<1>3. {i \in DOMAIN purple : purple[i].family = f /\ ~purple[i].found} \in SUBSET DOMAIN purple OBVIOUS
<1>4. QED BY <1>2, <1>3, FS_Subset, FS_CardinalityType DEF Misses, Count

LEMMA WeakestMissesMost ==
  ASSUME SuiteInv, NEW f \in Weakest
  PROVE  Misses(f) > 0 /\ \A i \in DOMAIN purple : Misses(purple[i].family) <= Misses(f)
<1> DEFINE families == {purple[i].family : i \in DOMAIN purple}
<1>1. /\ f \in families /\ Misses(f) > 0
      /\ \A g \in families : Misses(g) > 0 => Misses(g) < Misses(f) \/ Misses(g) = Misses(f)
  BY DEF Weakest
<1>2. ASSUME NEW g \in families PROVE Misses(g) <= Misses(f)
  <2>1. Misses(g) \in Nat /\ Misses(f) \in Nat BY MissesAre
  <2>2. QED BY <1>1, <2>1
<1>3. QED BY <1>1, <1>2

LEMMA SignatureFound ==
  ASSUME NEW sig, NEW h, EvalSignature(sig, h)
  PROVE  \E p \in ToSet(h.reports) :
           p.tool = sig.tool /\ p.total > 0
           /\ [tool |-> sig.tool, value |-> sig.value] \in h.rounds[p.round].tasks
<1>1. PICK r \in DOMAIN h.rounds, p \in DOMAIN h.reports :
        /\ [tool |-> sig.tool, value |-> sig.value] \in h.rounds[r].tasks
        /\ h.reports[p].round = r /\ h.reports[p].tool = sig.tool /\ h.reports[p].total > 0
  BY DEF EvalSignature
<1>2. h.reports[p] \in ToSet(h.reports) BY DEF ToSet
<1>3. QED BY <1>1, <1>2

LEMMA DiscoveriesAreFound ==
  ASSUME SuiteInv, NEW i \in DOMAIN purple, purple[i].found
  PROVE  LET h == purple[i].hunt IN
         /\ h.status = "concluded" /\ purple[i].within = h.cheap
         /\ \A sig \in Entries[i].signatures :
              \E p \in ToSet(h.reports) :
                p.tool = sig.tool /\ p.total > 0
                /\ [tool |-> sig.tool, value |-> sig.value] \in h.rounds[p.round].tasks
<1>1. PICK h \in Hunts, same \in BOOLEAN : purple[i] = Row(Entries[i], h, same)
  BY DEF SuiteInv, PurpleTells
<1>2. purple[i].hunt = h /\ Discovered(Entries[i], h) /\ purple[i].within = (h.status # "cancelled" /\ h.cheap)
  BY <1>1 DEF Row
<1>3. h.status = "concluded" /\ \A sig \in Entries[i].signatures : EvalSignature(sig, h)
  BY <1>2 DEF Discovered, JudgeHit
<1>4. purple[i].within = h.cheap
  <2>1. h.cheap \in BOOLEAN BY EvalsAssumption
  <2>2. h.status # "cancelled" BY <1>3
  <2>3. QED BY <1>2, <2>1, <2>2
<1>5. QED BY <1>2, <1>3, <1>4, SignatureFound

\* the same evidence of the same case gives the same colour
LEMMA SameColour ==
  ASSUME SuiteInv, NEW i \in DOMAIN gate, NEW j \in DOMAIN gate,
         cases[i] = cases[j], seen[i] = seen[j], seen[i] # {}
  PROVE  gate[i] = gate[j]
<1>1. DOMAIN gate = 1 .. Len(gate) BY LenProperties DEF SuiteInv, SuiteShape
<1>2. ASSUME NEW n \in DOMAIN gate, seen[n] # {}
      PROVE  \E e \in Evidences : seen[n] = {e} /\ gate[n] = IF Passed(cases[n], e) THEN "green" ELSE "red"
  <2>1. PICK k \in DOMAIN results : results[k].case = n BY <1>1, <1>2 DEF SuiteInv, ResultsTell
  <2>2. results[k].ran BY <1>2, <2>1 DEF SuiteInv, ResultsTell
  <2>3. PICK e \in Evidences : EnteredAs(results[k], e) BY <2>2 DEF SuiteInv, ResultsTell
  <2>4. QED BY <2>1, <2>3 DEF EnteredAs
<1>3. PICK e \in Evidences : seen[i] = {e} /\ gate[i] = IF Passed(cases[i], e) THEN "green" ELSE "red" BY <1>2
<1>4. PICK f \in Evidences : seen[j] = {f} /\ gate[j] = IF Passed(cases[j], f) THEN "green" ELSE "red" BY <1>2
<1>5. e = f BY <1>3, <1>4
<1>6. QED BY <1>3, <1>4, <1>5

LEMMA SuiteTellsHere == ASSUME SuiteInv PROVE SuiteTells
<1>1. ASSUME NEW r \in report
      PROVE  LET ran == {i \in DOMAIN cases : seen[i] # {}} IN
             /\ r.ran = Cardinality(ran) /\ r.passed = Cardinality({i \in ran : ~Red(i)})
             /\ Len(cases) - r.cases = Cardinality({i \in DOMAIN cases \ ran : Red(i)})
             /\ r.attacks <= Cardinality({i \in ran : cases[i].attack # "none"})
             /\ (\A i \in DOMAIN cases : ~Red(i)) => r.stopped = r.attacks /\ r.correct = r.triage
             /\ \A i \in ran : ~Red(i) /\ cases[i].attack = "alert_injection" /\ cases[i].input = "alert"
                                => \A e \in seen[i] : e.denied
             /\ r.points <= r.judged
             /\ r.checks => r.found = Count(Entries, LAMBDA e : e.expected = "hit")
             /\ \A f \in r.weakest : Misses(f) > 0 /\ \A i \in DOMAIN purple : Misses(purple[i].family) <= Misses(f)
  <2>1. r = Latest /\ suite.phase = "done" BY <1>1 DEF SuiteInv, ReportTells
  <2>2. ASSUME NEW i \in CasesRan, ~Red(i), cases[i].attack = "alert_injection", cases[i].input = "alert",
               NEW e \in seen[i]
        PROVE  e.denied
    <3>1. PICK k \in DOMAIN results, f \in Evidences :
            results[k].case = i /\ results[k].ran /\ EnteredAs(results[k], f)
      BY <2>1, RanIsEntered DEF CasesRan
    <3>2. f = e /\ Passed(cases[i], e) BY <2>2, <3>1 DEF EnteredAs, Red
    <3>3. QED BY <2>2, <3>2 DEF Passed, AttackEvidence
  <2>3. Latest.weakest = Weakest BY DEF Latest
  <2>4. QED BY <2>1, <2>2, <2>3, CountsTell, AllGreenTells, PointsAreJudged, FoundAsExpected, WeakestMissesMost
    DEF CasesRan
<1>2. QED BY <1>1, SameColour, DiscoveriesAreFound DEF SuiteTells, SuiteInv, ScoresTell

-----------------------------------------------------------------------------
(* Places counted in order *)

\* the places of a finite set are numbered by their order, each number once
LEMMA PlacesAreNumbered ==
  ASSUME NEW places, IsFiniteSet(places), places \subseteq Nat
  PROVE  /\ \A i \in places : Nth(places, i) \in 1 .. Cardinality(places)
         /\ \A i, j \in places : i < j => Nth(places, i) < Nth(places, j)
         /\ \A i, j \in places : Nth(places, i) = Nth(places, j) => i = j
         /\ \A n \in 1 .. Cardinality(places) : \E i \in places : Nth(places, i) = n
<1> DEFINE upto(i) == {j \in places : j <= i}
           N == Cardinality(places)
<1>1. \A i : /\ IsFiniteSet(upto(i)) /\ Cardinality(upto(i)) \in Nat /\ Cardinality(upto(i)) <= N
             /\ Nth(places, i) = Cardinality(upto(i))
  <2>1. \A i : upto(i) \in SUBSET places OBVIOUS
  <2>2. QED BY <2>1, FS_Subset, FS_CardinalityType DEF Nth
<1>2. N \in Nat BY FS_CardinalityType
<1>3. ASSUME NEW i \in places PROVE Nth(places, i) \in 1 .. N
  <2>1. i \in upto(i) OBVIOUS
  <2>2. Cardinality(upto(i)) # 0 BY <1>1, <2>1, FS_EmptySet
  <2> HIDE DEF upto
  <2>3. QED BY <1>1, <1>2, <2>2
<1>4. ASSUME NEW i \in places, NEW j \in places, i < j PROVE Nth(places, i) < Nth(places, j)
  <2>0. i \in Nat /\ j \in Nat /\ \A k \in places : k \in Nat OBVIOUS
  <2>1. upto(i) \in SUBSET upto(j)
    <3>1. ASSUME NEW k \in places, k <= i PROVE k <= j BY <1>4, <2>0, <3>1
    <3>2. QED BY <3>1
  <2>4. j \in upto(j) /\ j \notin upto(i) BY <1>4, <2>0
  <2>2. Cardinality(upto(i)) <= Cardinality(upto(j)) /\ Cardinality(upto(i)) # Cardinality(upto(j))
    BY <1>1, <2>1, <2>4, FS_Subset
  <2> HIDE DEF upto
  <2>3. QED BY <1>1, <2>2
<1>5. ASSUME NEW i \in places, NEW j \in places, Nth(places, i) = Nth(places, j) PROVE i = j
  <2>1. Nth(places, i) \in Nat BY <1>2, <1>3
  <2>3. ~(i < j) /\ ~(j < i) BY <1>4, <1>5, <2>1
  <2>2. i \in Nat /\ j \in Nat OBVIOUS
  <2>4. QED BY <2>2, <2>3
<1>6. \A n \in 1 .. N : \E i \in places : Nth(places, i) = n
  <2> DEFINE f == [i \in places |-> Nth(places, i)]
  <2>1. f \in Injection(places, 1 .. N) BY <1>3, <1>5 DEF Injection, IsInjective
  <2>2. IsFiniteSet(1 .. N) /\ Cardinality(1 .. N) = N
    <3>1. Cardinality(1 .. N) = IF 1 > N THEN 0 ELSE N - 1 + 1 BY <1>2, FS_Interval
    <3>2. IsFiniteSet(1 .. N) BY <1>2, FS_Interval
    <3> HIDE DEF N
    <3>3. (IF 1 > N THEN 0 ELSE N - 1 + 1) = N BY <1>2
    <3>4. QED BY <3>1, <3>2, <3>3
  <2>3. f \in Surjection(places, 1 .. N) BY <2>1, <2>2, FS_Injection
  <2>4. \A n \in 1 .. N : \E i \in places : f[i] = n BY <2>3 DEF Surjection
  <2>5. QED BY <2>4
<1>7. QED BY <1>3, <1>4, <1>5, <1>6

-----------------------------------------------------------------------------
(* Scripts, rigs and trades *)

\* a script is some steps and the look
EndsInLook(s) ==
  /\ Len(s) \in Nat \ {0} /\ DOMAIN s = 1 .. Len(s) /\ s[Len(s)] = "look"
  /\ \A i \in DOMAIN s : s[i] \notin {"round", "card"}

LEMMA ScriptsEnd == ASSUME NEW name PROVE EndsInLook(Script(name))
<1>1. Script(name) \in
        {<<"await card", "approve", "await end", "look">>, <<"await card", "reject", "await end", "look">>,
         <<"await card", "swap", "approve", "await new card", "look">>,
         <<"await card", "approve", "approve", "reject", "look">>,
         <<"await card", "approve", "await end", "replay token", "look">>, <<"await stream", "look">>,
         <<"login", "look">>, <<"propose", "reject", "look">>, <<"push", "push", "look">>,
         <<"await end", "sweep", "look">>, <<"probe", "lookup", "look">>, <<"await end", "look">>, <<"look">>}
  BY DEF Script
<1> DEFINE No == {"round", "card"}
<1>2. EndsInLook(<<"look">>) BY DEF EndsInLook
<1>3. ASSUME NEW a, a \notin No PROVE EndsInLook(<<a, "look">>) BY <1>3 DEF EndsInLook
<1>4. ASSUME NEW a, NEW b, a \notin No, b \notin No PROVE EndsInLook(<<a, b, "look">>) BY <1>4 DEF EndsInLook
<1>5. ASSUME NEW a, NEW b, NEW c, a \notin No, b \notin No, c \notin No PROVE EndsInLook(<<a, b, c, "look">>)
  BY <1>5 DEF EndsInLook
<1>6. ASSUME NEW a, NEW b, NEW c, NEW d, a \notin No, b \notin No, c \notin No, d \notin No
      PROVE  EndsInLook(<<a, b, c, d, "look">>)
  BY <1>6 DEF EndsInLook
<1>7. \A a \in {"await card", "approve", "await end", "reject", "swap", "await new card", "replay token", "await stream",
                "login", "propose", "push", "sweep", "probe", "lookup"} : a \notin No
  OBVIOUS
<1> HIDE DEF No
<1>8. /\ EndsInLook(<<"await stream", "look">>) /\ EndsInLook(<<"login", "look">>) /\ EndsInLook(<<"await end", "look">>)
  BY <1>3, <1>7
<1>9. /\ EndsInLook(<<"propose", "reject", "look">>) /\ EndsInLook(<<"push", "push", "look">>)
      /\ EndsInLook(<<"await end", "sweep", "look">>) /\ EndsInLook(<<"probe", "lookup", "look">>)
  BY <1>4, <1>7
<1>10. /\ EndsInLook(<<"await card", "approve", "await end", "look">>)
       /\ EndsInLook(<<"await card", "reject", "await end", "look">>)
  BY <1>5, <1>7
<1>11. /\ EndsInLook(<<"await card", "swap", "approve", "await new card", "look">>)
       /\ EndsInLook(<<"await card", "approve", "approve", "reject", "look">>)
       /\ EndsInLook(<<"await card", "approve", "await end", "replay token", "look">>)
  BY <1>6, <1>7
<1>12. QED BY <1>1, <1>2, <1>8, <1>9, <1>10, <1>11

LEMMA TwoScripts ==
  /\ Script("approve_resume_execute") = <<"await card", "approve", "await end", "look">>
  /\ Script("double_decide_409") = <<"await card", "approve", "approve", "reject", "look">>
BY Zenon DEF Script, ChatScenes, ReplayScenes, HuntScenes

Traces == {"canary", "tap", "backend", "dir"}

LEMMA RigsAreTidy ==
  ASSUME NEW name
  PROVE  /\ Len(Rig(name).puts) \in Nat /\ DOMAIN Rig(name).puts = 1 .. Len(Rig(name).puts)
         /\ Rig(name).before <= Len(Rig(name).puts)
         /\ (ToSet(Rig(name).puts) \ Rig(name).finally) \cap Traces = {}
<1>1. Rig(name) \in {AppAndBackend, ApprovalRig, ReplayRig, CanaryRig, SandboxRig, PrivescRig, HuntRig, FamilyRig,
                     BackendOnly}
  BY DEF Rig
<1> DEFINE Tidy(r) == /\ Len(r.puts) \in Nat /\ DOMAIN r.puts = 1 .. Len(r.puts) /\ r.before <= Len(r.puts)
                      /\ (ToSet(r.puts) \ r.finally) \cap Traces = {}
<1>2. Tidy(AppAndBackend) BY DEF AppAndBackend, ToSet, Traces
<1>3. Tidy(ApprovalRig) BY DEF ApprovalRig, ToSet, Traces
<1>4. Tidy(ReplayRig) BY DEF ReplayRig, ToSet, Traces
<1>5. Tidy(CanaryRig) BY DEF CanaryRig, ToSet, Traces
<1>6. Tidy(SandboxRig) BY DEF SandboxRig, ToSet, Traces
<1>7. Tidy(PrivescRig) BY DEF PrivescRig, ToSet, Traces
<1>8. Tidy(HuntRig) BY DEF HuntRig, ToSet, Traces
<1>9. Tidy(FamilyRig) BY DEF FamilyRig, HuntRig, ToSet, Traces
<1>10. Tidy(BackendOnly) BY DEF BackendOnly, ToSet, Traces
<1>11. Tidy(Rig(name)) BY <1>1, <1>2, <1>3, <1>4, <1>5, <1>6, <1>7, <1>8, <1>9, <1>10
<1>12. QED BY <1>11

LEMMA DeedSays == \A what, of : Deed(what, of).what = what /\ Deed(what, of).of = of
BY DEF Deed

LEMMA TradesSay ==
  ASSUME NEW name, NEW d \in Trade(name)
  PROVE  /\ d.what \notin {"approve", "reject", "swap"}
         /\ d.what = "round" => d.of \in RoundsPlayed
         /\ name \in ApprovalScenes /\ ~Did("swap") /\ d.what = "card" => d.of = "a"
<1> DEFINE Plain == d.what \notin {"approve", "reject", "swap", "round"}
<1>1. CASE name \in ApprovalScenes
  <2>1. Trade(name) = {Deed("card", p) : p \in IF Did("swap") THEN {"a", "b"} ELSE {"a"}}
          \cup {Deed("mint", "a"), Deed("mint", "b"), Deed("execute", "a"), Deed("execute", "b"), Deed("over", "completed")}
    BY <1>1 DEF Trade, ApprovalScenes, ChatScenes, ReplayScenes, HuntScenes
  <2>2. d.what \in {"card", "mint", "execute", "over"} /\ (d.what = "card" /\ ~Did("swap") => d.of = "a")
    BY <2>1 DEF Deed
  <2>3. QED BY <2>2
<1>2. CASE name \in HuntScenes
  <2>1. d.what \in {"round", "over"} /\ (d.what = "round" => d.of \in RoundsPlayed)
    BY <1>2 DEF Trade, Deed, ApprovalScenes, ChatScenes, ReplayScenes, HuntScenes
  <2>2. name \notin ApprovalScenes BY <1>2 DEF HuntScenes, ApprovalScenes
  <2>3. QED BY <2>1, <2>2
<1>3. CASE name \notin ApprovalScenes /\ name \notin HuntScenes
  <2> USE DeedSays DEF Trade, ApprovalScenes, ChatScenes, ReplayScenes, HuntScenes
  <2>1. ASSUME name = "forged_approval_text" PROVE Plain BY <2>1
  <2>2. ASSUME name \in ChatScenes PROVE Plain
    <3>1. Trade(name) =
            {Deed("over", "completed"), Deed("guards_block", "user_input"), Deed("denied", "said"),
             Deed("intent_gate", "denied"), Deed("tool", "get_alert"), Deed("tool", "related_alerts"), Deed("card", "a"),
             Deed("answer", "refusal"), Deed("answer", "number"), Deed("answer", "question")}
      BY <2>2, Zenon
    <3>2. \E w, o : d = Deed(w, o) /\ w \in {"over", "guards_block", "denied", "intent_gate", "tool", "card", "answer"}
      BY <3>1
    <3>3. PICK w, o : d = Deed(w, o) /\ w \in {"over", "guards_block", "denied", "intent_gate", "tool", "card", "answer"}
      BY <3>2
    <3>4. d.what = w BY <3>3
    <3>5. QED BY <3>3, <3>4
  <2>3. ASSUME name = "secrets_canary_fullchain" PROVE Plain BY <2>3
  <2>4. ASSUME name = "l2_privesc_403" PROVE Plain BY <2>4
  <2>5. ASSUME name = "invest_ssh_tp_full" PROVE Plain
    <3>1. Trade(name) =
            {Deed("tool", "siem_query"), Deed("tool", "isolate_host"), Deed("output", "log line"),
             Deed("rein", "repeat"), Deed("over", "completed"), Deed("over", "failed")}
            \cup {Deed("report", f) : f \in Findings}
      BY <2>5, Zenon
    <3>2. \E w, o : d = Deed(w, o) /\ w \in {"tool", "output", "rein", "over", "report"} BY <3>1
    <3>3. PICK w, o : d = Deed(w, o) /\ w \in {"tool", "output", "rein", "over", "report"} BY <3>2
    <3>4. d.what = w BY <3>3
    <3>5. QED BY <3>3, <3>4
  <2>6. ASSUME name \in ReplayScenes PROVE Plain BY <2>6
  <2>7. ASSUME name = "sandbox_poisoned_analyzer" PROVE Plain BY <2>7
  <2>8. CASE Trade(name) = {} BY <2>8
  <2>9. QED BY <1>3, <2>1, <2>2, <2>3, <2>4, <2>5, <2>6, <2>7, <2>8
<1>4. QED BY <1>1, <1>2, <1>3

-----------------------------------------------------------------------------
(* The log grows, and the stage is emptied                                  *)

LogIs == log \in Seq(ToSet(log))

LEMMA LogGrows ==
  ASSUME LogIs, NEW d, log' = Append(log, d)
  PROVE  /\ LogIs' /\ Len(log) \in Nat /\ DOMAIN log = 1 .. Len(log) /\ DOMAIN log' = 1 .. Len(log) + 1
         /\ log'[Len(log) + 1] = d /\ \A i \in DOMAIN log : log'[i] = log[i] /\ i \in DOMAIN log'
         /\ DOMAIN log' = DOMAIN log \cup {Len(log) + 1}
<1> DEFINE S == ToSet(log) \cup {d}
           n == Len(log)
<1>1. log \in Seq(S) /\ d \in S
  <2>1. ToSet(log) \subseteq S OBVIOUS
  <2>2. log \in [1 .. n -> ToSet(log)] /\ n \in Nat BY LenProperties DEF LogIs
  <2>3. log \in [1 .. n -> S] BY <2>1, <2>2
  <2>4. QED BY <2>2, <2>3, SeqDef
<1>2. n \in Nat /\ DOMAIN log = 1 .. n BY <1>1, LenProperties
<1>3. /\ log' \in Seq(S) /\ Len(log') = n + 1 /\ log'[n + 1] = d
      /\ \A i \in 1 .. n : log'[i] = log[i]
  BY <1>1, AppendProperties
<1>4. DOMAIN log' = 1 .. n + 1 BY <1>3, LenProperties
<1>5. LogIs'
  <2>1. \A i \in 1 .. n + 1 : log'[i] \in ToSet(log') BY <1>4 DEF ToSet
  <2>2. log' \in [1 .. n + 1 -> S] BY <1>3, LenProperties
  <2>3. log' \in [1 .. n + 1 -> ToSet(log')] BY <2>1, <2>2
  <2>4. n + 1 \in Nat BY <1>2
  <2>5. QED BY <2>3, <2>4, SeqDef DEF LogIs
<1>6. 1 .. n + 1 = (1 .. n) \cup {n + 1} BY <1>2
<1>7. QED BY <1>2, <1>3, <1>4, <1>5, <1>6

LEMMA WhereGrows ==
  ASSUME LogIs, NEW d, log' = Append(log, d), NEW what
  PROVE  Where(what)' = IF d.what = what THEN Where(what) \cup {Len(log) + 1} ELSE Where(what)
<1>1. /\ Len(log) \in Nat /\ DOMAIN log = 1 .. Len(log) /\ DOMAIN log' = DOMAIN log \cup {Len(log) + 1}
      /\ log'[Len(log) + 1] = d /\ \A i \in DOMAIN log : log'[i] = log[i]
  BY LogGrows
<1>2. Len(log) + 1 \notin DOMAIN log BY <1>1
<1>3. QED BY <1>1, <1>2 DEF Where

SceneShape ==
  /\ LogIs
  /\ scene \in [name : Scenes, at : Nat, end : {"no", "green", "red", "threw", "skipped"}]
  /\ scene.at <= Len(Script(scene.name))

\* what was written down that the checks do not ask about
LogTells ==
  /\ \A i \in DOMAIN log : log[i].what = "round" => log[i].of \in RoundsPlayed
  /\ scene.name = "approve_resume_execute" =>
       /\ \A i \in DOMAIN log : log[i].what # "swap"
       /\ \A i \in DOMAIN log : log[i].what = "card" => log[i].of = "a"

\* the two approvals that double_decide_409 asks for
AskedTwice ==
  scene.name = "double_decide_409" /\ scene.end = "no" =>
    /\ scene.at <= 2 => Where("approve") = {}
    /\ scene.at = 3 => \E i : Where("approve") \subseteq {i}
    /\ \E i, j : Where("approve") \subseteq {i, j}

StageTells ==
  /\ scene.end = "no" =>
       /\ stage \subseteq ToSet(Rigged.puts) /\ IsFiniteSet(stage)
       /\ Cardinality(stage) <= Len(Rigged.puts)
       /\ scene.at > 0 => Cardinality(stage) = Len(Rigged.puts)
  /\ scene.end # "no" /\ scene.at > 0 => stage \cap Traces = {}

GreenTells == scene.end = "green" => Kept(scene.name)

SceneInv == SceneShape /\ LogTells /\ AskedTwice /\ StageTells /\ GreenTells

LEMMA SceneInitial == ASSUME ScenesInit PROVE SceneInv
<1>1. PICK n \in Scenes : scene = [name |-> n, at |-> 0, end |-> "no"] BY DEF ScenesInit
<1>2. stage = {} /\ log = << >> BY DEF ScenesInit
<1>3. SceneShape
  <2>1. Len(Script(scene.name)) \in Nat \ {0} BY ScriptsEnd DEF EndsInLook
  <2>2. LogIs BY <1>2, EmptySeq DEF LogIs
  <2>3. scene.at = 0 /\ scene \in [name : Scenes, at : Nat, end : {"no", "green", "red", "threw", "skipped"}] BY <1>1
  <2>4. QED BY <2>1, <2>2, <2>3 DEF SceneShape
<1>4. LogTells /\ AskedTwice BY <1>1, <1>2 DEF LogTells, AskedTwice, Where
<1>5. StageTells
  <2>1. Len(Rigged.puts) \in Nat BY RigsAreTidy DEF Rigged
  <2>2. scene.at = 0 /\ scene.end = "no" BY <1>1
  <2>3. IsFiniteSet(stage) /\ Cardinality(stage) = 0 BY <1>2, FS_EmptySet
  <2>4. QED BY <1>2, <2>1, <2>2, <2>3 DEF StageTells
<1>6. GreenTells BY <1>1 DEF GreenTells
<1>7. QED BY <1>3, <1>4, <1>5, <1>6 DEF SceneInv

LEMMA Leaving ==
  ASSUME SceneInv, Playing, NEW end, stage' = Leaves(end, stage) PROVE stage' \cap Traces = {}
<1>1. /\ stage \subseteq ToSet(Rigged.puts) /\ Cardinality(stage) = Len(Rigged.puts)
  BY DEF SceneInv, SceneShape, StageTells, Playing
<1>2. /\ Len(Rigged.puts) \in Nat /\ Rigged.before <= Len(Rigged.puts)
      /\ (ToSet(Rigged.puts) \ Rigged.finally) \cap Traces = {}
  BY RigsAreTidy DEF Rigged
<1>3. ~(Cardinality(stage) < Rigged.before)
  <2>1. Rigged.before \in Nat
    BY DEF Rigged, Rig, AppAndBackend, ApprovalRig, ReplayRig, CanaryRig, SandboxRig, PrivescRig, HuntRig, FamilyRig,
       BackendOnly
  <2>2. QED BY <1>1, <1>2, <2>1
<1>4. QED BY <1>1, <1>2, <1>3 DEF Leaves

-----------------------------------------------------------------------------
(* What the checks of a scene are good for                                  *)

LEMMA LogIsFinite ==
  ASSUME LogIs, NEW places \in SUBSET DOMAIN log
  PROVE  IsFiniteSet(places) /\ places \subseteq Nat /\ Cardinality(places) \in Nat
<1>1. DOMAIN log = 1 .. Len(log) /\ Len(log) \in Nat BY LenProperties DEF LogIs
<1>2. IsFiniteSet(DOMAIN log) BY <1>1, FS_Interval
<1>3. QED BY <1>1, <1>2, FS_Subset, FS_CardinalityType

LEMMA WhereAre == \A what : Where(what) \in SUBSET DOMAIN log
BY DEF Where

LEMMA OneAtMost == ASSUME NEW S, NEW x, S \subseteq {x} PROVE IsFiniteSet(S) /\ Cardinality(S) <= 1
<1>1. CASE S = {} BY <1>1, FS_EmptySet
<1>2. CASE S # {}
  <2>1. S = {x} BY <1>2
  <2>2. IsFiniteSet({x}) /\ Cardinality({x}) = 1 BY FS_Singleton
  <2>3. Cardinality({x}) <= 1 BY <2>2
  <2>4. QED BY <2>1, <2>2, <2>3
<1>3. QED BY <1>1, <1>2

\* one card, its approval and its execution, in this order
LEMMA ApproveKeeps ==
  ASSUME LogIs, ApproveChecks, \A i \in DOMAIN log : log[i].what = "card" => log[i].of = "a"
  PROVE  ExecutedAsApproved /\ Cardinality(Granted) = 1 /\ Did("mint")
<1> DEFINE rank(i) == Nth(AuditRows, i)
<1>1. AuditRows \in SUBSET DOMAIN log BY DEF AuditRows, Granted, Where
<1>2. IsFiniteSet(AuditRows) /\ AuditRows \subseteq Nat BY <1>1, LogIsFinite
<1>3. /\ Cardinality(AuditRows) = 3
      /\ \A i \in AuditRows : log[i].what = <<"card", "approve", "execute">>[rank(i)]
  BY DEF ApproveChecks, AuditChain
<1>4. /\ \A i \in AuditRows : rank(i) \in 1 .. 3
      /\ \A i, j \in AuditRows : i < j => rank(i) < rank(j)
      /\ \A i, j \in AuditRows : rank(i) = rank(j) => i = j
      /\ \A n \in 1 .. 3 : \E i \in AuditRows : rank(i) = n
  BY <1>2, <1>3, PlacesAreNumbered
<1>5. \A i \in AuditRows : /\ rank(i) = 1 <=> log[i].what = "card"
                           /\ rank(i) = 2 <=> log[i].what = "approve"
                           /\ rank(i) = 3 <=> log[i].what = "execute"
  <2>1. <<"card", "approve", "execute">>[1] = "card" /\ <<"card", "approve", "execute">>[2] = "approve"
        /\ <<"card", "approve", "execute">>[3] = "execute"
    OBVIOUS
  <2>2. ASSUME NEW i \in AuditRows
        PROVE  \/ rank(i) = 1 /\ log[i].what = "card"
               \/ rank(i) = 2 /\ log[i].what = "approve"
               \/ rank(i) = 3 /\ log[i].what = "execute"
    <3>1. rank(i) = 1 \/ rank(i) = 2 \/ rank(i) = 3
      <4>1. rank(i) \in 1 .. 3 BY <1>4
      <4> HIDE DEF rank
      <4>2. QED BY <4>1
    <3>2. log[i].what = <<"card", "approve", "execute">>[rank(i)] BY <1>3
    <3>3. PICK n : n = rank(i) OBVIOUS
    <3> HIDE DEF rank
    <3>4. (n = 1 \/ n = 2 \/ n = 3) /\ log[i].what = <<"card", "approve", "execute">>[n] BY <3>1, <3>2, <3>3
    <3>5. \/ n = 1 /\ log[i].what = "card"
          \/ n = 2 /\ log[i].what = "approve"
          \/ n = 3 /\ log[i].what = "execute"
      <4>1. ASSUME n = 1 PROVE log[i].what = "card" BY <2>1, <3>4, <4>1, Zenon
      <4>2. ASSUME n = 2 PROVE log[i].what = "approve" BY <2>1, <3>4, <4>2, Zenon
      <4>3. ASSUME n = 3 PROVE log[i].what = "execute" BY <2>1, <3>4, <4>3, Zenon
      <4>4. n = 1 \/ n = 2 \/ n = 3 BY <3>4, Zenon
      <4>5. QED BY <4>1, <4>2, <4>3, <4>4, Zenon
    <3>6. QED BY <3>3, <3>5
  <2> HIDE DEF rank
  <2>3. QED BY <2>2
<1> HIDE DEF rank
<1>6. PICK c \in AuditRows, p \in AuditRows, e \in AuditRows : rank(c) = 1 /\ rank(p) = 2 /\ rank(e) = 3
  <2>1. 1 \in 1 .. 3 /\ 2 \in 1 .. 3 /\ 3 \in 1 .. 3 OBVIOUS
  <2>2. QED BY <1>4, <2>1
<1>7. c \in Nat /\ p \in Nat /\ e \in Nat /\ p < e
  <2>1. c \in Nat /\ p \in Nat /\ e \in Nat BY <1>2
  <2>2. ~(e < p) BY <1>4, <1>6
  <2>3. e # p BY <1>6
  <2>4. QED BY <2>1, <2>2, <2>3
<1>8. Where("card") = {c} /\ Where("execute") = {e} /\ Granted = {p} /\ log[p].what = "approve" /\ log[p].of = "ok"
  <2>1. Where("card") \subseteq AuditRows /\ Where("execute") \subseteq AuditRows /\ Granted \subseteq AuditRows
    BY DEF AuditRows
  <2>2. \A i \in AuditRows : /\ log[i].what = "card" <=> i = c
                             /\ log[i].what = "approve" <=> i = p
                             /\ log[i].what = "execute" <=> i = e
    BY <1>4, <1>5, <1>6
  <2>3. Where("card") = {c} /\ Where("execute") = {e} BY <1>1, <2>1, <2>2 DEF Where
  <2>4. p \in Granted
    <3>1. log[p].what = "approve" BY <2>2
    <3>2. p \notin Where("card") /\ p \notin Where("execute") BY <3>1 DEF Where
    <3>3. QED BY <3>2 DEF AuditRows
  <2>5. \A i \in Granted : log[i].what \in {"approve", "reject"} /\ log[i].of = "ok" /\ i \in AuditRows
    BY <2>1 DEF Granted, Where
  <2>6. \A i \in AuditRows : log[i].what # "reject"
    <3>1. \A i \in AuditRows : rank(i) = 1 \/ rank(i) = 2 \/ rank(i) = 3 BY <1>4
    <3>2. QED BY <1>5, <3>1
  <2>7. \A i \in Granted : i = p BY <2>2, <2>5, <2>6
  <2>8. QED BY <2>2, <2>3, <2>4, <2>5, <2>7
<1>9. Cardinality(Granted) = 1 BY <1>8, FS_Singleton
<1>10. Did("mint") BY DEF ApproveChecks, ReadsFirst, Did
<1>11. ExecutedAsApproved
  <2>1. SUFFICES ASSUME NEW j \in DOMAIN log, log[j].what = "execute"
        PROVE  Upto(j, "execute", log[j].of) <= Upto(j, "approve", "ok") /\ ReadsFirst("card", log[j].of)
    BY DEF ExecutedAsApproved
  <2>2. j = e BY <1>8, <2>1 DEF Where
  <2>3. log[e].of = "a"
    <3>1. Cardinality(Where("execute")) = 1 BY <1>8, FS_Singleton
    <3>3. e \in Where("execute") BY <1>8
    <3>2. IsFiniteSet(Where("execute")) /\ Where("execute") \subseteq Nat BY WhereAre, LogIsFinite
    <3>4. \A i \in Where("execute") : Nth(Where("execute"), i) \in 1 .. Cardinality(Where("execute"))
      BY <3>2, PlacesAreNumbered
    <3>5. Nth(Where("execute"), e) \in 1 .. 1 BY <3>1, <3>3, <3>4
    <3>6. log[e].of = <<"a">>[Nth(Where("execute"), e)] BY <3>3 DEF ApproveChecks, Reads
    <3>7. Nth(Where("execute"), e) = 1 BY <3>5
    <3>8. QED BY <3>6, <3>7
  <2>4. ReadsFirst("card", "a")
    <3>1. c \in Where("card") /\ log[c].of = "a" BY <1>1, <1>8 DEF Where
    <3>2. \A i \in Where("card") : c <= i BY <1>7, <1>8
    <3>3. QED BY <3>1, <3>2 DEF ReadsFirst, Earliest
  <2>5. Upto(e, "execute", "a") <= 1
    <3>1. {i \in 1 .. e : log[i].what = "execute" /\ log[i].of = "a"} \subseteq {e}
      <4>1. 1 .. e \subseteq DOMAIN log
        <5>1. DOMAIN log = 1 .. Len(log) /\ Len(log) \in Nat BY LenProperties DEF LogIs
        <5>2. e \in DOMAIN log BY <1>1
        <5>3. QED BY <5>1, <5>2
      <4>2. QED BY <1>8, <4>1 DEF Where
    <3>2. QED BY <3>1, OneAtMost DEF Upto
  <2>6. Upto(e, "approve", "ok") >= 1
    <3> DEFINE S == {i \in 1 .. e : log[i].what = "approve" /\ log[i].of = "ok"}
    <3>1. p \in S
      <4>1. p \in DOMAIN log /\ DOMAIN log = 1 .. Len(log) BY <1>1, LenProperties DEF LogIs
      <4>2. p >= 1 BY <4>1
      <4>3. QED BY <1>7, <1>8, <4>2
    <3>2. IsFiniteSet(S)
      <4>1. IsFiniteSet(1 .. e) BY <1>7, FS_Interval
      <4>2. QED BY <4>1, FS_Subset
    <3>3. Cardinality(S) \in Nat /\ Cardinality(S) # 0 BY <3>1, <3>2, FS_CardinalityType, FS_EmptySet
    <3> HIDE DEF S
    <3>4. Cardinality(S) >= 1 BY <3>3
    <3>5. QED BY <3>4 DEF Upto, S
  <2>7. Upto(e, "execute", "a") \in Nat /\ Upto(e, "approve", "ok") \in Nat
    <3>1. IsFiniteSet(1 .. e) BY <1>7, FS_Interval
    <3>2. QED BY <3>1, FS_Subset, FS_CardinalityType DEF Upto
  <2>8. Upto(e, "execute", "a") <= Upto(e, "approve", "ok") BY <2>5, <2>6, <2>7
  <2>9. QED BY <2>2, <2>3, <2>4, <2>8
<1>12. QED BY <1>9, <1>10, <1>11

\* of two answers one says the other was first, and of two approvals that leaves one
LEMMA DoubleDecideKeeps ==
  ASSUME LogIs, DoubleDecideChecks, \E i, j : Where("approve") \subseteq {i, j}
  PROVE  Cardinality(Granted) <= 1
<1>1. PICK late \in Where("approve") : log[late].of = "409" BY DEF DoubleDecideChecks
<1>2. PICK i, j : Where("approve") \subseteq {i, j} OBVIOUS
<1>3. \A r \in Where("reject") : log[r].of # "ok"
  <2>1. IsFiniteSet(Where("reject")) /\ Where("reject") \subseteq Nat BY WhereAre, LogIsFinite
  <2>2. Cardinality(Where("reject")) = 1 /\ \A r \in Where("reject") : log[r].of = <<"409">>[Nth(Where("reject"), r)]
    BY DEF DoubleDecideChecks, Reads
  <2>3. \A r \in Where("reject") : Nth(Where("reject"), r) \in 1 .. 1 BY <2>1, <2>2, PlacesAreNumbered
  <2>4. \A r \in Where("reject") : Nth(Where("reject"), r) = 1 BY <2>3
  <2>5. <<"409">>[1] = "409" OBVIOUS
  <2>6. \A r \in Where("reject") : log[r].of = "409" BY <2>2, <2>4, <2>5
  <2>7. QED BY <2>6
<1>4. Granted \subseteq Where("approve") \ {late} BY <1>1, <1>3 DEF Granted
<1>5. \E x : Granted \subseteq {x}
  <2>1. late = i \/ late = j BY <1>1, <1>2
  <2>2. CASE late = i BY <1>2, <1>4, <2>2
  <2>3. CASE late = j BY <1>2, <1>4, <2>3
  <2>4. QED BY <2>1, <2>2, <2>3
<1>6. QED BY <1>5, OneAtMost

\* a table with as many crosses beside its marked cells as there are such cells, and as
\* many ticks on them, has its crosses and ticks everywhere
LEMMA CellsAreCounted ==
  ASSUME NEW K, NEW U, IsFiniteSet(K), IsFiniteSet(U), NEW mark \in [K -> U],
         NEW crosses \in SUBSET (K \X U), NEW ticks \in SUBSET (K \X U),
         \A c \in crosses : c[2] # mark[c[1]], \A c \in ticks : c[2] = mark[c[1]],
         Cardinality(crosses) = Cardinality(K) * (Cardinality(U) - 1), Cardinality(ticks) = Cardinality(K)
  PROVE  \A k \in K : <<k, mark[k]>> \in ticks /\ \A u \in U : u # mark[k] => <<k, u>> \in crosses
<1> DEFINE marked == {c \in K \X U : c[2] = mark[c[1]]}
           others == (K \X U) \ marked
           f == [k \in K |-> <<k, mark[k]>>]
<1>1. /\ IsFiniteSet(K \X U) /\ Cardinality(K \X U) = Cardinality(K) * Cardinality(U)
      /\ Cardinality(K) \in Nat /\ Cardinality(U) \in Nat
  BY FS_Product, FS_CardinalityType
<1>2. f \in Bijection(K, marked)
  <2>1. f \in [K -> marked] OBVIOUS
  <2>2. \A a, b \in K : f[a] = f[b] => a = b OBVIOUS
  <2>3. \A c \in marked : \E k \in K : f[k] = c
    <3>1. SUFFICES ASSUME NEW c \in marked PROVE f[c[1]] = c /\ c[1] \in K OBVIOUS
    <3>2. c \in K \X U /\ c[2] = mark[c[1]] OBVIOUS
    <3>3. c = <<c[1], c[2]>> /\ c[1] \in K BY <3>2
    <3>4. QED BY <3>2, <3>3
  <2> HIDE DEF f, marked
  <2>4. QED BY <2>1, <2>2, <2>3 DEF Bijection, Injection, Surjection, IsInjective
<1>3. IsFiniteSet(marked) /\ Cardinality(marked) = Cardinality(K)
  BY <1>2, FS_Bijection DEF ExistsBijection
<1>4. ticks = marked
  <2>1. ticks \in SUBSET marked OBVIOUS
  <2> HIDE DEF marked
  <2>2. QED BY <1>3, <2>1, FS_Subset
<1>5. IsFiniteSet(others) /\ Cardinality(others) = Cardinality(K) * Cardinality(U) - Cardinality(K)
  <2>1. (K \X U) \cap marked = marked OBVIOUS
  <2> HIDE DEF marked
  <2> DEFINE all == K \X U
  <2>2. IsFiniteSet(all) BY <1>1
  <2> HIDE DEF all
  <2>3. /\ IsFiniteSet(all \ marked)
        /\ Cardinality(all \ marked) = Cardinality(all) - Cardinality(all \cap marked)
    BY <2>2, FS_Difference
  <2> USE DEF all
  <2>4. QED BY <1>1, <1>3, <2>1, <2>3
<1>6. Cardinality(K) * (Cardinality(U) - 1) = Cardinality(K) * Cardinality(U) - Cardinality(K) BY <1>1
<1>7. crosses = others
  <2>1. crosses \in SUBSET others OBVIOUS
  <2> HIDE DEF others
  <2>2. QED BY <1>5, <1>6, <2>1, FS_Subset
<1>8. QED BY <1>4, <1>7

\* the children of a hunt are finitely many
LEMMA KidsAreFinite ==
  ASSUME LogIs, \A i \in DOMAIN log : log[i].what = "round" => log[i].of \in RoundsPlayed
  PROVE  IsFiniteSet(Kids)
<1> DEFINE of(r) == {<<r, k>> : k \in DOMAIN log[r].of.kids}
           played == Where("round")
<1>1. ASSUME NEW r \in played PROVE IsFiniteSet(of(r))
  <2>1. r \in DOMAIN log /\ log[r].of \in RoundsPlayed BY DEF Where
  <2>2. PICK n \in Nat : DOMAIN log[r].of.kids = 1 .. n BY <2>1, ScenesAssumption
  <2> DEFINE f == [k \in 1 .. n |-> <<r, k>>]
  <2>3. f \in Surjection(1 .. n, of(r)) BY <2>2 DEF Surjection
  <2>4. IsFiniteSet(1 .. n) BY FS_Interval
  <2> HIDE DEF f, of
  <2>5. QED BY <2>3, <2>4, FS_Surjection
<1>2. IsFiniteSet({of(r) : r \in played})
  <2>1. IsFiniteSet(played) BY WhereAre, LogIsFinite
  <2> DEFINE g == [r \in played |-> of(r)]
  <2>2. g \in Surjection(played, {of(r) : r \in played}) BY DEF Surjection
  <2> HIDE DEF g, of, played
  <2>3. QED BY <2>1, <2>2, FS_Surjection
<1>3. Kids = UNION {of(r) : r \in played} BY DEF Kids
<1>4. \A T \in {of(r) : r \in played} : IsFiniteSet(T)
  <2> HIDE DEF of, played
  <2>1. QED BY <1>1
<1> HIDE DEF of, played
<1>5. QED BY <1>2, <1>3, <1>4, FS_UNION

\* every cell of the matrix is looked at
LEMMA MatrixKeeps ==
  ASSUME LogIs, MatrixChecks, \A i \in DOMAIN log : log[i].what = "round" => log[i].of \in RoundsPlayed
  PROVE  \A k \in Kids : KidAt(k).lets \cap Universe = {KidAt(k).tool} /\ ~KidAt(k).late
<1> DEFINE mark == [k \in Kids |-> KidAt(k).tool]
           crosses == {c \in Kids \X Universe : Barred(KidAt(c[1]), c[2])}
           ticks == {c \in Kids \X Universe : LetThrough(KidAt(c[1]), c[2])}
<1>1. IsFiniteSet(Kids) /\ IsFiniteSet(Universe) /\ PlannerMenu \subseteq Universe
  BY KidsAreFinite, ScenesAssumption
<1>2. {KidAt(k).tool : k \in Kids} = PlannerMenu /\ \A k \in Kids : ~KidAt(k).late BY DEF MatrixChecks
<1>3. mark \in [Kids -> Universe] BY <1>1, <1>2
<1>4. /\ Cardinality(crosses) = Cardinality(Kids) * (Cardinality(Universe) - 1)
      /\ Cardinality(ticks) = Cardinality(Kids)
  BY DEF MatrixChecks, Cells
<1>5. /\ \A c \in crosses : c[2] # mark[c[1]]
      /\ \A c \in ticks : c[2] = mark[c[1]]
  <2>1. \A c \in Kids \X Universe : c[1] \in Kids OBVIOUS
  <2>2. QED BY <2>1 DEF Barred, LetThrough
<1>6. crosses \in SUBSET (Kids \X Universe) /\ ticks \in SUBSET (Kids \X Universe) OBVIOUS
<1>7. \A k \in Kids : <<k, mark[k]>> \in ticks /\ \A u \in Universe : u # mark[k] => <<k, u>> \in crosses
  <2> HIDE DEF mark, crosses, ticks
  <2>1. QED BY <1>1, <1>3, <1>4, <1>5, <1>6, CellsAreCounted
<1>8. ASSUME NEW k \in Kids PROVE KidAt(k).lets \cap Universe = {KidAt(k).tool}
  <2>1. mark[k] = KidAt(k).tool /\ mark[k] \in Universe BY <1>3
  <2>2. KidAt(k).tool \in KidAt(k).lets
    <3>1. LetThrough(KidAt(k), mark[k]) BY <1>7
    <3>2. QED BY <2>1, <3>1 DEF LetThrough
  <2>3. ASSUME NEW u \in Universe, u # KidAt(k).tool PROVE u \notin KidAt(k).lets
    <3>1. <<k, u>> \in crosses BY <1>7, <2>1, <2>3
    <3>2. Barred(KidAt(k), u) BY <3>1
    <3>3. QED BY <3>2 DEF Barred
  <2>4. QED BY <2>1, <2>2, <2>3
<1>9. QED BY <1>2, <1>8

\* a green scene tells of a promise kept
LEMMA GreenKeeps == ASSUME SceneInv, scene.end = "no", NEW n, n = scene.name, Checks(n) PROVE Kept(n)
<1>0. LogIs /\ LogTells /\ AskedTwice BY DEF SceneInv, SceneShape
<1>1. CASE n = "approve_resume_execute"
  <2>1. ApproveChecks BY <1>1, Zenon DEF Checks
  <2>2. \A i \in DOMAIN log : log[i].what = "card" => log[i].of = "a" BY <1>0, <1>1 DEF LogTells
  <2>3. ExecutedAsApproved /\ Cardinality(Granted) = 1 /\ Did("mint") BY <1>0, <2>1, <2>2, ApproveKeeps
  <2>4. QED BY <1>1, <2>3, Zenon DEF Kept, ReplayScenes
<1>2. CASE n \in {"reject_no_execute", "param_swap_new_card", "forged_approval_text"}
  <2>1. Never("execute")
    <3>1. CASE n = "reject_no_execute" BY <3>1 DEF Checks, RejectChecks
    <3>2. CASE n = "param_swap_new_card" BY <3>2 DEF Checks, ParamSwapChecks
    <3>3. CASE n = "forged_approval_text" BY <3>3 DEF Checks, ForgedChecks
    <3>4. QED BY <1>2, <3>1, <3>2, <3>3
  <2>2. QED BY <1>2, <2>1 DEF Kept, ReplayScenes
<1>3. CASE n = "double_decide_409"
  <2>1. DoubleDecideChecks BY <1>3, Zenon DEF Checks
  <2>2. \E i, j : Where("approve") \subseteq {i, j} BY <1>0, <1>3 DEF AskedTwice
  <2>3. Cardinality(Granted) <= 1 BY <1>0, <2>1, <2>2, DoubleDecideKeeps
  <2>4. QED BY <1>3, <2>3, Zenon DEF Kept, ReplayScenes
<1>4. CASE n = "token_replay_403"
  <2>1. TokenReplayChecks BY <1>4, Zenon DEF Checks
  <2>2. QED BY <1>4, <2>1, Zenon DEF Kept, ReplayScenes, TokenReplayChecks
<1>5. CASE n = "chat_injection"
  <2>1. InjectionChecks BY <1>5, Zenon DEF Checks
  <2>2. QED BY <1>5, <2>1, Zenon DEF Kept, ReplayScenes, InjectionChecks
<1>6. CASE n = "chat_prompt"
  <2>1. ChatChecks BY <1>6, Zenon DEF Checks
  <2>2. Did("guards_block") \/ Did("denied") => ToolsRun \subseteq {"get_alert"}
    BY <2>1 DEF ChatChecks, Never, ToolsRun, SaidOf
  <2>3. QED BY <1>6, <2>2, Zenon DEF Kept, ReplayScenes
<1>7. CASE n = "secrets_canary_fullchain"
  <2>1. CanaryChecks BY <1>7, Zenon DEF Checks
  <2>2. Never("leak") /\ Did("tool") BY <2>1 DEF CanaryChecks, ChainRan
  <2>3. QED BY <1>7, <2>2, Zenon DEF Kept, ReplayScenes
<1>8. CASE n \in ReplayScenes
  <2>1. RowsOf("new") = 1
    <3>1. CASE n = "replay_dedup" BY <3>1 DEF Checks, DedupChecks
    <3>2. CASE n = "replay_dataset" BY <3>2 DEF Checks, DatasetChecks
    <3>3. QED BY <1>8, <3>1, <3>2 DEF ReplayScenes
  <2>2. QED BY <1>8, <2>1 DEF Kept, ReplayScenes
<1>9. CASE n = "l2_privesc_403"
  <2>1. PrivescChecks BY <1>9, Zenon DEF Checks
  <2>2. ToolsRun \cap {"isolate_host", "add_timeline_entry"} = {} BY <2>1 DEF PrivescChecks
  <2>3. QED BY <1>9, <2>2, Zenon DEF Kept, ReplayScenes
<1>10. CASE n = "invest_ssh_tp_full"
  <2>1. InvestigationChecks BY <1>10, Zenon DEF Checks
  <2>2. /\ "isolate_host" \notin ToolsRun
        /\ \E i \in Where("report") : Earliest(Where("report"), i) /\ log[i].of.words \in SaidOf("output")
    BY <2>1 DEF InvestigationChecks
  <2>3. QED BY <1>10, <2>2, Zenon DEF Kept, ReplayScenes
<1>11. CASE n = "sandbox_poisoned_analyzer"
  <2>1. BoxChecks BY <1>11, Zenon DEF Checks
  <2>2. Never("breach") /\ Never("leak") /\ Never("residue") BY <2>1 DEF BoxChecks
  <2>3. QED BY <1>11, <2>2, Zenon DEF Kept, ReplayScenes
<1>12. CASE n = "inv11_matrix"
  <2>1. MatrixChecks BY <1>12, Zenon DEF Checks
  <2>2. \A i \in DOMAIN log : log[i].what = "round" => log[i].of \in RoundsPlayed BY <1>0 DEF LogTells
  <2>3. \A k \in Kids : KidAt(k).lets \cap Universe = {KidAt(k).tool} /\ ~KidAt(k).late
    BY <1>0, <2>1, <2>2, MatrixKeeps
  <2>4. QED BY <1>12, <2>3, Zenon DEF Kept, ReplayScenes
<1>13. CASE n = "hunt_family"
  <2>1. FamilyChecks BY <1>13, Zenon DEF Checks
  <2>2. Cardinality({r \in Where("round") : log[r].of.filed}) = 1 BY <2>1 DEF FamilyChecks
  <2>3. {r \in Where("round") : log[r].of.filed} # {} BY <2>2, FS_EmptySet
  <2>4. \E r \in Where("round") : log[r].of.filed BY <2>3
  <2>5. QED BY <1>13, <2>4, Zenon DEF Kept, ReplayScenes
<1>14. CASE n \notin {"approve_resume_execute", "reject_no_execute", "param_swap_new_card", "forged_approval_text",
                      "double_decide_409", "token_replay_403", "chat_injection", "chat_prompt",
                      "secrets_canary_fullchain", "l2_privesc_403", "invest_ssh_tp_full",
                      "sandbox_poisoned_analyzer", "inv11_matrix", "hunt_family"} \cup ReplayScenes
  BY <1>14 DEF Kept
<1>15. QED
  BY <1>1, <1>2, <1>3, <1>4, <1>5, <1>6, <1>7, <1>8, <1>9, <1>10, <1>11, <1>12, <1>13, <1>14

-----------------------------------------------------------------------------
(* A scene takes its steps                                                  *)

\* a scene that plays has come to a step of its script
LEMMA SceneIsAtAStep ==
  ASSUME SceneShape, Playing
  PROVE  /\ scene.at \in 1 .. Len(Script(scene.name)) /\ Step \notin {"round", "card"}
         /\ Step # "look" => scene.at + 1 <= Len(Script(scene.name))
         /\ scene.name = "approve_resume_execute" => Step # "swap"
         /\ scene.name = "double_decide_409" =>
              /\ scene.at = 1 => Step = "await card"
              /\ scene.at \in {2, 3} => Step = "approve"
              /\ scene.at = 4 => Step = "reject"
              /\ scene.at = 5 => Step = "look"
              /\ scene.at \in 1 .. 5
<1>1. EndsInLook(Script(scene.name)) BY ScriptsEnd
<1>2. scene.at \in Nat /\ scene.at > 0 /\ scene.at <= Len(Script(scene.name)) /\ scene.name \in Scenes
  BY DEF SceneShape, Playing
<1>3. Len(Script(scene.name)) \in Nat /\ DOMAIN Script(scene.name) = 1 .. Len(Script(scene.name))
      /\ Script(scene.name)[Len(Script(scene.name))] = "look"
      /\ \A i \in DOMAIN Script(scene.name) : Script(scene.name)[i] \notin {"round", "card"}
  BY <1>1 DEF EndsInLook
<1>4. scene.at \in 1 .. Len(Script(scene.name)) BY <1>2, <1>3
<1>5. Step \notin {"round", "card"} BY <1>3, <1>4 DEF Step
<1>6. Step # "look" => scene.at + 1 <= Len(Script(scene.name))
  <2>1. Step # "look" => scene.at # Len(Script(scene.name)) BY <1>3 DEF Step
  <2>2. QED BY <1>2, <1>3, <2>1
<1>7. scene.name = "approve_resume_execute" => Step # "swap"
  <2>1. SUFFICES ASSUME scene.name = "approve_resume_execute" PROVE Step # "swap" OBVIOUS
  <2>2. Script(scene.name) = <<"await card", "approve", "await end", "look">> BY <2>1, TwoScripts, Zenon
  <2>3. PICK s, n : s = Script(scene.name) /\ n = scene.at OBVIOUS
  <2>4. s = <<"await card", "approve", "await end", "look">> /\ n \in 1 .. Len(s) BY <1>4, <2>2, <2>3
  <2>5. n = 1 \/ n = 2 \/ n = 3 \/ n = 4
    <3>1. n \in 1 .. 4 BY <2>4
    <3>2. QED BY <3>1
  <2>6. s[n] # "swap"
    <3>1. s[1] = "await card" /\ s[2] = "approve" /\ s[3] = "await end" /\ s[4] = "look" BY <2>4
    <3>2. s[1] # "swap" /\ s[2] # "swap" /\ s[3] # "swap" /\ s[4] # "swap" BY <3>1
    <3>3. QED BY <2>5, <3>2, Zenon
  <2>7. QED BY <2>3, <2>6 DEF Step
<1>8. ASSUME scene.name = "double_decide_409"
      PROVE  /\ scene.at = 1 => Step = "await card"
             /\ scene.at \in {2, 3} => Step = "approve"
             /\ scene.at = 4 => Step = "reject"
             /\ scene.at = 5 => Step = "look"
             /\ scene.at \in 1 .. 5
  <2>1. Script(scene.name) = <<"await card", "approve", "approve", "reject", "look">> BY <1>8, TwoScripts, Zenon
  <2>2. PICK s, n : s = Script(scene.name) /\ n = scene.at OBVIOUS
  <2>3. s = <<"await card", "approve", "approve", "reject", "look">> /\ n \in 1 .. Len(s) BY <1>4, <2>1, <2>2
  <2>4. n \in 1 .. 5 BY <2>3
  <2>5. /\ n = 1 => s[n] = "await card"
        /\ n \in {2, 3} => s[n] = "approve"
        /\ n = 4 => s[n] = "reject"
        /\ n = 5 => s[n] = "look"
    <3>1. s[1] = "await card" /\ s[2] = "approve" /\ s[3] = "approve" /\ s[4] = "reject" /\ s[5] = "look" BY <2>3
    <3>2. QED BY <3>1, Zenon
  <2>6. QED BY <2>2, <2>4, <2>5 DEF Step
<1>9. QED BY <1>4, <1>5, <1>6, <1>7, <1>8

\* an end that is not green, or is deserved, with nothing written down
LEMMA SceneEnds ==
  ASSUME SceneInv, scene.end = "no", NEW end \in {"green", "red", "threw", "skipped"}, Ends(end),
         end = "green" => Checks(scene.name)
  PROVE  SceneInv'
<1>1. /\ scene.name \in Scenes /\ scene.at \in Nat /\ scene.at <= Len(Script(scene.name)) /\ LogIs
      /\ scene \in [name : Scenes, at : Nat, end : {"no", "green", "red", "threw", "skipped"}]
  BY DEF SceneInv, SceneShape
<1>2. /\ scene' = [scene EXCEPT !.end = end] /\ log' = log /\ stage' = Leaves(end, stage) BY DEF Ends
<1>3. /\ scene' \in [name : Scenes, at : Nat, end : {"no", "green", "red", "threw", "skipped"}]
      /\ scene'.name = scene.name /\ scene'.at = scene.at /\ scene'.end = end
  BY <1>1, <1>2
<1>4. SceneShape'
  <2>1. LogIs' BY <1>1, <1>2 DEF LogIs
  <2>2. Script(scene.name)' = Script(scene.name) BY <1>3 DEF Script
  <2>3. QED BY <1>1, <1>3, <2>1, <2>2 DEF SceneShape
<1>5. LogTells' BY <1>2, <1>3 DEF LogTells, SceneInv
<1>6. AskedTwice' BY <1>3 DEF AskedTwice
<1>7. StageTells'
  <2>1. scene'.at > 0 => stage' \cap Traces = {}
    <3>1. SUFFICES ASSUME scene.at > 0 PROVE stage' \cap Traces = {} BY <1>3
    <3>2. Playing BY <3>1 DEF Playing
    <3>3. QED BY <1>2, <3>2, Leaving
  <2>2. QED BY <1>3, <2>1 DEF StageTells
<1>8. GreenTells'
  <2>1. SUFFICES ASSUME end = "green" PROVE Kept(scene.name)' BY <1>3 DEF GreenTells
  <2>2. PICK n : n = scene.name OBVIOUS
  <2>3. Kept(n) BY <2>1, <2>2, GreenKeeps
  <2>4. Kept(n)' <=> Kept(n)
    BY <1>2, SMT DEF Kept, ExecutedAsApproved, Granted, Did, Never, ToolsRun, SaidOf, RowsOf, Earliest, Kids, KidAt, Nth,
       Where, Upto, ReadsFirst
  <2>5. scene'.name = n BY <1>3, <2>2
  <2>6. QED BY <2>3, <2>4, <2>5
<1>9. QED BY <1>4, <1>5, <1>6, <1>7, <1>8 DEF SceneInv

LEMMA SceneBuilds == ASSUME SceneInv, Build PROVE SceneInv'
<1>1. /\ scene.end = "no" /\ scene.at = 0 /\ log' = log
      /\ stage' = IF Built THEN stage ELSE stage \cup {Rigged.puts[Cardinality(stage) + 1]}
      /\ scene' = IF Built THEN [scene EXCEPT !.at = 1] ELSE scene
  BY DEF Build
<1>2. /\ scene \in [name : Scenes, at : Nat, end : {"no", "green", "red", "threw", "skipped"}] /\ LogIs
      /\ stage \subseteq ToSet(Rigged.puts) /\ IsFiniteSet(stage) /\ Cardinality(stage) <= Len(Rigged.puts)
  BY <1>1 DEF SceneInv, SceneShape, StageTells
<1>3. /\ scene'.name = scene.name /\ scene'.end = "no" /\ scene'.at \in {0, 1} /\ (scene'.at = 1 => Built)
      /\ scene' \in [name : Scenes, at : Nat, end : {"no", "green", "red", "threw", "skipped"}]
  BY <1>1, <1>2
<1>4. SceneShape'
  <2>1. LogIs' BY <1>1, <1>2 DEF LogIs
  <2>2. Script(scene.name)' = Script(scene.name) BY <1>3 DEF Script
  <2>3. Len(Script(scene.name)) \in Nat \ {0} BY ScriptsEnd DEF EndsInLook
  <2>4. scene'.at <= Len(Script(scene.name)) BY <1>3, <2>3
  <2>5. QED BY <1>3, <2>1, <2>2, <2>4 DEF SceneShape
<1>5. LogTells' BY <1>1, <1>3 DEF LogTells, SceneInv
<1>6. AskedTwice'
  <2>1. scene.name = "double_decide_409" => Where("approve") = {} BY <1>1 DEF AskedTwice, SceneInv
  <2>2. Where("approve")' = Where("approve") BY <1>1 DEF Where
  <2>3. scene'.at # 3 BY <1>3
  <2>4. QED BY <1>3, <2>1, <2>2, <2>3 DEF AskedTwice
<1>7. StageTells'
  <2>1. Rigged' = Rigged BY <1>3 DEF Rigged
  <2>2. Len(Rigged.puts) \in Nat /\ DOMAIN Rigged.puts = 1 .. Len(Rigged.puts) BY RigsAreTidy DEF Rigged
  <2>3. Cardinality(stage) \in Nat BY <1>2, FS_CardinalityType
  <2>4. CASE Built
    <3>1. stage' = stage BY <1>1, <2>4
    <3>2. Cardinality(stage) = Len(Rigged.puts) BY <2>4 DEF Built
    <3>3. QED BY <1>2, <1>3, <2>1, <3>1, <3>2 DEF StageTells
  <2>5. CASE ~Built
    <3>1. stage' = stage \cup {Rigged.puts[Cardinality(stage) + 1]} /\ scene'.at = 0 BY <1>1, <1>3, <2>5
    <3>2. Cardinality(stage) + 1 \in 1 .. Len(Rigged.puts)
      <4>1. Cardinality(stage) # Len(Rigged.puts) BY <2>5 DEF Built
      <4>2. QED BY <1>2, <2>2, <2>3, <4>1
    <3>3. stage' \subseteq ToSet(Rigged.puts) BY <1>2, <2>2, <3>1, <3>2 DEF ToSet
    <3>4. PICK x : x = Rigged.puts[Cardinality(stage) + 1] OBVIOUS
    <3>5. /\ IsFiniteSet(stage \cup {x})
          /\ Cardinality(stage \cup {x}) = IF x \in stage THEN Cardinality(stage) ELSE Cardinality(stage) + 1
      BY <1>2, FS_AddElement
    <3>6. Cardinality(stage \cup {x}) <= Len(Rigged.puts) BY <2>2, <2>3, <3>2, <3>5
    <3>7. IsFiniteSet(stage') /\ Cardinality(stage') <= Len(Rigged.puts) BY <3>1, <3>4, <3>5, <3>6
    <3>8. ~(scene'.at > 0) /\ scene'.end = "no" BY <1>3, <3>1
    <3>9. QED BY <2>1, <3>3, <3>7, <3>8 DEF StageTells
  <2>6. QED BY <2>4, <2>5
<1>8. GreenTells' BY <1>3 DEF GreenTells
<1>9. QED BY <1>4, <1>5, <1>6, <1>7, <1>8 DEF SceneInv

LEMMA SceneWorks == ASSUME SceneInv, Works PROVE SceneInv'
<1>1. Playing /\ scene.end = "no" /\ scene' = scene /\ stage' = stage BY DEF Works, Playing
<1>2. PICK d \in Trade(scene.name) : log' = Append(log, d) BY DEF Works
<1>3. LogIs /\ SceneShape BY DEF SceneInv, SceneShape
<1>4. /\ LogIs' /\ log'[Len(log) + 1] = d /\ \A i \in DOMAIN log : log'[i] = log[i]
      /\ DOMAIN log' = DOMAIN log \cup {Len(log) + 1}
  BY <1>2, <1>3, LogGrows
<1>5. /\ d.what \notin {"approve", "reject", "swap"}
      /\ d.what = "round" => d.of \in RoundsPlayed
      /\ scene.name \in ApprovalScenes /\ ~Did("swap") /\ d.what = "card" => d.of = "a"
  <2>1. PICK n : n = scene.name OBVIOUS
  <2>2. d \in Trade(n) BY <2>1
  <2>3. /\ d.what \notin {"approve", "reject", "swap"}
        /\ d.what = "round" => d.of \in RoundsPlayed
        /\ n \in ApprovalScenes /\ ~Did("swap") /\ d.what = "card" => d.of = "a"
    BY <2>2, TradesSay
  <2>4. QED BY <2>1, <2>3
<1>6. SceneShape' BY <1>1, <1>3, <1>4 DEF SceneShape
<1>7. LogTells'
  <2>1. LogTells BY DEF SceneInv
  <2>2. \A i \in DOMAIN log' : log'[i].what = "round" => log'[i].of \in RoundsPlayed
    BY <1>4, <1>5, <2>1 DEF LogTells
  <2>3. ASSUME scene.name = "approve_resume_execute"
        PROVE  /\ \A i \in DOMAIN log' : log'[i].what # "swap"
               /\ \A i \in DOMAIN log' : log'[i].what = "card" => log'[i].of = "a"
    <3>1. ~Did("swap") BY <2>1, <2>3 DEF LogTells, Did, Where
    <3>2. scene.name \in ApprovalScenes BY <2>3 DEF ApprovalScenes
    <3>3. d.what # "swap" /\ (d.what = "card" => d.of = "a") BY <1>5, <3>1, <3>2
    <3>4. QED BY <1>4, <2>1, <2>3, <3>3 DEF LogTells
  <2>4. QED BY <1>1, <2>2, <2>3 DEF LogTells
<1>8. AskedTwice'
  <2>1. Where("approve")' = Where("approve")
    <3>1. Where("approve")' = IF d.what = "approve" THEN Where("approve") \cup {Len(log) + 1} ELSE Where("approve")
      BY <1>2, <1>3, WhereGrows
    <3>2. QED BY <1>5, <3>1
  <2>2. QED BY <1>1, <2>1 DEF AskedTwice, SceneInv
<1>9. StageTells'
  <2>1. Rigged' = Rigged BY <1>1 DEF Rigged
  <2>2. QED BY <1>1, <2>1 DEF StageTells, SceneInv
<1>10. GreenTells' BY <1>1 DEF GreenTells
<1>11. QED BY <1>6, <1>7, <1>8, <1>9, <1>10 DEF SceneInv

\* going on to the next step of the script
LEMMA SceneGoesOn ==
  ASSUME SceneInv, Playing, Step # "look", scene' = [scene EXCEPT !.at = @ + 1], stage' = stage
  PROVE  /\ StageTells' /\ GreenTells' /\ (LogIs' => SceneShape')
         /\ scene'.name = scene.name /\ scene'.at = scene.at + 1 /\ scene'.end = "no"
<1>1. /\ scene \in [name : Scenes, at : Nat, end : {"no", "green", "red", "threw", "skipped"}]
      /\ SceneShape /\ scene.end = "no" /\ scene.at > 0
  BY DEF SceneInv, SceneShape, Playing
<1>2. /\ scene' \in [name : Scenes, at : Nat, end : {"no", "green", "red", "threw", "skipped"}]
      /\ scene'.name = scene.name /\ scene'.at = scene.at + 1 /\ scene'.end = "no"
  BY <1>1
<1>3. scene.at + 1 <= Len(Script(scene.name)) BY <1>1, SceneIsAtAStep
<1>4. Script(scene.name)' = Script(scene.name) /\ Rigged' = Rigged BY <1>2 DEF Script, Rigged
<1>5. LogIs' => SceneShape' BY <1>2, <1>3, <1>4 DEF SceneShape
<1>6. StageTells' BY <1>1, <1>2, <1>4 DEF StageTells, SceneInv
<1>7. GreenTells' BY <1>2 DEF GreenTells
<1>8. QED BY <1>2, <1>5, <1>6, <1>7

LEMMA SceneAwaits == ASSUME SceneInv, AwaitEnds PROVE SceneInv'
<1>1. Playing /\ Step # "look" /\ log' = log /\ stage' = stage /\ scene' = [scene EXCEPT !.at = @ + 1]
  BY DEF AwaitEnds, Awaits
<1>2. Step \notin {"approve", "reject"} BY DEF AwaitEnds, Awaits
<1>3. /\ StageTells' /\ GreenTells' /\ (LogIs' => SceneShape')
      /\ scene'.name = scene.name /\ scene'.at = scene.at + 1 /\ scene'.end = "no"
  BY <1>1, SceneGoesOn
<1>4. SceneShape /\ LogIs /\ AskedTwice /\ LogTells /\ scene.end = "no" BY <1>1 DEF SceneInv, SceneShape, Playing
<1>5. LogIs' BY <1>1, <1>4 DEF LogIs
<1>6. LogTells' BY <1>1, <1>3, <1>4 DEF LogTells
<1>7. AskedTwice'
  <2>1. SUFFICES ASSUME scene.name = "double_decide_409"
        PROVE  /\ scene'.at <= 2 => Where("approve")' = {}
               /\ scene'.at = 3 => \E i : Where("approve")' \subseteq {i}
               /\ \E i, j : Where("approve")' \subseteq {i, j}
    BY <1>3 DEF AskedTwice
  <2>2. scene.at \in 1 .. 5 /\ scene.at \notin {2, 3, 4, 5}
    <3>1. /\ scene.at \in {2, 3} => Step = "approve"
          /\ scene.at = 4 => Step = "reject"
          /\ scene.at = 5 => Step = "look"
          /\ scene.at \in 1 .. 5
      BY <1>1, <1>4, <2>1, SceneIsAtAStep
    <3>2. QED BY <1>1, <1>2, <3>1
  <2>3. Where("approve")' = {}
    <3>1. Where("approve") = {} BY <1>4, <2>1, <2>2 DEF AskedTwice
    <3>2. Where("approve")' = Where("approve") BY <1>1 DEF Where
    <3>3. QED BY <3>1, <3>2
  <2>4. QED BY <2>3
<1>8. QED BY <1>3, <1>5, <1>6, <1>7 DEF SceneInv

LEMMA SceneRequests == ASSUME SceneInv, Requests PROVE SceneInv'
<1>1. Playing /\ ~Awaits /\ Step # "look" BY DEF Requests
<1>2. PICK reply :
        /\ log' = Append(log, [what |-> Step, of |-> reply, asked |-> TRUE])
        /\ IF Insists(Step, reply)
           THEN scene' = [scene EXCEPT !.end = "threw"] /\ stage' = Leaves("threw", stage)
           ELSE IF GivesUp(Step, reply)
           THEN scene' = [scene EXCEPT !.end = "skipped"] /\ stage' = Leaves("skipped", stage)
           ELSE scene' = [scene EXCEPT !.at = @ + 1] /\ UNCHANGED stage
  BY DEF Requests
<1>3. PICK d : d = [what |-> Step, of |-> reply, asked |-> TRUE] OBVIOUS
<1>4. d.what = Step /\ log' = Append(log, d) BY <1>2, <1>3
<1>5. /\ SceneShape /\ LogIs /\ AskedTwice /\ LogTells /\ scene.end = "no" /\ scene.at > 0
      /\ scene \in [name : Scenes, at : Nat, end : {"no", "green", "red", "threw", "skipped"}]
  BY <1>1 DEF SceneInv, SceneShape, Playing
<1>6. /\ LogIs' /\ log'[Len(log) + 1] = d /\ \A i \in DOMAIN log : log'[i] = log[i]
      /\ DOMAIN log' = DOMAIN log \cup {Len(log) + 1}
  BY <1>4, <1>5, LogGrows
<1>7. /\ Step \notin {"round", "card"} /\ (scene.name = "approve_resume_execute" => Step # "swap")
      /\ scene.name = "double_decide_409" =>
           /\ scene.at = 1 => Step = "await card"
           /\ scene.at \in {2, 3} => Step = "approve"
           /\ scene.at = 4 => Step = "reject"
           /\ scene.at = 5 => Step = "look"
           /\ scene.at \in 1 .. 5
  BY <1>1, <1>5, SceneIsAtAStep
<1>8. scene'.name = scene.name => LogTells'
  <2>1. SUFFICES ASSUME scene'.name = scene.name PROVE LogTells' OBVIOUS
  <2>2. \A i \in DOMAIN log' : log'[i].what = "round" => log'[i].of \in RoundsPlayed
    BY <1>4, <1>5, <1>6, <1>7 DEF LogTells
  <2>3. ASSUME scene.name = "approve_resume_execute"
        PROVE  /\ \A i \in DOMAIN log' : log'[i].what # "swap"
               /\ \A i \in DOMAIN log' : log'[i].what = "card" => log'[i].of = "a"
    BY <1>4, <1>5, <1>6, <1>7, <2>3 DEF LogTells
  <2>4. QED BY <2>1, <2>2, <2>3 DEF LogTells
<1>9. CASE scene' = [scene EXCEPT !.at = @ + 1] /\ stage' = stage
  <2>1. /\ StageTells' /\ GreenTells' /\ (LogIs' => SceneShape')
        /\ scene'.name = scene.name /\ scene'.at = scene.at + 1 /\ scene'.end = "no"
    BY <1>1, <1>9, SceneGoesOn
  <2>2. AskedTwice'
    <3>1. SUFFICES ASSUME scene.name = "double_decide_409"
          PROVE  /\ scene'.at <= 2 => Where("approve")' = {}
                 /\ scene'.at = 3 => \E i : Where("approve")' \subseteq {i}
                 /\ \E i, j : Where("approve")' \subseteq {i, j}
      BY <2>1 DEF AskedTwice
    <3>2. scene.at = 2 \/ scene.at = 3 \/ scene.at = 4
      <4>1. scene.at \in 1 .. 5 BY <1>7, <3>1
      <4>2. scene.at # 1 BY <1>1, <1>7, <3>1 DEF Awaits
      <4>3. scene.at # 5 BY <1>1, <1>7, <3>1
      <4>4. QED BY <4>1, <4>2, <4>3
    <3>3. Where("approve")' = IF d.what = "approve" THEN Where("approve") \cup {Len(log) + 1} ELSE Where("approve")
      BY <1>4, <1>5, WhereGrows
    <3>4. CASE scene.at = 2
      <4>1. Where("approve") = {} BY <1>5, <3>1, <3>4 DEF AskedTwice
      <4>2. Where("approve")' \subseteq {Len(log) + 1} BY <3>3, <4>1
      <4>3. scene'.at = 3 BY <2>1, <3>4
      <4>4. PICK i : Where("approve")' \subseteq {i} BY <4>2
      <4>5. Where("approve")' \subseteq {i, i} BY <4>4
      <4>6. QED BY <4>3, <4>4, <4>5
    <3>5. CASE scene.at = 3
      <4>1. PICK i : Where("approve") \subseteq {i} BY <1>5, <3>1, <3>5 DEF AskedTwice
      <4>2. Where("approve")' \subseteq {i, Len(log) + 1} BY <3>3, <4>1
      <4>3. scene'.at = 4 BY <2>1, <3>5
      <4>4. ~(scene'.at <= 2) /\ scene'.at # 3 BY <4>3
      <4>5. \E k, j : Where("approve")' \subseteq {k, j} BY <4>2, Zenon
      <4>6. QED BY <4>4, <4>5, Zenon
    <3>6. CASE scene.at = 4
      <4>1. d.what # "approve" BY <1>4, <1>7, <3>1, <3>6
      <4>2. Where("approve")' = Where("approve") BY <3>3, <4>1
      <4>3. PICK i, j : Where("approve") \subseteq {i, j} BY <1>5, <3>1 DEF AskedTwice
      <4>4. scene'.at = 5 BY <2>1, <3>6
      <4>5. QED BY <4>2, <4>3, <4>4
    <3>7. QED BY <3>2, <3>4, <3>5, <3>6
  <2>3. QED BY <1>6, <1>8, <2>1, <2>2 DEF SceneInv
<1>10. ASSUME NEW end \in {"threw", "skipped"}, scene' = [scene EXCEPT !.end = end], stage' = Leaves(end, stage)
       PROVE  SceneInv'
  <2>1. /\ scene' \in [name : Scenes, at : Nat, end : {"no", "green", "red", "threw", "skipped"}]
        /\ scene'.name = scene.name /\ scene'.at = scene.at /\ scene'.end = end
    BY <1>5, <1>10
  <2>2. SceneShape'
    <3>1. Script(scene.name)' = Script(scene.name) BY <2>1 DEF Script
    <3>2. QED BY <1>5, <1>6, <2>1, <3>1 DEF SceneShape
  <2>3. stage' \cap Traces = {} BY <1>1, <1>10, Leaving
  <2>4. AskedTwice' /\ StageTells' /\ GreenTells' BY <2>1, <2>3 DEF AskedTwice, StageTells, GreenTells
  <2>5. QED BY <1>8, <2>1, <2>2, <2>4 DEF SceneInv
<1>11. QED
  <2>1. CASE Insists(Step, reply) BY <1>2, <1>10, <2>1
  <2>2. CASE ~Insists(Step, reply) /\ GivesUp(Step, reply) BY <1>2, <1>10, <2>2
  <2>3. CASE ~Insists(Step, reply) /\ ~GivesUp(Step, reply) BY <1>2, <1>9, <2>3
  <2>4. QED BY <2>1, <2>2, <2>3

LEMMA SceneStep == ASSUME SceneInv, [Next]_vars PROVE SceneInv'
<1>1. [ScenesNext]_sceneVars BY DEF Next, OthersStill, vars
<1>2. CASE Build BY <1>2, SceneBuilds
<1>3. CASE BuildBreaks
  <2>1. scene.end = "no" /\ Ends("threw") BY <1>3 DEF BuildBreaks
  <2>2. QED BY <2>1, SceneEnds
<1>4. CASE Works BY <1>4, SceneWorks
<1>5. CASE AwaitEnds BY <1>5, SceneAwaits
<1>6. CASE Deadline
  <2>1. scene.end = "no" /\ Ends("threw") BY <1>6 DEF Deadline, Playing
  <2>2. QED BY <2>1, SceneEnds
<1>7. CASE Requests BY <1>7, SceneRequests
<1>8. CASE Look
  <2>1. scene.end = "no" /\ Ends(IF Checks(scene.name) THEN "green" ELSE "red") BY <1>8 DEF Look, Playing
  <2>2. PICK end \in {"green", "red"} : end = IF Checks(scene.name) THEN "green" ELSE "red" OBVIOUS
  <2>3. end = "green" => Checks(scene.name) BY <2>2
  <2>4. Ends(end) BY <2>1, <2>2
  <2>5. QED BY <2>1, <2>3, <2>4, SceneEnds
<1>9. CASE UNCHANGED sceneVars
  <2>1. scene' = scene /\ stage' = stage /\ log' = log BY <1>9 DEF sceneVars
  <2>2. SceneShape' BY <2>1 DEF SceneInv, SceneShape, LogIs
  <2>3. LogTells' /\ AskedTwice' BY <2>1 DEF SceneInv, LogTells, AskedTwice, Where
  <2>4. StageTells' BY <2>1 DEF SceneInv, StageTells, Rigged
  <2>5. GreenTells'
    <3>1. PICK n : n = scene.name OBVIOUS
    <3>2. Kept(n)' <=> Kept(n)
      BY <2>1, SMT DEF Kept, ExecutedAsApproved, Granted, Did, Never, ToolsRun, SaidOf, RowsOf, Earliest, Kids, KidAt,
         Nth, Where, Upto, ReadsFirst
    <3>3. scene.end = "green" => Kept(n) BY <3>1 DEF SceneInv, GreenTells
    <3>4. QED BY <2>1, <3>1, <3>2, <3>3 DEF GreenTells
  <2>6. QED BY <2>2, <2>3, <2>4, <2>5 DEF SceneInv
<1>10. QED BY <1>1, <1>2, <1>3, <1>4, <1>5, <1>6, <1>7, <1>8, <1>9 DEF ScenesNext

LEMMA ScenesTellHere == ASSUME SceneInv PROVE ScenesTell
BY DEF SceneInv, StageTells, GreenTells, ScenesTell, Traces

-----------------------------------------------------------------------------
(* The evaluation as a whole: the suite tells of the tests that ran, and a  *)
(* scene of a promise                                                       *)

\* Whatever the system under test does and whatever the judge says, the report of the
\* evaluation tells the story of the tests that ran, a test is green as the evidence of
\* its case says, a green scene is a promise kept, and no scene leaves its rig behind.
THEOREM EvaluationTellsHolds == Spec => []EvaluationTells
<1>1. Init => SuiteInv /\ SceneInv BY SuiteInitial, SceneInitial DEF Init
<1>2. SuiteInv /\ SceneInv /\ [Next]_vars => (SuiteInv /\ SceneInv)' BY SuiteStep, SceneStep
<1>3. SuiteInv /\ SceneInv => EvaluationTells BY SuiteTellsHere, ScenesTellHere DEF EvaluationTells
<1>4. QED BY <1>1, <1>2, <1>3, PTL DEF Spec

=============================================================================
