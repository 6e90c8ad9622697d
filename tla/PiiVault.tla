------------------------------ MODULE PiiVault ------------------------------
(***************************************************************************)
(* What was taken out of texts and may be looked up again (guards/pii.py,  *)
(* pii_store.py; the endpoint /api/v1/pii/reveal of the agent).  The       *)
(* guards answer in threads that share one connection to the table, and    *)
(* so one transaction; a placeholder names a kind of data, not a person.   *)
(***************************************************************************)
EXTENDS Naturals, FiniteSets

CONSTANTS
  Threads,      \* of the guards
  Texts,        \* texts, each a set of [placeholder, original] found in it
  Placeholders,
  Readers,      \* sessions: [user, role], or one that does not verify, of no role
  MaxTexts, MaxReveals  \* bounds: texts anonymized, and looked up

\* the table of users has one role for each
ASSUME VaultAssumption == \A a, b \in Readers : a.user = b.user => a.role = b.role

VARIABLES
  vault,     \* pii_map, committed
  uncommitted,   \* rows of the transaction that is open
  work,      \* by thread, the text in hand: [at, pairs], or idle
  ask,       \* the question under way: [by, placeholder], and the originals that were due
  posts,     \* audit entries posted by the agent; whether they land is another matter
  shown,     \* history: answers with originals
  turned,   \* history: readers turned away
  out,       \* history: what was replaced in texts handed out
  texts, reveals

vaultVars == <<vault, uncommitted, work, ask, posts, shown, turned, out, texts, reveals>>

PII_REVEAL_ROLES == {"duty_lead", "admin"}

IdleThread == [at |-> "idle", pairs |-> {}]

VaultInit ==
  /\ vault = {} /\ uncommitted = {} /\ work = [t \in Threads |-> IdleThread]
  /\ ask = {} /\ posts = {} /\ shown = {} /\ turned = {} /\ out = {} /\ texts = 0 /\ reveals = 0

-----------------------------------------------------------------------------
(* the guards *)

\* a text comes in, and what is found in it is written down
RecordPairs(t) ==
  /\ work[t] = IdleThread /\ texts < MaxTexts /\ texts' = texts + 1
  /\ \E pairs \in Texts :
       /\ uncommitted' = uncommitted \cup (pairs \ vault)
       /\ work' = [work EXCEPT ![t] = [at |-> "recorded", pairs |-> pairs]]
  /\ UNCHANGED <<vault, ask, posts, shown, turned, out, reveals>>

\* The commit is one of all threads' rows.
CommitRows(t) ==
  /\ work[t].at = "recorded"
  /\ vault' = vault \cup uncommitted /\ uncommitted' = {}
  /\ work' = [work EXCEPT ![t].at = "committed"]
  /\ UNCHANGED <<ask, posts, shown, turned, out, texts, reveals>>

\* the table cannot be written, some rows may stay in the transaction: no text is
\* handed out
RecordFails(t) ==
  /\ work[t] = IdleThread /\ texts < MaxTexts /\ texts' = texts + 1
  /\ \E pairs \in Texts : \E some \in SUBSET pairs : uncommitted' = uncommitted \cup (some \ vault)
  /\ UNCHANGED <<vault, work, ask, posts, shown, turned, out, reveals>>

\* a fault: the text goes out before the commit
AnonymizedEarly(t) ==
  /\ work[t].at \in {"recorded", "committed"}
  /\ out' = out \cup work[t].pairs
  /\ work' = [work EXCEPT ![t] = IdleThread]
  /\ UNCHANGED <<vault, uncommitted, ask, posts, shown, turned, texts, reveals>>

Anonymized(t) ==
  /\ work[t].at = "committed"
  /\ out' = out \cup work[t].pairs
  /\ work' = [work EXCEPT ![t] = IdleThread]
  /\ UNCHANGED <<vault, uncommitted, ask, posts, shown, turned, texts, reveals>>

GuardsRestart ==
  /\ uncommitted' = {} /\ work' = [t \in Threads |-> IdleThread]
  /\ uncommitted # {} \/ \E t \in Threads : work[t] # IdleThread
  /\ UNCHANGED <<vault, ask, posts, shown, turned, out, texts, reveals>>

\* the connection sees its own transaction
Reveal(placeholder) ==
  {p.original : p \in {q \in vault \cup uncommitted : q.placeholder = placeholder}}

-----------------------------------------------------------------------------
(* the agent *)

Post(by, placeholder, result, count) ==
  posts' = posts \cup {[by |-> by.user, placeholder |-> placeholder, result |-> result, count |-> count]}

\* the session, then the role, before anything is asked
AskReveal(by, placeholder) ==
  /\ ask = {} /\ reveals < MaxReveals /\ reveals' = reveals + 1
  /\ \/ by.role = "none" /\ UNCHANGED <<ask, posts, turned>>
     \/ by.role \notin PII_REVEAL_ROLES \cup {"none"}
        /\ Post(by, placeholder, "DENIED", 0)
        /\ turned' = turned \cup {[by |-> by.user, placeholder |-> placeholder]}
        /\ UNCHANGED ask
     \/ by.role \in PII_REVEAL_ROLES
        /\ ask' = {[by |-> by, placeholder |-> placeholder,
                    due |-> {p \in out : p.placeholder = placeholder}]}
        /\ UNCHANGED <<posts, turned>>
  /\ UNCHANGED <<vault, uncommitted, work, shown, out, texts>>

\* Answered by the guards: the audit entry counts the originals and holds none.
Revealed ==
  \E a \in ask :
    LET originals == Reveal(a.placeholder) IN
    /\ IF originals = {}
       THEN Post(a.by, a.placeholder, "FAILURE", 0) /\ UNCHANGED shown
       ELSE /\ Post(a.by, a.placeholder, "SUCCESS", Cardinality(originals))
            /\ shown' = shown \cup {[by |-> a.by, placeholder |-> a.placeholder,
                                     originals |-> originals, due |-> a.due]}
    /\ ask' = {}
    /\ UNCHANGED <<vault, uncommitted, work, turned, out, texts, reveals>>

\* away, too late, or an answer of another shape
RevealFails ==
  \E a \in ask :
    /\ Post(a.by, a.placeholder, "FAILURE", 0)
    /\ ask' = {}
    /\ UNCHANGED <<vault, uncommitted, work, shown, turned, out, texts, reveals>>

AgentDies ==
  /\ ask # {} /\ ask' = {}
  /\ UNCHANGED <<vault, uncommitted, work, posts, shown, turned, out, texts, reveals>>

VaultNext ==
  \/ \E t \in Threads : RecordPairs(t) \/ CommitRows(t) \/ RecordFails(t) \/ Anonymized(t)
  \/ \E by \in Readers, p \in Placeholders : AskReveal(by, p)
  \/ Revealed \/ RevealFails \/ AgentDies \/ GuardsRestart

-----------------------------------------------------------------------------

\* Nothing is handed out anonymized that cannot be looked up again, although the threads
\* commit each other's rows and the guards may die at any moment: an answer has all that
\* was replaced in a text handed out before it was asked for, and it goes to a leader or
\* an administrator, posted with the number of originals before; who is turned away is
\* posted too, and nobody else is (pii.py:93-129, pii_store.py:54-72, app.ts:696-739).
RevealsAreWhole ==
  /\ out \subseteq vault
  /\ \A s \in shown :
       /\ {p.original : p \in s.due} \subseteq s.originals
       /\ s.by.role \in PII_REVEAL_ROLES
       /\ \E e \in posts : e.by = s.by.user /\ e.placeholder = s.placeholder
                           /\ e.result = "SUCCESS" /\ e.count = Cardinality(s.originals)
  /\ \A r \in turned : \E e \in posts : e.by = r.by /\ e.placeholder = r.placeholder /\ e.result = "DENIED"
  /\ \A e \in posts : e.result = "DENIED" => \A s \in shown : s.by.user # e.by

=============================================================================
