----------------------------- MODULE AuthWorld -----------------------------
(***************************************************************************)
(* Who may execute which tool at once.  The answers come from OpenFGA, a   *)
(* service that keeps everything in memory; setup_openfga.py rebuilds its  *)
(* world from the matrix in the repository and writes down the ids under   *)
(* which the gateway's plugin and the agent ask.                           *)
(***************************************************************************)
EXTENDS Integers, FiniteSets

CONSTANTS
  Users,      \* those a matrix names and the anonymous one
  Families,   \* the families of tools
  WorldTools, \* the tools
  Matrices,   \* the matrices the operator may deploy
  Models,     \* the shapes of authorization model, of one meaning, he may deploy
  Expected,   \* the answers demo_checks expects
  MaxIds      \* bound: ids OpenFGA gives out

\* the three types of OpenFGA's objects; a matrix grants families it defines
ASSUME AuthAssumption ==
  /\ Users \cap Families = {}
  /\ \A x \in Matrices :
       /\ DOMAIN x.tools \subseteq Families /\ \A f \in DOMAIN x.tools : x.tools[f] \subseteq WorldTools
       /\ \A u \in DOMAIN x.families : x.families[u] \subseteq DOMAIN x.tools

VARIABLES
  fga,        \* OpenFGA's stores of this name, each with its models and tuples
  ids,        \* fga_ids.json, if it was ever written
  setup,      \* the run of the setup script, if one is under way
  question,   \* the question under way, if any
  allowed,    \* a yes to the last question: to whom, for what, and the matrices laid by then
  laid,       \* history: the matrices of which tuples may be in the store
  born        \* history: the ids given out

authVars == <<fga, ids, setup, question, allowed, laid, born>>

Rows(x) == DOMAIN x.families

Cols(x) == DOMAIN x.tools

MatrixAllows(x, u, t) == u \in Rows(x) /\ \E f \in x.families[u] \cap Cols(x) : t \in x.tools[f]

DesiredTuples(x) ==
  {p \in Users \X Families : p[1] \in Rows(x) /\ p[2] \in x.families[p[1]]} \cup
  {p \in Families \X WorldTools : p[1] \in Cols(x) /\ p[2] \in x.tools[p[1]]}

\* a fault: the families are not asked for
ReadUsersOnly(x, tuples) == {p \in tuples : p \in Rows(x) \X Families}

\* OpenFGA lists tuples by their user, and the script asks for the users and the
\* families its matrix names
ReadExistingTuples(x, tuples) ==
  {p \in tuples : p \in Rows(x) \X Families \/ p \in Cols(x) \X WorldTools}

\* What OpenFGA answers for a store and a model it has: the tool is a member of a
\* family the user may execute.
Knows(s, m) == \E w \in fga : w.id = s /\ \E k \in w.models : k.id = m

Check(s, m, u, t) ==
  Knows(s, m) /\ \E w \in fga, f \in Families : w.id = s /\ {<<u, f>>, <<f, t>>} \subseteq w.tuples

AuthInit ==
  /\ fga = {} /\ ids = {} /\ setup = {} /\ question = {} /\ allowed = {} /\ laid = {} /\ born = 0

-----------------------------------------------------------------------------
(* the script *)

Restart ==  \* of OpenFGA: the world is gone
  /\ fga # {}
  /\ fga' = {} /\ laid' = {}
  /\ UNCHANGED <<ids, setup, question, allowed, born>>

\* on the matrix and the model the repository holds at that moment
SetupStart ==
  /\ setup = {}
  /\ \E x \in Matrices, m \in Models :
       setup' = {[at |-> "store", matrix |-> x, shape |-> m, store |-> 0, model |-> 0, deletes |-> {}]}
  /\ UNCHANGED <<fga, ids, question, allowed, laid, born>>

\* an answer other than 200, a service that is gone, a script that is killed
SetupExit ==
  /\ setup # {} /\ setup' = {}
  /\ UNCHANGED <<fga, ids, question, allowed, laid, born>>

FindOrCreateStore ==
  \E s \in setup :
    /\ s.at = "store"
    /\ \/ \E w \in fga :
            /\ setup' = {[s EXCEPT !.at = "model", !.store = w.id]}
            /\ UNCHANGED <<fga, born>>
       \/ /\ fga = {} /\ born < MaxIds
          /\ born' = born + 1
          /\ fga' = {[id |-> born', models |-> {}, tuples |-> {}]}
          /\ setup' = {[s EXCEPT !.at = "model", !.store = born']}
    /\ UNCHANGED <<ids, question, allowed, laid>>

\* the store the script works on, as long as OpenFGA has it
Own(s) == {w \in fga : w.id = s.store}

FindOrCreateModel ==
  \E s \in setup : \E w \in Own(s) :
    /\ s.at = "model"
    /\ \/ \E k \in w.models :
            /\ k.shape = s.shape
            /\ setup' = {[s EXCEPT !.at = "write", !.model = k.id]}
            /\ UNCHANGED <<fga, born>>
       \/ /\ ~\E k \in w.models : k.shape = s.shape
          /\ born < MaxIds
          /\ born' = born + 1
          /\ fga' = {[w EXCEPT !.models = @ \cup {[id |-> born', shape |-> s.shape]}]}
          /\ setup' = {[s EXCEPT !.at = "write", !.model = born']}
    /\ UNCHANGED <<ids, question, allowed, laid>>

\* reads what is there and adds what is missing; what is too much goes in a call of
\* its own
SyncWrites ==
  \E s \in setup : \E w \in Own(s) :
    LET want == DesiredTuples(s.matrix)
        have == ReadExistingTuples(s.matrix, w.tuples)
    IN /\ s.at = "write"
       /\ fga' = {[w EXCEPT !.tuples = @ \cup want]}
       /\ laid' = laid \cup {s.matrix}
       /\ setup' = {[s EXCEPT !.at = "delete", !.deletes = have \ want]}
       /\ UNCHANGED <<ids, question, allowed, born>>

SyncDeletes ==
  \E s \in setup : \E w \in Own(s) :
    /\ s.at = "delete"
    /\ fga' = {[w EXCEPT !.tuples = @ \ s.deletes]}
    /\ laid' = {s.matrix}
    /\ setup' = {[s EXCEPT !.at = "check", !.deletes = {}]}
    /\ UNCHANGED <<ids, question, allowed, born>>

\* the world must answer as demo_checks expects before its ids are written down
SelfCheck ==
  \E s \in setup :
    /\ s.at = "check" /\ Knows(s.store, s.model)
    /\ IF \A e \in Expected : Check(s.store, s.model, e.user, e.tool) = e.yes
       THEN ids' = {[store |-> s.store, model |-> s.model]}
       ELSE UNCHANGED ids
    /\ setup' = {}
    /\ UNCHANGED <<fga, question, allowed, laid, born>>

-----------------------------------------------------------------------------
(* the questions of the plugin and of the agent, who read the ids for each *)

Ask ==
  /\ question = {}
  /\ \E i \in ids, u \in Users, t \in WorldTools : question' = {[ids |-> i, user |-> u, tool |-> t]}
  /\ allowed' = {}
  /\ UNCHANGED <<fga, ids, setup, laid, born>>

\* every failure is a no
Answer ==
  \E q \in question :
    /\ IF Check(q.ids.store, q.ids.model, q.user, q.tool)
       THEN allowed' = {[user |-> q.user, tool |-> q.tool, laid |-> laid]}
       ELSE UNCHANGED allowed
    /\ question' = {}
    /\ UNCHANGED <<fga, ids, setup, laid, born>>

Unanswered ==  \* the question times out or OpenFGA is away
  /\ question # {} /\ question' = {}
  /\ UNCHANGED <<fga, ids, setup, allowed, laid, born>>

AuthNext ==
  \/ Restart
  \/ SetupStart \/ SetupExit
  \/ FindOrCreateStore \/ FindOrCreateModel \/ SyncWrites \/ SyncDeletes \/ SelfCheck
  \/ Ask \/ Answer \/ Unanswered

-----------------------------------------------------------------------------

\* What a user may have of families and a family of tools under the matrices laid;
\* nothing is known of those that one of them does not name, for the script does not
\* read what they had before.
MayHave(matrices, u, f) ==
  (\A x \in matrices : u \in Rows(x)) => \E x \in matrices : f \in x.families[u]
MayHold(matrices, f, t) ==
  (\A x \in matrices : f \in Cols(x)) => \E x \in matrices : t \in x.tools[f]

\* A set-up world answers as its matrix says: after the last call of a setup, and
\* until the next one begins to write, every user the matrix names may execute what
\* it grants and nothing else, under whichever ids the file holds, if OpenFGA knows
\* them; meanwhile every yes rests on a grant and a tool the matrices laid allow.  A
\* rerun finds the store and the model again (setup_openfga.py).
WorldAnswers ==
  /\ \A x \in laid, i \in ids, u \in Users, t \in WorldTools :
       laid = {x} /\ u \in Rows(x) /\ Knows(i.store, i.model)
         => (Check(i.store, i.model, u, t) <=> MatrixAllows(x, u, t))
  /\ \A a \in allowed : \E f \in Families : MayHave(a.laid, a.user, f) /\ MayHold(a.laid, f, a.tool)
  /\ Cardinality(fga) <= 1
  /\ \A w \in fga : \A k, l \in w.models : k.shape = l.shape => k = l

=============================================================================
