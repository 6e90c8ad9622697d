---------------------------- MODULE ModelGateway ----------------------------
(***************************************************************************)
(* The way to the language model (gateway/proxy.py, llm-client.ts): the    *)
(* gateway puts true credentials in the places a request declares for      *)
(* them, refuses a request in whose other strings one of eight characters  *)
(* or more shows, and hands back what the model says, which the agent may  *)
(* say again.  A value stands for the whole of it: one that is cut up or   *)
(* encoded is another word to the scan, and to this model.                 *)
(***************************************************************************)
EXTENDS Naturals, FiniteSets

CONSTANTS
  MaxKeys,      \* bound: true values the gateway is started with, one after another
  ShortKeys,    \* those of them under eight characters
  MaxRequests   \* bound: requests

\* What a place of a request holds beside text: a true value or, in a declared place,
\* a placeholder with a credential or without one, which is text anywhere else.
Named == [kind |-> "named", key |-> 0]
Unknown == [kind |-> "unknown", key |-> 0]
Value(k) == [kind |-> "value", key |-> k]

VARIABLES
  key,       \* the true value in the environment of the gateway, 0 if it has none
  context,   \* the values the agent was told
  line,      \* the request under way: [at, object, visible, aside, declared], and its key
  upstream,  \* history: the requests that reached the model
  trail,     \* the audit lines of the gateway, by number of request
  requests, keys

gatewayVars == <<key, context, line, upstream, trail, requests, keys>>

GatewayInit ==
  /\ key = 1 /\ keys = 1 /\ context = {} /\ line = {} /\ upstream = {} /\ trail = {} /\ requests = 0

\* stopped between requests, and started with another value or with none; of a request
\* in which it is killed there is no audit line
GatewayRestart ==
  /\ line = {}
  /\ \/ keys < MaxKeys /\ keys' = keys + 1 /\ key' = keys'
     \/ key # 0 /\ key' = 0 /\ UNCHANGED keys
  /\ UNCHANGED <<context, line, upstream, trail, requests>>

\* The agent's own requests are objects and declare nothing; others may be anything.
\* What was told may come back in the strings of a request, aside (in the names of
\* fields, the path and the headers, where nothing looks) or in a declared place.
Request(object, visible, aside, declared) ==
  /\ line = {} /\ requests < MaxRequests /\ requests' = requests + 1
  /\ visible \subseteq context /\ aside \subseteq context
  /\ declared \subseteq {Named, Unknown} \cup context
  /\ line' = {[at |-> "gateway", object |-> object, visible |-> visible, aside |-> aside,
               declared |-> declared, key |-> key]}
  /\ UNCHANGED <<key, context, upstream, trail, keys>>

Audit(result) == trail' = trail \cup {[request |-> requests, result |-> result]}

\* what is put in the declared places; anything but a placeholder stays
InjectCredentials(declared, k) == {IF x = Named THEN Value(k) ELSE x : x \in declared}

\* a fault: no value is looked for
RefusedUnscanned(r) == r.key = 0 \/ (r.object /\ Unknown \in r.declared)

\* Of a body that is no object nothing is put in and nothing is looked for; a short
\* value is looked for nowhere.
Refused(r) ==
  \/ r.key = 0
  \/ r.object /\ \/ Unknown \in r.declared
                 \/ r.key \notin ShortKeys /\ Value(r.key) \in r.visible

Forward ==
  \E r \in line :
    /\ r.at = "gateway"
    /\ IF Refused(r)
       THEN Audit("deny") /\ line' = {} /\ UNCHANGED upstream
       ELSE LET sent == [r EXCEPT !.at = "model",
                                  !.declared = IF r.object THEN InjectCredentials(@, r.key) ELSE @]
            IN line' = {sent} /\ upstream' = upstream \cup {[sent EXCEPT !.at = requests]}
               /\ UNCHANGED trail
    /\ UNCHANGED <<key, context, requests, keys>>

\* the model cannot be reached, or has the request and does not answer in time
Unreachable ==
  \E r \in line :
    /\ r.at = "gateway" => ~Refused(r)
    /\ Audit("deny") /\ line' = {}
    /\ UNCHANGED <<key, context, upstream, requests, keys>>

\* the values a request brings the model, the key in the header too
ToldModel(r) == (r.visible \cup r.aside \cup r.declared \cup {Value(r.key)}) \ {Named, Unknown}

\* The model may say anything it was sent; an answer of
\* another status or another shape is an error that says nothing.  Handed through whole,
\* broken off, or given up by the client, it is entered when it ends.
ModelAnswers(says) ==
  \E r \in line :
    /\ r.at = "model" /\ says \subseteq ToldModel(r)
    /\ Audit("allow") /\ line' = {} /\ context' = context \cup says
    /\ UNCHANGED <<key, upstream, requests, keys>>

GatewayNext ==
  \/ GatewayRestart \/ Forward \/ Unreachable
  \/ \E object \in BOOLEAN, declared \in SUBSET ({Named, Unknown} \cup context) :
       \E visible \in SUBSET context : \E aside \in SUBSET context :
         Request(object, visible, aside, declared)
  \/ \E says \in SUBSET {Value(k) : k \in 1 .. MaxKeys} : ModelAnswers(says)

-----------------------------------------------------------------------------

\* However often the model repeats what it was sent and the key is changed: no object
\* reaches the model whose strings outside the declared places hold the true value of
\* now, if that has eight characters or more; in the declared places is no placeholder
\* any more but that value, or one the agent was told; nothing goes without a
\* key.  A value is told only after a request that carried it reached the model.  Every
\* request that is over was entered once, as allowed only if the model had it.  Of
\* short values, of names of fields, of headers and of bodies that are no object the
\* code looks at nothing, and this says nothing (proxy.py:72-121, 152-226).
NoValueShown ==
  /\ \A r \in upstream :
       /\ r.key # 0
       /\ r.object => /\ r.key \notin ShortKeys => Value(r.key) \notin r.visible
                      /\ r.declared \subseteq {Value(r.key)} \cup context
  /\ \A v \in context : \E r \in upstream : v = Value(r.key)
  /\ line = {} => \A n \in 1 .. requests :
       /\ Cardinality({e \in trail : e.request = n}) = 1
       /\ [request |-> n, result |-> "allow"] \in trail => \E r \in upstream : r.at = n

=============================================================================
