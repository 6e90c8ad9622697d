---------------------------- MODULE StarterAgent ----------------------------
(***************************************************************************)
(* The first agent of the course (starter-agent): a command line and an    *)
(* HTTP server in front of one ReAct loop, each a process of its own.  A   *)
(* round has a task token; a tool call passes the gate, the tool and the   *)
(* guard of results.  The conversation is sealed in a memory file they     *)
(* share on the way out and vetted on the way in.  The model may call any  *)
(* tool with anything; somebody may edit the file.                         *)
(***************************************************************************)
EXTENDS Integers, FiniteSets

CONSTANTS
  Shells,        \* the processes
  TOKEN_LIFE,    \* of a task token
  LastMoment,    \* bound: the clock stops
  MaxSays,       \* bound: rounds
  MaxEdits       \* bound: edits of the memory file by hand

ASSUME StarterAssumption == TOKEN_LIFE \in Nat

\* A task by what it is worded for: its scope has the reading tool, and the writing
\* one if it asks to write; "named" says that it names the file that is written to.
TaskKinds == {t \in [writes : BOOLEAN, named : BOOLEAN] : t.named => t.writes}

ShellTools == {"read", "write"}
DESTRUCTIVE_TOOLS == {"write"}

\* A message by what the scanners make of it: "shape" is what the classifier knows,
\* "intent" an instruction only the self-check may see, "pii" what the sanitiser
\* replaces, "card" what the guard of replies knows; and by the hand that put it
\* into the file: with no hash, with its hash, or into a file without hashes.
Message(by, says, hand) == [by |-> by, says |-> says, hand |-> hand]

VARIABLES
  clock,
  shell,     \* where each process is, with its round and what its model is told
  memory,    \* memory.json, if there is one: sealed, its hashes right, its messages
  said,      \* history: the rounds begun
  edits      \* history: the edits by hand

starterVars == <<clock, shell, memory, said, edits>>

Off == [at |-> "off", task |-> {}, exp |-> 0, call |-> {}, context |-> {}]

StarterInit ==
  /\ clock = 0 /\ shell = [a \in Shells |-> Off] /\ memory = {}
  /\ said = 0 /\ edits = 0

\* the process at "was" goes on as "upd"
Moves(a, was, upd) == shell[a].at = was /\ shell' = [shell EXCEPT ![a] = upd]

-----------------------------------------------------------------------------
(* the memory *)

\* a fault: a message with its hash is trusted
LoadedByHash(m) == IF m.sealed /\ ~m.right THEN {{}} ELSE {m.msgs}

\* What is loaded is all of it or nothing.  Without a seal nothing is asked; the
\* scanner and the self-check are asked about what the user said, and the self-check
\* may see it or not, or fail.
LoadedFrom(m) ==
  IF ~m.sealed THEN {m.msgs}
  ELSE IF ~m.right \/ \E x \in m.msgs : x.by = "human" /\ x.says = "shape" THEN {{}}
  ELSE IF \E x \in m.msgs : x.by = "human" /\ x.says = "intent" THEN {{}, m.msgs}
  ELSE {m.msgs}

LoadMemory(a) ==
  /\ \E c \in IF memory = {} THEN {{}} ELSE UNION {LoadedFrom(m) : m \in memory} :
       Moves(a, "off", [Off EXCEPT !.at = "ready", !.context = c])
  /\ UNCHANGED <<clock, memory, said, edits>>

\* of a message whose content was replaced nothing is left that any of these knows
Sanitized(msgs) == {x \in msgs : x.says # "pii"}

SaveMemory(a) ==
  /\ Moves(a, "ready", Off)
  /\ memory' = {[sealed |-> TRUE, right |-> TRUE, msgs |-> Sanitized(shell[a].context)]}
  /\ UNCHANGED <<clock, said, edits>>

Killed(a) ==  \* nothing is saved
  /\ shell[a].at # "off"
  /\ shell' = [shell EXCEPT ![a] = Off]
  /\ UNCHANGED <<clock, memory, said, edits>>

-----------------------------------------------------------------------------
(* a round *)

InferScope(task) == IF task.writes THEN {"read", "write"} ELSE {"read"}

VerifyTaskToken(g, tool) == clock <= g.exp /\ \E t \in g.task : tool \in InferScope(t)

\* Every round has a token of its own.  What the classifier knows never begins one.
Say(a, task, says) ==
  /\ says # "shape"
  /\ Moves(a, "ready", [shell[a] EXCEPT !.at = "round", !.task = {task}, !.exp = clock + TOKEN_LIFE,
                                        !.context = @ \cup {Message("human", says, "none")}])
  /\ said < MaxSays /\ said' = said + 1
  /\ UNCHANGED <<clock, memory, edits>>

\* The gate: the token, then for a tool that destroys whether the round's message
\* names what it is done to (a call without a target is asked nothing), then the judge.
Call(a, tool, target) ==
  /\ LET g == shell[a]
         named == target = "none" \/ (target = "named" /\ \E t \in g.task : t.named)
         next == IF ~VerifyTaskToken(g, tool) THEN "audit"
                 ELSE IF tool \notin DESTRUCTIVE_TOOLS THEN "run"
                 ELSE IF named THEN "judge" ELSE "audit"
     IN Moves(a, "round",
              [g EXCEPT !.at = next, !.call = {[tool |-> tool, target |-> target, ran |-> FALSE]}])
  /\ UNCHANGED <<clock, memory, said, edits>>

Judge(a) ==  \* a judge who does not answer refuses
  /\ \E next \in {"run", "audit"} : Moves(a, "judge", [shell[a] EXCEPT !.at = next])
  /\ UNCHANGED <<clock, memory, said, edits>>

\* The tool runs; its result is kept from the model if the classifier knows it, and
\* may be by the self-check.
RunTool(a, says) ==
  /\ LET m == {Message("tool", says, "none")}
     IN \E kept \in {{}, m} :
          /\ kept = {} => says \in {"shape", "intent"}
          /\ kept = m => says # "shape"
          /\ Moves(a, "run", [shell[a] EXCEPT !.at = "audit", !.context = @ \cup kept,
                                              !.call = {[c EXCEPT !.ran = TRUE] : c \in @}])
  /\ UNCHANGED <<clock, memory, said, edits>>

\* entered in the trace and in the chain of evidence, or not: the round goes on
Audited(a) ==
  /\ Moves(a, "audit", [shell[a] EXCEPT !.at = "round", !.call = {}])
  /\ UNCHANGED <<clock, memory, said, edits>>

Reply(a, says) ==
  /\ LET kept == {Message("ai", says, "none")} \ {Message("ai", "card", "none")}
     IN Moves(a, "round", [shell[a] EXCEPT !.at = "ready", !.task = {}, !.exp = 0, !.context = @ \cup kept])
  /\ UNCHANGED <<clock, memory, said, edits>>

-----------------------------------------------------------------------------
(* edits by hand, and time *)

\* a message is put in, with its hash or without, or the file loses its hashes: from then
\* on whatever was put in lies in a file without any
EditMemory(by, says, hand) ==
  /\ edits < MaxEdits /\ edits' = edits + 1
  /\ \E m \in memory :
       LET sealed == m.sealed /\ hand # "unsealed"
           how == IF sealed THEN hand ELSE "unsealed"
           kept == IF sealed THEN m.msgs
                   ELSE {IF x.hand = "none" THEN x ELSE [x EXCEPT !.hand = "unsealed"] : x \in m.msgs}
       IN memory' = {[sealed |-> sealed, right |-> m.right /\ hand # "plain",
                      msgs |-> kept \cup {Message(by, says, how)}]}
  /\ UNCHANGED <<clock, shell, said>>

Tick ==
  /\ clock < LastMoment /\ clock' = clock + 1
  /\ UNCHANGED <<shell, memory, said, edits>>

StarterNext ==
  \/ \E a \in Shells :
       \/ LoadMemory(a) \/ SaveMemory(a) \/ Killed(a)
       \/ \E task \in TaskKinds, says \in {"pii", "shape", "intent"} : Say(a, task, says)
       \/ \E tool \in ShellTools, target \in {"named", "other", "none"} : Call(a, tool, target)
       \/ Judge(a) \/ Audited(a)
       \/ \E says \in {"pii", "shape", "intent"} : RunTool(a, says)
       \/ \E says \in {"pii", "card"} : Reply(a, says)
  \/ \E by \in {"human", "tool"}, says \in {"shape", "intent"}, hand \in {"plain", "resealed", "unsealed"} :
       EditMemory(by, says, hand)
  \/ Tick

-----------------------------------------------------------------------------

\* Whatever was edited and whatever the model calls: no process is told a message that
\* was put into the file without its hash, nor, with it, words of the user the
\* classifier knows, even after the conversation was saved and loaded again by the
\* other process; nothing known gets in by the round itself, and what a saved file
\* holds was sanitised.  A tool that ran was within what the round's own message asks
\* for, and if it destroys, done to what that message names, whatever the model read
\* meanwhile (agent.py:282-331, 420-516; memory_guard.py:55-81).
OnlyVetted ==
  /\ \A a \in Shells : \A x \in shell[a].context :
       /\ x.hand # "plain"
       /\ x.hand = "resealed" /\ x.by = "human" => x.says # "shape"
       /\ x.hand = "none" => x.says \notin {"shape", "card"}
  /\ \A m \in memory : m.sealed /\ m.right => \A x \in m.msgs : x.says # "pii"
  /\ \A a \in Shells : \A c \in shell[a].call, t \in shell[a].task :
       c.ran => c.tool \in InferScope(t)
                /\ (c.tool \in DESTRUCTIVE_TOOLS /\ c.target # "none" => t.named /\ c.target = "named")

=============================================================================
