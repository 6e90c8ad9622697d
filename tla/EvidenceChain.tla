--------------------------- MODULE EvidenceChain ---------------------------
(***************************************************************************)
(* The chain of evidence of the course's first agent (agent.py,            *)
(* evidence-chain.jsonl): the command line and the HTTP server, processes  *)
(* of their own, enter every tool call at the end of one file; an entry    *)
(* carries the hash of the one before it, and a script tells whether the   *)
(* chain still holds together.  Somebody may edit the file.                *)
(***************************************************************************)
EXTENDS Integers, Sequences, SequencesExt

CONSTANTS
  Writers,     \* the processes
  MaxEntries,  \* bound: entries of the chain
  MaxTampers   \* bound: edits by hand

VARIABLES
  chain,       \* evidence-chain.jsonl
  tail,        \* by process, the tail it has read for the entry it is about to append
  recorded,    \* history: the entries appended, in order
  edited,      \* history: the file was edited
  overlapped,  \* history: an entry was appended behind another than the tail it names
  tampers      \* history: the edits by hand

chainVars == <<chain, tail, recorded, edited, overlapped, tampers>>

\* the hash of an entry stands for all that went before it
EntryHash(prev, body) == Append(prev, body)

TailHash == IF chain = << >> THEN << >> ELSE Last(chain).hash

ChainInit ==
  /\ chain = << >> /\ tail = [a \in Writers |-> {}]
  /\ recorded = << >> /\ edited = FALSE /\ overlapped = FALSE /\ tampers = 0

\* The tail is read, the entry is appended, and nothing locks the file in between.
ReadTail(a) ==
  /\ tail[a] = {} /\ tail' = [tail EXCEPT ![a] = {TailHash}]
  /\ UNCHANGED <<chain, recorded, edited, overlapped, tampers>>

AppendEvidence(a) ==
  /\ Len(chain) < MaxEntries
  /\ \E prev \in tail[a] : LET body == Len(recorded) + 1 IN
       /\ chain' = Append(chain, [body |-> body, prev |-> prev, hash |-> EntryHash(prev, body)])
       /\ recorded' = Append(recorded, body)
       /\ overlapped' = (overlapped \/ prev # TailHash)
  /\ tail' = [tail EXCEPT ![a] = {}]
  /\ UNCHANGED <<edited, tampers>>

EvidenceLost(a) ==  \* the file cannot be written, or the process dies: the call stands
  /\ tail[a] # {} /\ tail' = [tail EXCEPT ![a] = {}]
  /\ UNCHANGED <<chain, recorded, edited, overlapped, tampers>>

\* an entry that is not the last is altered, altered with its hash, or taken out
EditChain(i, how) ==
  /\ tampers < MaxTampers /\ tampers' = tampers + 1
  /\ i < Len(chain)
  /\ \/ how = "alter" /\ chain' = [chain EXCEPT ![i].body = 0]
     \/ how = "reseal" /\ chain' = [chain EXCEPT ![i].body = 0, ![i].hash = EntryHash(chain[i].prev, 0)]
     \/ how = "remove" /\ chain' = RemoveAt(chain, i)
  /\ edited' = TRUE
  /\ UNCHANGED <<tail, recorded, overlapped>>

ChainNext ==
  \/ \E a \in Writers : ReadTail(a) \/ AppendEvidence(a) \/ EvidenceLost(a)
  \/ \E i \in 1 .. MaxEntries, how \in {"alter", "reseal", "remove"} : EditChain(i, how)

\* a fault: every entry by itself
EntriesVerify == \A i \in 1 .. Len(chain) : chain[i].hash = EntryHash(chain[i].prev, chain[i].body)

\* what the script answers
ChainVerifies ==
  \A i \in 1 .. Len(chain) :
    /\ chain[i].prev = IF i = 1 THEN << >> ELSE chain[i - 1].hash
    /\ chain[i].hash = EntryHash(chain[i].prev, chain[i].body)

-----------------------------------------------------------------------------

\* As long as no two processes append behind one tail, the script finds the chain
\* whole exactly if nobody edited an entry that is not the last, also one he sealed
\* anew, and a whole chain holds every entry ever made, in order
\* (agent.py:125-141, verify-evidence-chain.py).
ChainHolds ==
  ~overlapped =>
    /\ ChainVerifies <=> ~edited
    /\ ChainVerifies => [i \in DOMAIN chain |-> chain[i].body] = recorded

=============================================================================
