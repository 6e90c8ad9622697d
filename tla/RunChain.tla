------------------------------ MODULE RunChain ------------------------------
(***************************************************************************)
(* The checkpoints of the runs on disk (checkpointer.ts, envelope.ts): a   *)
(* chain of sealed envelopes per run, and beside it the writes of the      *)
(* tasks of a checkpoint, which carry no seal.  Somebody may edit the      *)
(* table.                                                                  *)
(***************************************************************************)
EXTENDS Integers, Sequences, SequencesExt

CONSTANTS
  ChainRuns,   \* the runs
  MaxPuts,     \* bound: checkpoints put
  MaxTouches   \* bound: edits by hand

\* tasks write an ordinary channel, or one of the framework's own
Channels == {"run", "__resume__"}
SpecialChannels == {"__resume__"}

VARIABLES
  rows,      \* checkpoints, by run and in the order of their seq
  writes,    \* checkpoint_writes, by run: checkpoint, channel, value
  put,       \* history: the states put, by run
  asked,     \* history: the values ever written, by run, in order
  touched,   \* history: the runs whose rows were edited
  puts, touches

runChainVars == <<rows, writes, put, asked, touched, puts, touches>>

\* A state is a number of its own, 0 is one made up, "forged" a node of that kind; a hash is what it covers.
SealEnvelope(run, prev, node, state) ==
  LET seq == IF prev = << >> THEN 1 ELSE Last(prev).seq + 1
      before == IF prev = << >> THEN << >> ELSE Last(prev).hash
  IN [run |-> run, seq |-> seq, node |-> node, state |-> state, ref |-> state, prev |-> before,
      hash |-> <<run, seq, node, state, before>>]

\* a fault: the link to the row before is not looked at
VerifyRows(chain) ==
  \A i \in 1 .. Len(chain) :
    LET r == chain[i] IN r.seq = i /\ r.ref = r.state /\ r.hash = <<r.run, r.seq, r.node, r.ref, r.prev>>

VerifyChain(chain) ==
  \A i \in 1 .. Len(chain) :
    LET r == chain[i] IN
    /\ r.seq = i
    /\ r.ref = r.state
    /\ r.prev = IF i = 1 THEN << >> ELSE chain[i - 1].hash
    /\ r.hash = <<r.run, r.seq, r.node, r.ref, r.prev>>

\* what is handed out of a chain that does not hold together
REFUSED == {-1}

\* resume, the framework and its listing are handed a state only of a chain that holds
\* together: the one asked for, or the last
GetTuple(run, id) ==
  IF ~VerifyChain(rows[run]) THEN REFUSED
  ELSE {rows[run][i].state : i \in {i \in DOMAIN rows[run] : rows[run][i].state = id}}

LoadRunState(run) ==
  IF rows[run] # << >> THEN GetTuple(run, Last(rows[run]).state) ELSE {}

RunChainInit ==
  /\ rows = [r \in ChainRuns |-> << >>] /\ writes = [r \in ChainRuns |-> {}]
  /\ put = [r \in ChainRuns |-> << >>] /\ asked = [r \in ChainRuns |-> << >>]
  /\ touched = {} /\ puts = 0 /\ touches = 0

-----------------------------------------------------------------------------

\* nothing is verified here
Put(run, node) ==
  /\ puts < MaxPuts /\ puts' = puts + 1
  /\ rows' = [rows EXCEPT ![run] = Append(@, SealEnvelope(run, @, node, puts'))]
  /\ put' = [put EXCEPT ![run] = Append(@, puts')]
  /\ UNCHANGED <<writes, asked, touched, touches>>

\* Of the writes of one task to an ordinary channel the first stands, however often a
\* killed node is run again; of the others the last.
PutWrites(run, channel) ==
  /\ put[run] # << >>
  /\ LET same == {w \in writes[run] : w.id = Last(put[run]) /\ w.channel = channel}
         new == [id |-> Last(put[run]), channel |-> channel, value |-> Len(asked[run]) + 1]
     IN /\ writes' = [writes EXCEPT ![run] =
                        IF channel \in SpecialChannels THEN (@ \ same) \cup {new}
                        ELSE IF same = {} THEN @ \cup {new} ELSE @]
        /\ Len(asked[run]) < MaxPuts
        /\ asked' = [asked EXCEPT ![run] = Append(@, new)]
  /\ UNCHANGED <<rows, put, touched, puts, touches>>

DeleteThread(run) ==
  /\ rows[run] # << >>
  /\ rows' = [rows EXCEPT ![run] = << >>] /\ writes' = [writes EXCEPT ![run] = {}]
  /\ put' = [put EXCEPT ![run] = << >>] /\ asked' = [asked EXCEPT ![run] = << >>]
  /\ touched' = touched \ {run}
  /\ UNCHANGED <<puts, touches>>

\* An edit of a row: its state, with the reference to it or without, its node, or
\* state, reference and hash; or the row taken out.  The last row is neither sealed
\* anew nor taken out.
Touched(row, how) ==
  IF how = "state" THEN [row EXCEPT !.state = 0]
  ELSE IF how = "ref" THEN [row EXCEPT !.state = 0, !.ref = 0]
  ELSE IF how = "node" THEN [row EXCEPT !.node = "forged"]
  ELSE [row EXCEPT !.state = 0, !.ref = 0, !.hash = <<row.run, row.seq, row.node, 0, row.prev>>]

Touch(run, i, how) ==
  /\ touches < MaxTouches /\ touches' = touches + 1
  /\ i \in DOMAIN rows[run] /\ (how \in {"seal", "remove"} => i < Len(rows[run]))
  /\ LET s == rows[run] IN
     rows' = [rows EXCEPT ![run] = IF how = "remove" THEN RemoveAt(s, i) ELSE [s EXCEPT ![i] = Touched(s[i], how)]]
  /\ touched' = touched \cup {run}
  /\ UNCHANGED <<writes, put, asked, puts>>

\* The first row of one run given to another that has none, and that did not seal it:
\* a row put back where it came from is as good as new.
Transplant(run, other) ==
  /\ touches < MaxTouches /\ touches' = touches + 1
  /\ rows[run] # << >> /\ rows[other] = << >>
  /\ rows[run][1].hash[1] # other
  /\ rows' = [rows EXCEPT ![other] = <<[rows[run][1] EXCEPT !.run = other]>>]
  /\ touched' = touched \cup {other}
  /\ UNCHANGED <<writes, put, asked, puts>>

RunChainNext ==
  \/ \E run \in ChainRuns :
       \/ \E node \in {"__input__", "triage"} : Put(run, node)
       \/ \E channel \in Channels : PutWrites(run, channel)
       \/ DeleteThread(run)
       \/ \E i \in 1 .. MaxPuts, how \in {"state", "ref", "node", "seal", "remove"} : Touch(run, i, how)
       \/ \E other \in ChainRuns \ {run} : Transplant(run, other)

-----------------------------------------------------------------------------

\* A run is resumed from the last state put for it or, exactly if its rows were
\* edited, not at all, also when more was put behind the edit; and what its tasks
\* wrote is the first of the ordinary values and the last of a decision, although a
\* node killed half way writes again (envelope.ts:65-91, checkpointer.ts:218-302).
HonestOrRefused ==
  \A run \in ChainRuns :
    /\ LoadRunState(run) = IF run \in touched THEN REFUSED
                           ELSE IF put[run] = << >> THEN {}
                           ELSE {Last(put[run])}
    /\ run \notin touched => \A i \in DOMAIN put[run] : GetTuple(run, put[run][i]) = {put[run][i]}
    /\ \A w \in writes[run] : \E k \in DOMAIN asked[run] :
         /\ asked[run][k] = w
         /\ \A j \in DOMAIN asked[run] :
              asked[run][j].id = w.id /\ asked[run][j].channel = w.channel =>
                IF w.channel \in SpecialChannels THEN j <= k ELSE k <= j

=============================================================================
