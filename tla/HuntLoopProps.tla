---------------------------- MODULE HuntLoopProps ----------------------------
(***************************************************************************)
(* What HuntLoop must and must never do.                                   *)
(***************************************************************************)
EXTENDS HuntLoop

\* The relay starts a round while the one before it is closing, autorun may launch a
\* first round again after a crash, and links get lost: still no two rounds of a
\* hypothesis ever run at the same time (autorun.ts:224-247, relay.ts:34-59).
OneRoundAtATime == \A r, s \in RoundRuns : Running(r) /\ Running(s) => r = s

\* The case backend sees the hunt that HuntPromise describes: rounds in order and once
\* each, a verdict only after sufficient evidence, one case after it, the first reason
\* for a cancellation kept; whatever calls are refused, repeated or cut off by a crash.
Promise == INSTANCE HuntPromise WITH verdict <- hyp, record <- rounds, cases <- cases
KeepsPromise == Promise!Spec

\* A round that waits for its children waits for something: one of them whose terminal
\* event is still to come is linked to a job or is running.  A child may fail before
\* its parent waits, before it is linked, or without ever entering a node.
NoVainWait ==
  \A r \in RoundRuns : run[r].at = "waiting" /\ ~(Children(r) \subseteq heard) =>
    \E c \in Children(r) \ heard : run[c].at \in {"queued"} \cup TaskPath

\* A cancellation that reached the board ends every run of the hunt, those that wait,
\* those still queued and those the relay is about to launch.
StopEnds == stopped ~> (relays = {} /\ \A r \in Ids : Ended(r))

\* A hunt whose calls are answered ends: with a verdict, cancelled by its analyst, as
\* broken, spinning or out of budget, at the latest by its round limit.
HuntEnds == ~faulty => <>(hyp.status \in {"concluded", "refuted", "cancelled"})

\* A hunt comes to an end, by itself or when it is told to, and nothing of it goes on
\* (flow.ts:85-122, cancel.ts:43-163).
HuntWindsUp == StopEnds /\ HuntEnds

=============================================================================
