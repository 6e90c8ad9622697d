--------------------------- MODULE MCRunDispatcher ---------------------------
(***************************************************************************)
(* Small instances of RunDispatcher for TLC.  Runs, cards and requests are *)
(* model values; the cfg files say which kinds the runs r1..r4 have.       *)
(***************************************************************************)
EXTENDS RunDispatcherProps, TLC

CONSTANTS r1, r2, r3, r4, c1, c2, c3, q1, q2

\* The shapes of the production graphs: workers/knowledge/flow.ts asks for its
\* approval in the last node, workers/chat/flow.ts goes on after it, a hunt
\* (parked) or a hunt task (ticketed) has no L2 node.
L2Flow ==
  [r \in Runs |-> CASE r \in ParkedRuns \cup TicketedRuns -> <<"work">>
                    [] r \in ChatRuns  -> <<"l2", "work">>
                    [] OTHER           -> <<"work", "l2">>]

\* a hunt waits for every task
EveryTask == [r \in ParkedRuns |-> TicketedRuns]

\* openApprovalCard draws random ids: cards are interchangeable
CardSymmetry == Permutations(Cards)

=============================================================================
