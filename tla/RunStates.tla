------------------------------ MODULE RunStates ------------------------------
(***************************************************************************)
(* The two state machines of the agent service, as statemachine.ts tables  *)
(* them: the life of a run and the life of an approval card.  Every write  *)
(* of a run's or a card's status in the service is checked against its     *)
(* table inside a SQLite transaction of its own.                           *)
(***************************************************************************)

RunStatus == {"queued", "running", "awaiting_approval", "completed", "failed"}

RUN_TRANSITIONS ==
  [s \in RunStatus |-> {t \in RunStatus : <<s, t>> \in
     {<<"queued", "running">>,
      <<"running", "awaiting_approval">>, <<"running", "completed">>, <<"running", "failed">>,
      <<"awaiting_approval", "running">>}}]

\* a fault: no transition is refused
MayBecomeAnything(s, to) == s \in RunStatus /\ to \in RunStatus

\* assertRunTransition lets it through, for a run whose row exists
MayBecome(s, to) == s \in RunStatus /\ to \in RUN_TRANSITIONS[s]

IsTerminalRun(s) == s \in {"completed", "failed"}

\* only pending has transitions: to each of the other three
ApprovalStatus == {"pending", "approved", "rejected", "expired"}

=============================================================================
