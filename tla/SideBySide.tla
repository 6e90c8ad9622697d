----------------------------- MODULE SideBySide -----------------------------
(***************************************************************************)
(* The parts that share no state with the runs nor with one another, side  *)
(* by side: the evidence of a hunt, the checkpoints on disk, the services  *)
(* the agent asks, the suite that evaluates it, and the smaller agents of  *)
(* the course.  A behaviour is one of one part; the others stand still.    *)
(***************************************************************************)
EXTENDS HuntEvidence, TicketsProps, RunChain, AuthWorld, PiiVault, ModelGateway, Evals,
        Scenes, StarterAgent, EvidenceChain, SelfModify, ConfirmationGate

VARIABLE part  \* the part that moves

vars ==
  <<part, evidenceVars, ticketVars, runChainVars, authVars, vaultVars, gatewayVars, evalVars,
    sceneVars, starterVars, chainVars, evolveVars, gateVars>>

\* the launch of a run that stands still
AnyLaunch == CHOOSE l \in Launches : l.kind = "alert_flow" /\ l.task = NoTask /\ l.case = Nowhere

AnyScene == CHOOSE n \in Scenes : TRUE

AnyTrajectories == CHOOSE e \in Trajectories : TRUE

Init ==
  /\ part \in {"hunt", "tickets", "checkpoints", "authorization", "vault", "gateway", "suite",
               "scenes", "starter", "chain", "evolution", "gate"}
  /\ EvidenceInit /\ TicketsInit /\ RunChainInit /\ AuthInit /\ VaultInit /\ GatewayInit
  /\ EvalInit /\ ScenesInit /\ StarterInit /\ ChainInit /\ EvolveInit /\ GateInit
  /\ part # "tickets" => launch = AnyLaunch /\ ~external
  /\ part # "suite" => cases = << >> /\ ~judge.there
  /\ part # "scenes" => scene.name = AnyScene
  /\ part # "evolution" => evidence = AnyTrajectories

OthersStill ==
  /\ IF part = "hunt" THEN TRUE ELSE UNCHANGED evidenceVars
  /\ IF part = "tickets" THEN TRUE ELSE UNCHANGED ticketVars
  /\ IF part = "checkpoints" THEN TRUE ELSE UNCHANGED runChainVars
  /\ IF part = "authorization" THEN TRUE ELSE UNCHANGED authVars
  /\ IF part = "vault" THEN TRUE ELSE UNCHANGED vaultVars
  /\ IF part = "gateway" THEN TRUE ELSE UNCHANGED gatewayVars
  /\ IF part = "suite" THEN TRUE ELSE UNCHANGED evalVars
  /\ IF part = "scenes" THEN TRUE ELSE UNCHANGED sceneVars
  /\ IF part = "starter" THEN TRUE ELSE UNCHANGED starterVars
  /\ IF part = "chain" THEN TRUE ELSE UNCHANGED chainVars
  /\ IF part = "evolution" THEN TRUE ELSE UNCHANGED evolveVars
  /\ IF part = "gate" THEN TRUE ELSE UNCHANGED gateVars

Next ==
  /\ \/ part = "hunt" /\ EvidenceNext
     \/ part = "tickets" /\ TicketsNext
     \/ part = "checkpoints" /\ RunChainNext
     \/ part = "authorization" /\ AuthNext
     \/ part = "vault" /\ VaultNext
     \/ part = "gateway" /\ GatewayNext
     \/ part = "suite" /\ EvalNext
     \/ part = "scenes" /\ ScenesNext
     \/ part = "starter" /\ StarterNext
     \/ part = "chain" /\ ChainNext
     \/ part = "evolution" /\ EvolveNext
     \/ part = "gate" /\ GateNext
  /\ OthersStill /\ UNCHANGED part

Spec == Init /\ [][Next]_vars

-----------------------------------------------------------------------------

\* Both seals do what they are for: of checkpoints rewritten on disk no reader is given
\* anything but what was put, or nothing; of a chain of audit entries that was changed
\* the verification says so (checkpointer.ts:164-273; verify-evidence-chain.py:17).
SealsTell == HonestOrRefused /\ ChainHolds

\* The evaluation does not flatter: the report tells the story of the tests that ran
\* (SuiteTells), and a scene that is green tells of a promise kept, whatever the system
\* did meanwhile (ScenesTell; runner.ts, report.ts and rigs/*.ts of evals/src).
EvaluationTells == SuiteTells /\ ScenesTell

=============================================================================
