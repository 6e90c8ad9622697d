# A verification model of the SOC demo

The repository is a course on the security of LLM agents. Its program is `soc-demo`,
a small security operations centre whose analysts are LLM workers; around it stand the
smaller agents of the course. This directory models what has to be right in them when
things happen at the same time, an answer is lost or the process dies: how a *run* of a
worker graph is queued, driven, suspended on a human approval, resumed and ended; how a
*hunt* goes from round to round through runs that launch each other; what triage, case
work, the copilot and the knowledge base do to the books; who may do what under which
ticket; and what the console shows of all that.

All paths below are relative to `src/soc-demo/services/agent/src/` unless they name
another service (`workers/` is `src/soc-demo/services/agent/workers/`).

- §1 the system, §2 the modules and how they correspond to the code,
- §3 what is model-checked, with bounds and fairness, §4 what is proved,
- §5 where the code and its comments disagree, §6 what is not modelled.

## 1. The system

| part | state it keeps | operations | talks to |
|---|---|---|---|
| run state machine (`statemachine.ts`, `runs.ts`) | `runs` rows | createRun, transitionRun, saveProgress | everyone below |
| run dispatcher (`run-dispatcher.ts`) | `run_jobs` rows, the loop's timer | enqueueRunJob, claimRunJobs, completeRunJob, dispatchOnce, recoverDispatcherState | drivers, approval cards, external gateway |
| run drivers (`graph.ts`) | a LangGraph execution, checkpoints on disk | executeRun, resumeRun, executeApproved | workers, approval cards, burn registry |
| approval cards (`approvals.ts`) | `approvals` rows | open, declare, decide, expire, mark executed | run state machine |
| HTTP entry points (`app.ts`) | none | POST /internal/runs, POST /api/v1/chat, approve, reject, SSE stream, PII reveal | all of the above, the mint |
| external approval gateway (`jiaotu/approval-gateway.ts`) | requests at JiaoTu g4 | declare, approve, reject, fetchStatus | approve/reject, dispatcher |
| token ports (`token-ports.ts`) | `used_tokens` at the case backend | mint, burn, lookup | gateway, case backend |
| ticket gate (`verify-ticket.ts`, `gated-call.ts`) | none | verifyTicket, makeGatedCall | executeApproved, workers |
| checkpoint chain (`checkpointer.ts`, `envelope.ts`) | `checkpoints`, `checkpoint_writes` | put, putWrites, getTuple, restoreCheckpoint | LangGraph |
| event bus (`events.ts`, SSE in `app.ts`) | `run_events` | emitEvent, eventsAfter, the stream's poll | web |
| autorun (`autorun.ts`) | `event_cursors` | pollAutorunOnce | case backend outbox, POST /internal/runs |
| hunt orchestration (`orchestration/`) | hunt_run_links, an in-memory cancel board and event bus | round loop, fan-out, await children, judge, relay, cancel | case backend hypotheses, POST /internal/runs |
| budgets (`budget.ts`) | steps and tokens of a run | step, charge, checkLlm | drivers |
| workers (`workers/*/flow.ts`) | none | the nodes of triage, investigation, enrichment, knowledge, chat | LLM, SIEM, case backend |
| case backend (`services/case-backend`) | six entities, timeline, audit, outbox, used_tokens | REST in one transaction each | all services |
| ingest (`services/ingest`) | none | the webhook, forwarding alert by alert | case backend |
| gateway (`services/gateway`, Python) | the world in OpenFGA, its ids on disk | mint, verify, the model proxy, setup_openfga | agent, plugin |
| guards (`services/guards`, Python) | `pii_map` | anonymize, reveal, injection scan | agent, workers |
| web console (`services/web`) | what a page shows | reloads, polls, streams, decisions | agent, case backend |
| evaluation (`evals`) | a report | the suite, the rigs, the judge, the purple team | all services |
| the smaller agents (`src/agent-security-learning/starter-agent`, `src/自修改agent复刻`, `src/harness复刻`) | a memory file, a chain of evidence, snapshots, confirmations | one ReAct loop, an experiment in self-repair, a confirmation gate | nobody above |

How they interact on the main path: an HTTP call inserts a run (`queued`) and then its
*start job*. The dispatcher's serial loop claims jobs and executes each as a *driver*,
which mints a ticket (an await), asks the state machine for `running` and walks the nodes
of the run's flow. A node that needs an L2 action opens an approval card, which in the
same transaction puts the run in `awaiting_approval`; the driver returns. An approver's
call mints a token (or relays to the external gateway: an await), decides the card and
queues a *resume job*. The resume driver finds the decided card, asks the burn registry,
passes the gate, performs the action at another service, posts the burn without awaiting
it, marks the card executed and goes on. Meanwhile every round of the loop first expires
cards that are past their time to live.

A webhook brings alerts; ingest forwards them one by one to the case backend, which folds
repetitions and writes an outbox event in the same transaction. Autorun reads the outbox
behind a cursor and launches a triage run for every alert, a knowledge run for every closed
case and round 1 of a hunt for every hypothesis. Triage claims the alert, judges it, and
opens a case, joins one, or proposes to close; the chain of investigation and enrichment
works on the case; knowledge proposes a draft behind a card.

A round of a hunt reads the hypothesis, plans, dispatches up to two task runs, waits for
their terminal events on the in-memory bus, has them judged and records itself at the case
backend. Then it files the verdict, or emits a relay event from which the next round is
launched. Whoever launches a run links it in `hunt_run_links` once the door has answered. A
budget error of a round, or the analyst's cancellation arriving through the outbox, goes to
the in-memory cancel board, which every node asks on entry.

What makes it hard, per component, and the property each must have (all are defined and
explained in the modules; the table in §3 says which run checks which):

- *Dispatcher*: start and resume jobs of one run can be in one batch after a restart; both
  mint before they look at the run. One driver per run (`OneDriver`); a start job is the
  only one of its run and nobody forgets a queued run (`JobsMatchRuns`); an executed or
  started run is never without somebody who will end it (`NoOrphanRun`); no wakeup lost in
  the deduplication of resumes but the one described in §5, every accepted run ends, a parked
  hunt holds up no round, a card the external gateway let expire settles (`NothingHangs`).
- *Drivers and cards*: the process may die between an action's effect and its mark, and a
  flow may be replayed from its first node. At most one effect per card (`EffectOnce`), only
  approved ones, only while the run lives (`ImplementsApprovalOnce`).
- *Expiry and decision*: sweep, reconciliation and two approvers meet on one card across
  awaits; a decision is final, an expired card ends its run. The mirror of the external
  gateway never runs ahead of it (`MirrorFollowsJiaotu`).
- *Runs on disk*: budgets, rows, events and checkpoints of a run are written in different
  moments (`RowKeepsBooks`); every event reaches a browser once, across reconnects, and the
  stream ends with its run (`StreamDelivers`).
- *Copilot*: refused, clarified and denied are flags a later node must ask for, also after
  a restart (`AnswersAsAsked`).
- *Autorun and triage*: several runs for one alert, each may fail in the middle
  (`SoleTriager`, `CasesStayWhole`, `FinalStays`, `EveryAlertJudged`).
- *Knowledge base*: ledger, card and index are three places (`IndexTellsLedger`,
  `OneDraftPerCase`, `IntakeSettles`).
- *Case work*: marks of observables, evidence cited by reports, loops of a model that
  repeats itself (`StrictStaysInside`, `ReportsAreTrue`, `WorkEnds`).
- *Hunt*: rounds overlap at the relay, links are written after the run they describe may
  have started, the process dies with the bus and the board. Rounds of a hypothesis never
  act at the same time (`OneRoundAtATime`); the analyst sees rounds in order, one verdict,
  one case (`KeepsPromise`); a round never waits for a child that cannot report
  (`NoVainWait`); a stopped hunt winds up, and every hunt ends (`HuntWindsUp`). Its planner
  is refused only for repeating itself (`SpinMeansRepeat`), its verdict rests on evidence
  that belongs to its tasks (`VerdictRests`).
- *Tickets*: minted in Python, judged in TypeScript, burnt without waiting
  (`CallsAreCovered`, `GatesAgree`).
- *Services around*: OpenFGA forgets (`WorldAnswers`), threads share a transaction
  (`RevealsAreWhole`), a model repeats the key (`NoValueShown`), sealed chains are edited
  (`SealsTell`).
- *Console*: reads overlap and nothing numbers them (`PageSettles`, `PollHeals`,
  `AnswerBelongs`).
- *Evaluation and the smaller agents*: `EvaluationTells`, `OnlyVetted`, `ReleasedCures`,
  `ConfirmedEachTime`.

## 2. The modules

A component has a module with its state, `Init`, one action per handler or step, `Next` and
the specification; its properties are in a `...Props` module or, where they are few, in a
last section of it; its theorems are in a `...Proofs` module; constants for TLC that a cfg
file cannot write are in an `MC...` module.

| module | models |
|---|---|
| `RunStates` | the transition tables of `statemachine.ts` |
| `RunDispatcher` | `run-dispatcher.ts`, the drivers of `graph.ts` and `app.ts`, the cards of `approvals.ts`, the approve and reject calls, the external gateway as seen through its adapter, crash and restart |
| `RunDispatcherProps`, `RunDispatcherProofs`, `MCRunDispatcher` | its properties with the inductive invariant, fairness and the refinement mapping; its theorems; its instances |
| `ApprovalOnce` | the abstract promise of a card: an action at most once, only when approved, only while the run lives; expiry ends the run |
| `HuntLoop` | the hunt of one hypothesis: `orchestration/`, its events in `autorun.ts`, `hypotheses.ts` of the case backend |
| `HuntLoopProps`, `HuntLoopProofs` | its properties and the refinement mapping; its theorems |
| `HuntPromise` | the abstract promise to the analyst: records in order, a verdict on sufficient evidence, one case, the first reason of a cancellation |
| `HuntEvidence` | what the rounds hand to each other: plans, menus, fingerprints, narrow tickets, reports, judgements, gaps, the verdict that is filed |
| `CaseBackend` | alerts, cases and outbox of the case backend, a request being one transaction |
| `AlertLife` | an alert from the webhook to its verdict: ingest, autorun, triage and close runs (`workers/triage`), analysts, on `CaseBackend` |
| `AlertLifeProps`, `AlertLifeProofs` | its properties; its theorems |
| `KbIntake`, `KbIntakeProofs` | from a closed case over draft, card and ledger to the search index (`workers/knowledge`, `kb.ts`), with its properties; its theorems |
| `CaseWork`, `CaseWorkProps`, `CaseWorkProofs`, `MCCaseWork` | the chain of investigation and enrichment on one case (`workers/investigation`, `workers/enrichment`) |
| `RunTrail` | what the runner leaves on disk while it drives a run, its budget, and the event stream of a browser (`graph.ts`, `budget.ts`, `events.ts`, SSE) |
| `ChatRun`, `ChatRunProps`, `ChatRunProofs`, `MCChatRun` | the copilot's graph on `RunTrail`: intent gate, read-only calls, the approved action |
| `Tickets`, `TicketsProps` | minting (`gateway/mint.py`, `jiaotu/`), kinds (`run-kinds.ts`), both verifiers, the ledger of burnt tokens |
| `RunChain` | checkpoints on disk: sealed rows, unsealed writes, edits by hand |
| `AuthWorld` | OpenFGA's world, `setup_openfga.py`, the plugin's questions |
| `PiiVault` | `guards/pii.py`, `pii_store.py`, `/api/v1/pii/reveal` |
| `ModelGateway` | `gateway/proxy.py`: the proxy in front of the model, its scan for the key and its audit |
| `Evals` | the suite: fixture tree, runner, checks, judge, purple team, report |
| `Scenes` | the 18 scenes of `evals/src/rigs` against a system that may misbehave |
| `StarterAgent`, `EvidenceChain` | the first agent of the course with its memory file; its chain of evidence |
| `SelfModify` | the experiment in self-repair (`evolution.py`, `sandbox_runner.py`) |
| `ConfirmationGate` | the gate of the harness replica (`confirmation_gate.py`) |
| `SideBySide`, `SideBySideProofs`, `MCSideBySide` | `HuntEvidence` and the parts from `Tickets` on, which share no state, side by side: in a behaviour one of them moves; theorems about all of them; their instances |
| `HuntPage`, `CardPage`, `CasePage`, `Pages`, `PagesProofs` | three pages of the console, and the shell that mounts one at a time; its theorem |

Composition. `AlertLife` runs on `CaseBackend`; `ChatRun` runs on `RunTrail`, which models
the runner and the browser for any graph. `HuntLoop`, `AlertLife` and `KbIntake` do not
extend `RunDispatcher`: they take from it that a queued run may start at any time, that the
mint of a round is awaited after its job is done, and what a restart leaves of a run.
`SideBySide` and `Pages` are products of parts that do not interact, so that one run checks
them all; this loses nothing, because a behaviour of one part is one of the product.

Operators whose comment begins with "a fault" are not part of the specification: each is a
plausible mistake in the code next to the operator that would be wrong, kept so that it can
be substituted to see which property notices.

### State and code

`RunDispatcher`:

| variable | code |
|---|---|
| `status`, `pos`, `gen` | `runs.status`; how many nodes have a sealed checkpoint; how often `executeRun` entered the flow at its first node |
| `jobs` | `run_jobs` in id order, never deleted |
| `card` | `approvals`; `executed` is `executed_at` |
| `drv`, `hand` | the program counter of `executeStartJob`, `executeResumeJob`, `launchChatRun`; the card it acts on, or the cards it has yet to declare |
| `tick`, `recon` | where `dispatchOnce` is, and the rest of its `listDeclaredPendingApprovals` loop |
| `req` | approve and reject calls between their check and their answer |
| `sync` | the second commit of a synchronous segment that commits twice |
| `burning`, `used` | burn calls in flight; `used_tokens` |
| `jiaotu` | the requests of a card at the external gateway; the last one is what `external_approval_id` names |
| `effects` | how often the action took effect at the other service (an observation, no code reads it) |
| `aged`, `crashes` | cards past `APPROVAL_TTL_SECONDS`; the crash budget |

`HuntLoop`:

| variable | code |
|---|---|
| `hyp`, `rounds`, `cases`, `events` | `hypotheses`, `hypothesis_rounds` (what a record says about its round: blank, insufficient or sufficient), cases filed with this hypothesis, `outbox_events` of the case backend |
| `run` | `runs` with their `hunt_run_links`: `asked` and `parent` are what the launcher will link, `linked` whether it has; `at` the node; `no`, `prev`, `plan`, `judged` the graph state a later node reads |
| `cursor`, `autorun` | `event_cursors`; where `pollAutorunOnce` is |
| `relays`, `posted` | the relay's `inflight` set before and after the door has inserted the run; `posted` also holds the runs autorun and `dispatch` have launched and not yet linked |
| `heard` | `seen` of the child waiters |
| `board`, `stopping` | the cancel board; `requestCancel` between writing the board and the case backend |
| `stopped`, `crashes` | an observation: the board was written once; the crash budget |

`AlertLife`: `db` is the case backend (alert rows with status, verdict and advice; cases
with their alerts; outbox; `home` of an alert is the case its observables are filed under), `run` the agent's run rows with what a running node remembers
(`won` its claim, `cand` the merge target read earlier, `seen` the cases there were when it
asked, `made` the case it opened, `blind` an answer it could not use), `cursor` and
`polling` autorun, `overruled` and `cleared` observations of what analysts did.

`KbIntake`: `closed` the case.closed events in order, `entry` `kb_entries`, `index` the
documents in chroma, `run` the knowledge runs with their card, `cursor` and `polling`
autorun, `vetoed` an observation.

`CaseWork`: `rows` the observables in order of insertion with their marks and where each
came from, `timeline` the entries runs wrote, `work` the locals of each run, `served` and
`lookedUp` observations at the services.

`RunTrail` and `ChatRun`: `row`, `events`, `chain` the row, event rows and checkpoints of
the run; `drive` the invocation with its budget, lost in a crash; `browser` the
reconnecting event source with its cursor; `card` the run's card; `spent`, `acted`, `got`
observations. `Tickets`: `tokens` minted, `held` the ticket the graph was made with,
`approval` the cards, `burnt` and `burns` the ledger and the burns in flight, `gating`
executeApproved between its question and the gate, `call` and `opened` observations.

The variables of the smaller modules are commented where they are declared.

### Granularity

The agent service is one JavaScript thread over a synchronous SQLite. An action is what the
thread does from one await to the next. Awaits that are kept are the ones that wait for
another process: the mint, the burn lookup, the action, declare, the relayed decision,
fetchStatus, a node's calls. Awaits that only pass through a promise already resolved are
not interleaving points. A segment that commits once is one action, so a crash falls before
or after it. Three segments of `RunDispatcher` commit twice: run row then job row, decision
then resume job, driver's end then completeRunJob; a fourth, the sweep followed by the
claim, is split for the same reason. For these `sync` names the second commit, the rest of
the process waits for it, other services do not, and `Crash` may come in between. The sweep
of several cards is one action: a crash between two cards equals a crash when fewer cards
were overdue. A parked job goes from pending to done when it is claimed, because no other
step of the process can see it as claimed and a restart would put it back in either case
only before the claim.

In `HuntLoop` a node is entered and then awaits. Where its effect lies behind an await
(`startHunting`, the spin transition, `recordRound`, the verdict, the case), entry and effect
are two actions and the board, a cancellation or a crash may come in between. The relay
event is carried while the round that emits it is closing; the actions that close it are
`Relay`, `CloseSpun`, `CloseBroken`, `Converge` and `FileCase`. The link of a round is written
a few ticks after its row and its mint takes a network round trip, so `MintAnswers` waits
for the link; a task is minted before it is queued, so its intake may come before its link
and throw. The row of a task appears when its ticket is there; a crash before that leaves a
row that nobody reads.

In the worker models (`AlertLife`, `KbIntake`, `CaseWork`, `ChatRun`) every call of another
service is an action of its own, and a fault of that call comes with both outcomes: the
other side served it, or not. In the console an answer, a frame, a drawing and a tick of an
interval are actions; a frame is delivered only after the effect of the one before it ran,
and the detail and the audit rows of one reload are served at one moment. The guards are
threads, so recording, committing and handing out are three actions of each. The two
processes of the first agent share only their files.

### What is abstracted

- Data. Tickets, parameters, texts and reports are what later steps tell apart: a token's
  signature is whether it was sealed with the shared key, a hash of parameters is the
  parameters, the hash of a chained row is the tuple it covers, a text is what its scanners
  make of it. What a model answers is a choice among everything its consumer distinguishes.
- `RunDispatcher`: what the flow asks of a card is its run and, for kinds whose parameters
  are made anew by every start (the proposal id of `knowledge_flow`; constant
  `FreshParams`), the start that opened it. The L2 nodes of a run ask for the same tool and
  parameters; the production graphs have at most one per path. `GateDeny` stands for every
  refusal of the gate (the gate itself is `Tickets`); `GatePass` needs an unburnt token.
  `kb_write` performs its action in two outbound steps; it counts as one effect here and as
  two in `KbIntake`. A declare whose receipt is lost leaves a request at the gateway that no
  card names; it is not recorded. Budgets and the hash chain end as a node that throws; they
  are `RunTrail` and `RunChain`. Hunts (`ParkedRuns`) are one work node, which
  ends only after the tasks it has posted (`Children`; the wait has no time limit): the
  dispatcher only relies on their having no L2 node and not being awaited. Graceful shutdown waits for the
  batch and is a crash with nothing to lose.
- `HuntLoop`: planner and judge may come to any outcome; a plan may repeat the fingerprint
  of the last round if that round had tasks. Token counts are a choice: any model call of a
  round may exceed its budget or its time (`Overspends`). The analyst's reason is
  `user_cancelled`. The execute node of a task is one step, whichever of the stub or
  `workers/investigation/hunt-executor.ts` is wired.
- `HuntEvidence`: one round follows the other, and a call that fails ends the hunt;
  cancellation and crashes are left to `HuntLoop`. Prompt screening changes only the copy
  a model is shown.
- `CaseBackend`: of the observables only where they are filed. Opening a case moves those of
  its alert there (store.ts:430), a merge makes copies for its case, and active cases are found
  through what they hold (store.ts:739-751); so a case drops out of the answer when a
  second one is opened from its alert.
- `AlertLife`: all alerts are of one host and all cases younger than the merge window, so
  that every pair of alerts competes. `benign_true_positive` takes every path of
  `false_positive`.
- `ModelGateway`: what matters of a text is which values of the key it has in it, whole and as
  they are; one that was cut or encoded is not found by the scan and not told apart here. A
  request has three kinds of places: `visible`, where the scan looks, `declared`, where the
  placeholders are replaced and nothing is scanned, and `aside`, the names of fields, the path
  and the headers, where nothing is looked for. The agent may put whatever it was told into any
  of them.
- `SelfModify`: a proposal is source code. As far as its answers depend on the question alone,
  it may be any function (`Policies`: rules, and `whims`, questions it answers against them).
  Code that remembers what it was asked or changes what the runner calls is "unruly": it passes
  the static gate, which forbids imports and five calls (evolution.py:266-275), is executed in
  the runner's own process (sandbox_runner.py:39-43), and may have any lamps lit.
- `Tickets`: one run; seals of an external gateway are arbitrary; times to live are scaled
  to 1 and 2; any worker may ask for any tool in `Asked`; the tools are those of the
  manifest.
- Console: declared and joined frames are one kind; a relay or a conclusion in the stream
  counts as recorded when it was emitted; the list of hunts, a case link's lookup, and
  rounds refused for spin or a refused ticket, which name their run in the audit earlier,
  are left out. `told` and `blind` are observations of the answers.
- `Scenes`: the system is an adversary that may do any thing of its trade, up to `MaxDeeds`
  of them; what is modelled is the scene: its requests, waits, checks and what it takes
  down.

## 3. Model checking

| run | instance | what it shows | states |
|---|---|---|---|
| `dispatch_internal` | two queued runs, one of them with a ticket, a chat run; two cards decided here, one caller, two jobs per round, mints may fail, one crash | `IInv` (the inductive invariant of §4), `NoOrphanRun`, `EffectOnce`, `JobsMatchRuns` | 1.72 M |
| `dispatch_external` | a queued run with fresh parameters, two cards at the external gateway, two callers, one crash | `OneDriver`, `MirrorFollowsJiaotu`, the refinement `ImplementsApprovalOnce` | 285 k |
| `dispatch_live` | a queued run with fresh parameters and two cards at the external gateway, one crash; in behaviours of their own a parked hunt beside a task it waits for; two jobs per round, mints succeed | `NothingHangs`: no resume, run or card is left hanging | 67 k |
| `hunt_crash` | three rounds of one task, eight runs, faults, all kinds of overspending, one crash | `OneRoundAtATime`, the refinement `KeepsPromise` | 209 k |
| `hunt_stop` | two rounds of two tasks, seven runs, faults, overspending | `NoVainWait`; `HuntWindsUp`: nothing survives a cancellation, and without faults every hunt ends | 65 k |
| `alert_life` | two alerts, two runs; a fault and two interventions anywhere, or two touches of alerts and two of cases | `CasesStayWhole`, `FinalStays` | 2.19 M |
| `alert_live` | one alert, three runs for it; a fault and two interventions, or four interventions | `SoleTriager`, `EveryAlertJudged` | 709 k |
| `kb_intake` | one case, four runs, one thing done by hand, two faults | `IndexTellsLedger`, `OneDraftPerCase`, `IntakeSettles` | 158 k |
| `case_work` | two runs one after the other, an unmarked and a red alert, a value by hand, two steps of the loop | `StrictStaysInside`, `ReportsAreTrue`, `WorkEnds` | 245 k |
| `chat_run` | a question of an analyst, a duty lead or one who sees no tool, six steps, two tokens, a restart, a broken connection | `RowKeepsBooks`, `AnswersAsAsked`, `StreamDelivers` | 188 k |
| `side_by_side` | twelve parts, two or three of everything | `SpinMeansRepeat`, `VerdictRests`, `CallsAreCovered`, `GatesAgree`, `WorldAnswers`, `RevealsAreWhole`, `NoValueShown`, `EvaluationTells`, `OnlyVetted`, `SealsTell`, `ReleasedCures`, `ConfirmedEachTime` | 2.97 M |
| `pages` | three pages, two reads or polls at once, two rounds, one lost answer | `PageSettles`, `PollHeals`, `AnswerBelongs` | 535 k |

Some properties are conjunctions of parts with names of their own:

| property | its parts |
|---|---|
| `JobsMatchRuns` | a start job is its run's only one and fresh; a queued run somebody dispatched has a live start job |
| `NothingHangs` | unless the run was `Unheard`: `DecisionIsHeard`, and `RunEnds` if cards age; `RunEnds` of a hunt and its tasks in a living process; `MirrorSettles` |
| `HuntWindsUp` | a stopped hunt ends; unless a call failed, every hunt ends |
| `CasesStayWhole` | one case per alert; two open cases of a host only when two triages asked before either opened one, an answer was an error, or the observables of the older case had moved to another |
| `IndexTellsLedger` | `IndexedOnlyByCard`; what is searchable is approved in the ledger or was vetoed over REST while its card was open; a card that was rejected or expired keeps its entry out; a finished run has ledger and index as its card says |
| `FinalStays` | a final verdict stands until an analyst overrules it; a closed case does not change |
| `IntakeSettles` | every closed case is dealt with; every card ends its run |
| `RowKeepsBooks` | row and events tell the same; the budget survives a suspension |
| `StreamDelivers` | every event once and in order; the stream ends with the run |
| `SealsTell` | `HonestOrRefused` of the checkpoints, `ChainHolds` of the evidence |
| `EvaluationTells` | `SuiteTells` of the report, `ScenesTell` of the rigs |

### Bounds, and why they are enough for what is asked

- *Dispatcher.* Two drivers of one run need one restart, one batch of two jobs and two
  cards; a third card would need a third start, that is a second crash. Two callers are what
  arbitration is about, and a third meets the same decided card. One card more than a run can
  have in hand is present in every instance, so no action is disabled for want of an id in a
  state where the question is open. Cards are interchangeable ids and a symmetry set in the
  safety runs. The liveness run has one crash because that is what gives a run two cards and
  two drivers, and with them a resume request that finds one waiting (folded in), claimed
  (folded in) or done (a new one); it may fall anywhere but between a commit and the job that
  follows it, which strands the run (§5). Runs with cards and hunts with tasks are looked at in
  behaviours of their own (`Apart`): they share the rounds, and what the rounds do with a
  parked driver shows beside a task, which is what the hunt waits for.
- *Hunt.* Three rounds tell the last record from the one before it, two tasks allow one to
  fail beside another. `MaxRuns` holds every run of a full hunt, the round its limit refuses
  included, and one more where a crash may repeat a round. `hunt_crash` has one crash: two
  crashes may lose two links, and then the later round counts one link too few and its
  record overwrites an earlier one (§5). `OneRoundAtATime` and `NoVainWait` are proved for
  any number of crashes, `KeepsPromise` for at most one.
- *Alerts.* Two alerts of one host are what merging is about; two runs of one alert are what
  claiming is about, a third is the one relaunched after a failure. A fault and two
  acts of analysts can fall anywhere. That a case is lost with its observables takes
  four (its alert closed, a second case opened from it, that one taken up and closed), so four are
  allowed where no call fails.
- *Knowledge.* Four runs hold autorun's, one by hand, and one relaunched for each of two
  faults.
- *Case work.* A red and an unmarked alert share a value that an analyzer finds again; the
  second run sees what the first one wrote (`MaxActive = 1`; runs under way together share
  only `rows`, and the second starts from any state of the first that a kill leaves). Two
  steps are one call and a repetition, or a cut. The two safety properties are proved for any
  number of runs under way and of steps.
- *Copilot.* Six steps are a path through all nodes; two tokens are exceeded by two calls,
  one of them after the approval. `EMPTY_STREAK_LIMIT = 2` and one dropped connection make
  a browser give up, also early. `RowKeepsBooks` and `AnswersAsAsked` are proved for any budget,
  tools, roles and number of restarts.
- *Side by side.* Each instance is the smallest in which its hazard occurs: two plans in
  both orders and a third too long, two tokens and two runs, two checkpoints and two edits,
  four matrices (everything granted, a user and a family dropped, a family defined anew, one
  the self-check refuses), one edit of the memory file, two threads with one placeholder, two keys, one of them short, policies with up to
  two whims and one unruly source, two shells'
  worth of memory over one file, three entries, failures of every code. One shell suffices
  for the first agent, because the two processes share only the memory file, which is
  vetted alike by whoever loads it. A checkpoint edit never reseals or removes the last row and
  never puts a row back where it was sealed, which no reader could notice (§5). All properties
  of this run are proved without these bounds.
- *Pages.* Two slots let one read overtake another; two opens cover both hunts, or one and a
  cancellation; two rounds give a newer run to follow. `AnswerBelongs` is proved for
  any number of frames, cases and questions.

TLC checks deadlock in every run of the dispatcher: the loop of a living process always has
a next round. The other systems really stop (a hunt that is over, an analyst who is gone), so
their runs do not check deadlock; what must go on is in the liveness properties.

### Fairness

- `RunDispatcher` (`ProcessFairness`). The event loop runs what is ready: weak fairness for
  the second commit of a segment and for the loop. Strong fairness for the drivers and
  minting as a whole, because they are disabled again and again while a segment of the loop
  waits for its second commit, and a continuation that is ready is never passed over for
  ever. Every awaited call answers or fails: the clients have timeouts. `fetchStatus` of a
  request that has expired does not fail for ever (strong fairness per card, needed only by
  `MirrorSettles`). `Aging`, a hypothesis of `RunEnds`, lets time pass over every pending
  card. Approvers and crashes get no fairness. A process that died is
  started again (weak fairness of `Recover`): the compose file has no restart policy, so this is
  a hypothesis about whoever operates the service, and without it nothing is claimed after a
  crash. A node that waits for its children is not hurried (`Work`). Mints succeed in this run: with mints that fail for
  ever a resume fails for ever, which the code accepts.
- `HuntLoop`. Weak, for the launchers, for each run's own steps (the dispatcher gets to every
  queued run and every call answers) and for the consumption of a cancellation; none for the
  analyst and for faults. That every hunt ends is asked only of behaviours without a fault,
  because the code gives up when a call fails: a relay post that fails is logged and not
  repeated (relay.ts:8), a round that dies leaves its hypothesis hunting, and a cancellation
  the case backend refuses is audited and dropped.
- `AlertLife`, `KbIntake`. Autorun and the dispatcher poll on timers; each run's step is
  weakly fair, since its calls answer or time out, and a card nobody decides expires. People
  and faults owe nothing.
- `CaseWork`. Each run's chain is weakly fair: a call of the model or a service is answered or
  times out.
- `ChatRun`. `Drive` (the runner, its calls, the sweep of a lapsed card) and `Stream` (the
  push of the server and the reconnects of the browser) are weakly fair; the approver is not.
- `Pages`. At a page something goes on as long as an answer, a frame, a drawing or a tick of
  the interval is due (`HuntPageStep`, `CardPageStep`); which comes first is open. The hunt,
  the people and the runs behind the page may stop at any time.

## 4. Proofs

TLAPS checks the theorems below for every value of the constants: every set of runs, cards,
requests and alerts, every flow, batch size, limit, and every number of faults and crashes,
except where a hypothesis says otherwise. The assumptions are the `ASSUME`s of the modules
about their constants, and no others.

| module | theorem | what it says |
|---|---|---|
| `RunDispatcherProofs` | `TypeCorrect` | every table and every piece of process state keeps its shape |
|  | `InvHolds` | `IInv`, the inductive invariant below |
|  | `OneDriverHolds` | two executions never drive one run (`OneDriver`) |
|  | `EffectOnceHolds` | an approved action takes effect at most once (`EffectOnce`) |
|  | `EffectDecidedHolds` | what took effect was approved and stays approved |
|  | `ExpiryEndsRunHolds` | the run of an expired card is over for good |
|  | `PromiseHolds` | the dispatcher implements `ApprovalOnce` (`ImplementsApprovalOnce`) |
|  | `MirrorFollowsHolds` | the mirror of a card never says more than the external gateway decided (`MirrorFollowsJiaotu`) |
|  | `NoOrphanRunHolds` | no run stays running without a driver (`NoOrphanRun`) |
|  | `JobsMatchRunsHolds` | a queued run has its job, its request or its driver; a live start job is that of a queued run (`JobsMatchRuns`) |
| `HuntLoopProofs` | `HuntInvHolds` | `HuntInv`, the inductive invariant below |
|  | `OneRoundAtATimeHolds` | two rounds of a hypothesis are never at work together (`OneRoundAtATime`) |
|  | `NoVainWaitHolds` | no round waits for a task that cannot report (`NoVainWait`) |
|  | `KeepsPromiseHolds` | the hunt implements `HuntPromise` (`KeepsPromise`), given at most one crash |
| `AlertLifeProofs` | `AlertInvHolds` | the inductive invariant below |
|  | `SoleTriagerHolds` | one run wins the claim of an alert (`SoleTriager`) |
|  | `CasesStayWholeHolds` | an alert is in one case, and open cases of a host are split only by the known race, a misread error, or observables that moved away (`CasesStayWhole`) |
|  | `FinalStaysHolds` | no step moves a final verdict or touches a closed case (`FinalStays`) |
| `KbIntakeProofs` | `KbInvHolds` | the invariant below |
|  | `IndexTellsLedgerHolds` | what is searchable was approved on its card and in the ledger, or vetoed over REST while the card was open; a finished run left both as its card says (`IndexTellsLedger`) |
|  | `OneDraftPerCaseHolds` | autorun never makes two drafts of one case (`OneDraftPerCase`) |
| `CaseWorkProofs` | `CaseInvHolds` | `CaseInv`, the inductive invariant below |
|  | `StrictStaysInsideHolds` | no value goes out but under marks that allow it (`StrictStaysInside`), for any number of runs under way |
|  | `ReportsAreTrueHolds` | reports cite what served the run and say when they were cut; tallies add up (`ReportsAreTrue`) |
| `ChatRunProofs` | `ChatInvHolds` | `ChatInv`, the inductive invariant below |
|  | `RowKeepsBooksHolds` | row, events and spending tell the same, over suspension and restart (`RowKeepsBooks`) |
|  | `AnswersAsAskedHolds` | one answer; no tool called but as the role sees it and the card allows it (`AnswersAsAsked`) |
| `SideBySideProofs` | `TicketsTypeCorrect` | every token in any hand was minted |
|  | `CallsAreCoveredHolds` | no call goes ahead without a token minted for it, an approval opens one call (`CallsAreCovered`) |
|  | `GatesAgreeHolds` | the verifiers in TypeScript and Python decide alike (`GatesAgree`) |
|  | `VerdictRestsHolds` | a verdict rests on the last round and on reports beside their own tasks (`VerdictRests`) |
|  | `SpinMeansRepeatHolds` | a hunt spins exactly when its planner repeats itself (`SpinMeansRepeat`) |
|  | `WorldAnswersHolds` | a set-up world answers as its matrix says (`WorldAnswers`) |
|  | `RevealsAreWholeHolds` | what was handed out anonymized can be looked up by those who may (`RevealsAreWhole`) |
|  | `NoValueShownHolds` | no string that is scanned takes the present key to the model if it has eight characters (`NoValueShown`) |
|  | `OnlyVettedHolds` | no memory edited without its hash is told; no tool runs out of scope (`OnlyVetted`) |
|  | `ReleasedCuresHolds` | a released policy that answers by the question alone stops what fails and waits out what recovers (`ReleasedCures`) |
|  | `SealsTellHolds` | an edited run is not resumed, an edited chain does not verify (`SealsTell`) |
|  | `EvaluationTellsHolds` | the report tells the story of the tests, a green scene of a promise kept (`EvaluationTells`) |
|  | `ConfirmedEachTimeHolds` | a call that destroys is executed once per confirmation (`ConfirmedEachTime`) |
| `PagesProofs` | `AnswerBelongsHolds` | what stands under a question is the answer to it, whole unless it failed (`AnswerBelongs`) |

### Dispatcher

`EffectOnce` is not inductive: an unmarked card with an effect could be picked up by a second
driver. What prevents it is that the effect is *accounted for* (`EffectIsAccounted`): the
card is marked, or its run is over, or the run was running when the process died and recovery
will fail it, or its driver still awaits the answer. That needs the driver to be the only one
(`OneDriver`), which needs the run's status to act as a lock: a driver enters only over a
transition to `running`, and nobody else may take the run out of `running` while it is inside.
The TTL sweep could, since it fails runs that are running; it never does under a driver
because rounds are serial (`RoundsAreSerial`): while the loop sweeps or reconciles, no driver
it awaits is under way. Two kinds of drivers are not awaited. Parked runs own no cards
(`CardsAreOwned`, from the assumption on flows), and a chat request is its run's first
execution, which has no card until it suspends (`ChatStartsBare`). `HandIsGood` carries what a
driver read before the lookup across its awaits: still its run's card, approved, unexecuted,
without an effect yet. `DownIsQuiet` says a dead process drives nothing. Together these are
`IInv`.

The refinement to `ApprovalOnce` is a step simulation under `IInv`: an effect is an abstract
step only if the card is approved, its run lives and it had none. `MirrorInv` adds what a call
in flight knows of its request (`CallsKnowJiaotu`). `DrivenInv` adds to `IInv` that a parked run
has one start job in its life (`ParkedStartsOnce`): two drivers of one parked run would leave
one running without an owner. `JobsInv` adds what a start job tells of its run: it is the only
one and claimed before its driver awaits (`StartTells`, `StartsTell`), only runs that had a card
are resumed (`LateTell`), a dispatched queued run with a job has a live start job
(`QueuedHasJob`), and the process is down only after a crash (`DownAfterCrash`).

### Hunt

`HuntInv` is `TypeOK`, what a row tells of its launcher (`RowsTell`), that a child is linked or
its launcher is still about to link it (`ChildrenTold`), and `OneRoundLives`: of all rounds,
announced relays and launches under way at most one lives. The last is the crux: the guard of
autorun asks for live runs of the hypothesis, and the relay is emitted by a round that does
nothing after it, so whoever announces the next round is the one that is leaving.

The refinement to `HuntPromise` needs the number of a round. `Books` says that the records are
as many as the rounds that recorded (`RoundsTell`), what the hypothesis and the cases tell of
the last record (`HypTells`), what relays and launches carry (`RelaysTell`, `PostedTell`), and
that the number a waiting round will read, from its link or by counting links, is one more than
what is recorded (`Numbered`). Before the first crash every round is linked in time; a crash may
lose one link, and the next round, which counts links, still counts right. A second crash may
lose a second one: `MaxCrashes <= 1` is a hypothesis of that theorem, and §5 has what happens
otherwise.

### Alerts

`SoleTriager` counts winners of a claim. `PlacesTell` and `WinnerHolds` say what a run at a node
knows and that a winner's alert carries its verdict or waits for it; `Numbered` ties the runs'
memories to cases that exist. `CasesStayWhole` needs the history of both sides: a case that a run
opened has that run's alert (`CaseHistory`), a run that found no case asked when there were
`seen` of them, of which each was closed or held no alert's observables any more, and an alert is
linked only after its triage decided (`LinkedLate`). `FinalStays`
is an action property: `CloseRemembers` gives the close path the verdict it confirms.

### Tickets

`CallsAreCovered` says that each call that went ahead was covered by a ticket or by one approval,
used once. It is inductive with what makes tokens narrow (`TicketsAreNarrow`: a task ticket carries
no approval, an approval token one tool and one set of parameters, from a card of this run) and
that a call under an approval is counted, and burnt or about to be (`OpenedOnce`).

### Console

`AnswerBelongs` rests on a lock: `send()` writes to whatever exchange is the last one, so the answer
under way must be the one to the last question. `OneStream` says that the input is locked while an
answer is under way, that there is but one and that it answers the last question, and how many frames
of it were given out of how many half frames read. `Written` says that an exchange holds the
first frames of its answer, and when its stream is gone without an error, all of them. Assumed: an
answer has at least one frame, its `done`.

### Knowledge base

`IndexInv` (`Shape`, `CardTold`, `IndexedOnlyByCard`) follows an approval from the card to the
index: a run that writes has an approved card for the entry it carries. `LedgerInv` follows it
through the ledger: every card is about an entry of its own (`CardHasEntry`, `CardsApart`), a run
goes the way its card was decided (`DecisionTold`), an entry whose card was approved is rejected
only by a reviewer (`RejectedWhy`), the ledger is written before the index (`WrittenFirst`,
`IndexedDecided`), and a run is over only when both are (`CompletedTold`). `DraftInv` follows an
event: at most one run that autorun launched may still propose for a case (`OneRunToPropose`), no
entry before it (`NoDraftBefore`), and an answer that no entry exists stays true while autorun
acts on it (`AnswerStands`).

### Case work

`StrictStaysInside` speaks of values, the code decides by rows: what a run sends out is a row,
and another row may hold the same value under other marks. `CaseInv` therefore says where each
row came from (`RowsTell`: an alert's row has the marks of a linked alert, an analyzer's row was
the first of its value), that what was sent is a row whose own marks allow it (`SentLoose`, which
stays true because a row is never changed and rows are only appended), and per run that what its
report may cite was served to it and how far its tally is (`RunsTell`). The tally is the part that
is not obvious: it is made of two branches and a loop that may be cut short by a kill between a
lookup and its item, so it counts rows below a cursor (`DoneWith`) and not items.

### Copilot

A question may be suspended before its action and go on in another process, which has only the row,
the events and the sealed checkpoints. `ChatInv` says what these know of one another: what a drive
counts is what it sealed and spent, and the row has it whenever no node is under way (`Account`);
the state in hand is the last sealed one until a node changes it, its role is that of the launch,
and what passed the gate is visible to that role (`Handed`); the approved action is done once, by
the drive that stands at it (`ActedOnce`); an answer is given exactly when there is one `done`
(`Ends`); every call so far was asked for (`AskedFor`); the last telling event has the row's status
(`TrailMatchesRow`). `Opening` is there for one event: the lookup of the context calls `get_alert`
whatever the role may see, and it is the fifth event of the run.

### Side by side

A step of the product is a step of one part and leaves the variables of the others alone, so an
invariant of a part is one of the product, whatever the other parts do.

- `VerdictRests`, `SpinMeansRepeat`. `HuntInv` is `VerdictInv` and `PlanTells`. `VerdictInv` says
  that the waiter has heard as often as a child ended (`HeardTells`), so that it leaves its wait only
  when all have; that the children are those of the tasks and the reports theirs in order
  (`KidsTell`), whichever ended first; that before the judge there is neither report nor judgement
  (`EarlyTells`); that a sufficient judgement in hand is that of the last record once it is written
  and what the hypothesis ends with (`JudgeTells`); and that what is filed is that judgement with the
  hashes of those reports (`FiledTells`). `PlanTells` carries the fingerprint of the last round to the
  next dispatch. That equal fingerprints are equal multisets of tasks (`BagsTell`) is shown on the
  smallest number of tasks for which it would fail.
- `WorldAnswers`. `TuplesTell` says which pairs the matrices laid may have left in the store, and
  that a matrix laid alone is all there; `SetupTells` what the script may rely on after its writes:
  what it will delete holds every pair that is too much and none that is asked for; `AnswersTell`
  that an answer rested on the matrices laid at its moment.
- `RevealsAreWhole`. What a thread recorded is in the table or in the open transaction, what it
  committed or handed out is in the table (`Recorded`); what a question is owed was handed out before
  it (`Owed`); what was shown is whole and posted (`ShownTell`), as are refusals, which name only
  readers without the right (`DeniedTell`).
- `NoValueShown`. A request holds placeholders and what the agent was told, in whichever of its
  places, and one at the model was recorded with its key (`LineTells`); what reached the model has no
  long value of its own key in a scanned string, in its declared places nothing but that value and
  what the agent was told, and nobody was told a value before a request went out under it
  (`ReachedTell`); a request has no line while it is under way and one true line when it is over (`TrailTells`).
- `OnlyVetted`. `MayLie` says what may lie in a file, `Clean` what may be in a process, and
  `ShellTells` that a call in hand passed the judge for the task in hand.
- `ReleasedCures`. `LadderTells`: while nobody edited the runner, the lamps are some the ladder
  may light for the candidate, and both snapshots show the honest runner. For a policy that answers
  by the question alone these are the lamps of `Validate`, and the rest is arithmetic on its answers;
  of an unruly source nothing follows but that it was not the control and passed the gate.
- `SealsTell`. For the evidence (`TailTells`): an entry names the calls before it, edited or not,
  and the last one is the last call; a chain that verifies is whole, by its least misplaced entry.
  For the checkpoints (`SealsInv`): the rows of a run are those put (`AsPut`), or the run was edited
  and stays `Spoilt` through further edits, transplants and honest puts. That edits do not undo each
  other is what bounded checking could not show.
- `EvaluationTells` has a half for the suite and one for the scenes. `SuiteInv` ties the three lists
  the suite keeps to one another: the k-th test has the colour its evidence deserves, every case has
  at most one result, made of that evidence (`EnteredAs`), and a case without one is red because its
  run broke. The counts of the report are then cardinalities of one and the same set of cases, seen
  through the injection from results to cases; that the weakest family is the worst uses that a
  finite set of numbers has a greatest member. `SceneInv` holds what the log says beyond the checks:
  what was asked twice (`AskedTwice`), that cards of a scene are those its requests allow
  (`LogTells`), and that what is put up is a part of the rig (`StageTells`). The rest is what each
  scene's checks imply (`GreenKeeps`): a chain of three audit rows in order is one card, its approval
  and then its execution, because the places of a finite set are numbered without gaps
  (`PlacesAreNumbered`); a matrix whose refused and allowed cells have the right numbers is refused
  and allowed in the right cells (`CellsAreCounted`).
- `ConfirmedEachTime` is inductive with its types.

Assumed of the constants: a planner's menu is of the finite manifest, cases, evidence and map
entries have the fields the loader gives them, a user has one role, a matrix grants only families it
defines, a plan is a sequence, a call is tried at least once, and the numbers are numbers.

### Only model-checked

All liveness (`NothingHangs`, `HuntWindsUp`, `EveryAlertJudged`, `IntakeSettles`, `WorkEnds`,
`StreamDelivers`, `PageSettles`, `PollHeals`), which the prover cannot express with its
fairness.
Every safety property, action property and refinement that a run checks is also a theorem. What a
recursive function computes for every input stays out of reach of the prover's induction, except
where a least counterexample serves in its place, as it does for `BagsTell` and `VerifiedIsWhole`.

## 5. Where the code and its words disagree

None of these is a run that must end in a violation; each is reached by a model here or was met
while writing one, and the models follow the code.

Dispatcher, cards and budgets

- run-dispatcher.ts:170: a crash after a run suspended and before its start job was completed
  has recovery requeue the job although the run is past `queued`, and the next round starts the
  flow from its first node again; the comment says such jobs are completed. Safety holds all the
  same (`OneDriver`, `EffectOnce`); work is repeated, and a replayed start may declare a card a
  second time, the second external id overwriting the first (graph.ts:482).
- app.ts:255: a chat request whose mint fails answers 502 and leaves its run `queued` for ever;
  see the comment at app.ts:235.
- run-dispatcher.ts:68: the deduplication of resumes can lose one. A start job replayed after a
  crash opens a card while the run's claimed resume driver, which has read the cards before, awaits
  the receipt of a card of its own; the last card is decided, the request is folded into the job of
  that driver, and the driver suspends the run again with nobody to wake it. lessons/scenario/4-7.md:366-371
  says the deduplication belongs there because a run need not be woken twice
  ("同一个 run 不需要醒来两次"). `NothingHangs` excepts such runs by name (`Unheard`).
- app.ts:685: a crash between a decision and its resume job strands the run: the sweep only looks
  at pending cards and a second decision is refused.
- run-dispatcher.ts:304: a parked run claimed and awaiting its ticket when the process dies stays
  `queued` without a job.
- run-dispatcher.ts:147: recovery fails the runs of the dead process one by one; who watches them
  is told by the event, not by the row.
- orchestration/flow.ts:61: the clock of a round is looked at when a node is entered only, so a parent
  that hangs in its wait is not killed, against lessons/scenario/9-4.md:322 ("round_timeout 120s 强杀").
- graph.ts:508: `approval_declare_failed` is emitted as an `error` event, which
  `isTerminalSseEvent` (sse.ts) takes for the end of the run; an expired card's last event is no
  terminal event at all; and a browser gives up after `EMPTY_STREAK_LIMIT` empty connections on a
  run that merely waits for an approval.
- workers/investigation/flow.ts:439-450: what a late answer or an exceeded budget raises inside
  `observe()` is swallowed as an error of the tool, against budget.ts:5.

Hunt

- cancel.ts:112: the cancel board is in memory: a hunt is cancelled, the process restarts, and a
  task that was queued is executed.
- relay.ts:49: a relay post that is lost leaves the hunt without a run (accepted at relay.ts:8).
- orchestration/flow.ts:81-85: two links lost in two crashes make two rounds number themselves
  alike and one record is written over another ("两条路殊途同归，轮号漂移会在轮次归集处暴露").
- cancel.ts:163: the round beyond the limit that lost its link derives its number and is refused,
  but the cancel mechanism only listens to linked rounds: the hypothesis stays hunting.
- `planner_failed` rounds that alternate with good ones never make a hunt `planner_broken`; the
  transition of a hypothesis takes any reason, its type four; a real judge may find reports that
  all failed sufficient (llm-stubs.ts:28).

Alerts, cases, knowledge

- run-dispatcher.ts:166 "可重拉": a triage that failed keeps its claim, and the relaunched run
  takes the alert for claimed.
- store.ts:430, 739-751 of the case backend: opening a case from an alert that was closed
  takes the observables out of the alert's earlier case, which `findActiveCases` then no longer finds;
  once the second case is closed, a further alert of the host opens a third beside the first, which is
  open.
- workers/triage/flow.ts:131: an error answered to the claim completes the run as skipped.
- store.ts:571 of the case backend: `closeAlert` overwrites a final verdict.
- close.ts:83: a second confirmation reopens a closed alert through the pickup patch.
- workers/knowledge/flow.ts:208: a 409 of the ledger counts as decided, so an entry that a reviewer
  rejected over REST while its card was open is indexed when the card is approved. `vector-store.ts:18-20`
  says no path writes a proposed or rejected entry, workers/knowledge/flow.ts:12 that a rejected one
  is never retrieved. `IndexTellsLedger` excepts exactly these entries.
- A knowledge run for a case that is still open completes as skipped and then keeps autorun from
  launching one when the case closes (`run_exists`); an expired card leaves its entry proposed,
  which keeps a relaunch away (`kb_exists`).
- The model may write an entry `investigation_report` into the timeline itself; nobody validates it.

Copilot and tickets

- workers/chat/flow.ts:63 says the read-only tools are all the intent gate may let execute; it
  also lets L0 tools pass that are not on the ticket, which then refuses them.
- workers/chat/flow.ts, load_context: the alert of the context is fetched with `get_alert` without
  asking what the role may see (`OfContext` in `ChatRunProps`).
- After a resume the execute node emits its token "已提交审批卡" again; `done` ends the browser's
  stream before the last audit event.
- verify-ticket.ts:264 (note at 250) and the Python verifier: neither looks at the tool of an
  approval; the gate does. The Python side raises `KeyError` on a token without exp or jti.
- token-ports-jiaotu.ts:125: an answer 200 without a boolean `burned` reads as unburnt.

Console

- HuntingPage.tsx:19-20 promises what the last reload often cannot show: the next round's anchor
  is written later. A late answer of another hunt without anchors stays; an older answer of the
  same hunt may leave an older detail; the link to a case may be another hunt's; `live.joined` is
  merged by round number of whichever run is followed; a reload of the audit after unmounting
  opens a stream nobody closes.
- ApprovalsPage.tsx:69: under the filter "pending" a decided card is never read again; `deciding`
  is one id.
- CasePage: a late load shows another case's detail, and exchanges are not reset with the case.
- AlertsPage: `confirming` is one id.

Services around

- setup_openfga.py "多的删": a role dropped from the matrix keeps its grants; between the two
  calls an answer may grant what neither matrix grants, and a dropped family keeps its tools, so that
  once it is defined anew the next setup grants for a moment what no matrix it lays ever did; the self-check runs on the live store.
- proxy.py: a body that is not an object is forwarded unscanned, as are secrets below eight
  characters (93-94), keys of objects (108-112), headers, and whatever stands in a declared place,
  for example in `metadata` (79-83, 115-117); after a rotation the old key is not looked for; a read timeout
  is audited as denied although the model had the request.
- app.ts:693ff "每查必审计": the audit post of a reveal is not awaited and may be lost; a placeholder
  reveals everybody's originals of its kind; the shared connection commits other threads' rows.
- injection_scan.py:127: lines are stripped one by one, so a hit across lines may remain.
- The hash of a checkpoint has no key, so whoever rewrites a row and all behind it, or the last
  one, is not noticed, nor is a row of a deleted run that is put back where it was; `checkpoint_writes` carry no seal; `put` does not verify.

Evaluation and the smaller agents

- A case whose run throws is red but missing from the totals of `latest.json`; a sandbox without
  an envelope after its probe is a green skip; `evalSignatures` may take another task's report of
  the same tool and round (purple.ts:161-181); accuracy counts unlabelled cases as correct.
- double_decide looks neither at the first answer nor at executions; rag_poison searches a store
  nothing ever fills; forged, login and investigation close their app only when all went well;
  inv11_matrix never stops its relay; l2_privesc leaves its directory; triage.ts sets the canary
  before its try ("金丝雀只在布景里活一瞬间").
- agent.py:104 "改任何一条…": the last entry resealed, or the tail dropped, is not noticed, and two
  processes appending at once raise a false alarm. The memory's hash covers the content only; tool
  messages are not scanned on load; a memory without a seal is loaded and saved sealed.
- The experiment: a runner edited after its second snapshot, and policies that differ at points
  nobody tries (attempts above 3, failures from 6), pass; a single retryable failure in the
  evidence blocks every release. And a source that keeps state or rebinds what the runner calls can
  have every lamp lit and cure nothing: evolution.py:266-275 forbids only imports and five calls, and
  sandbox_runner.py:39-43 executes the candidate in the runner's own process. The comment there calls the
  gate a quick sieve and no boundary; the container protects the host, not the verdict.
- confirmation_gate.py: a token shown with another call is burnt, and issuing it again revives the
  same token.

## 6. Not modelled

- Python classifiers of text (which words count as an injection or as personal data), the wording
  of prompts, reports and pages.
- Login and sessions, the read-only listings of the agent and the case backend, the rows of the
  audit and task tables, the failure audit of ingest.
- The alerts, audit and pipeline pages of the console, and its layout.
- `scripts/bench` (load scripts that measure and keep nothing), fixtures, the course notes and the
  lesson pages, and the exercises that stand alone and keep no state.
- Cost and time: how long a call takes is one of its outcomes.

What would extend this development next: the remaining pages of the console, and login with its
sessions.
