----------------------------- MODULE SelfModify -----------------------------
(***************************************************************************)
(* The experiment in which an agent repairs its own retry policy: failed   *)
(* trajectories are diagnosed, a generator proposes a new policy, and a    *)
(* ladder of checks outside the model, the last of them in a container,    *)
(* decides whether it may go to a canary (evolution.py, sandbox_runner.py, *)
(* candidate_sandbox.py and run_experiment_9_6.py of the replica).  Files  *)
(* the decision rests on may be edited meanwhile.                          *)
(***************************************************************************)
EXTENDS Naturals, Sequences, FiniteSets, FiniteSetsExt

CONSTANTS
  Trajectories,  \* sets of trajectories: [id, code, retryable, attempts, failed]
  Thresholds,    \* of the circuits a generator may propose
  Caps,          \* of the retries
  Whims          \* sets of questions a proposal answers the other way round than its rules say

\* a trajectory is of a tool that was called
ASSUME EvolveAssumption ==
  /\ \A e \in Trajectories : \A i \in e : i.attempts \in Nat \ {0} /\ i.retryable \in BOOLEAN
  /\ Thresholds \subseteq Nat /\ Caps \subseteq Nat

Codes == {"PAYMENT_DECLINED", "AUTH_DENIED", "TEMPORARY_TIMEOUT"}

\* A policy whose answers depend on the question alone, by what it heeds: the codes it
\* never retries, the flag, how often it retries, whether what is not retried opens the
\* circuit at once, the failures in a row that open it, and its whims, with which it may
\* be any such policy; and by the form of its source.
Policies ==
  [form : {"good"}, codes : SUBSET Codes, flag : BOOLEAN, cap : Caps, atOnce : BOOLEAN,
   threshold : Thresholds, whims : Whims]

StablePolicy ==
  [form |-> "good", codes |-> {}, flag |-> FALSE, cap |-> 3, atOnce |-> FALSE, threshold |-> 5, whims |-> {}]

Permanent(p, code, retryable) == (p.flag /\ ~retryable) \/ code \in p.codes

ShouldRetry(p, code, retryable, attempt) ==
  ~Permanent(p, code, retryable) /\ attempt < p.cap <=> <<"retry", code, retryable, attempt>> \notin p.whims

ShouldOpenCircuit(p, n, code, retryable) ==
  (n >= IF p.atOnce /\ Permanent(p, code, retryable) THEN 1 ELSE p.threshold)
    <=> <<"open", code, retryable, n>> \notin p.whims

\* A source that does not compile, one that imports, one with other parameters, and one
\* that remembers what it was asked, or changes what the runner itself calls: the gate
\* forbids imports and five calls, and the runner executes the source in its own process.
Misshapen == {[StablePolicy EXCEPT !.form = f] : f \in {"broken", "imports", "other_api", "unruly"}}

VARIABLES
  phase,     \* of the experiment
  evidence,  \* the trajectories it was given
  candidate, \* the proposal, with its generator, if there is one
  runner,    \* what the container runs: "honest", or edited so that all is well
  snapshot,  \* the runner before and after the proposal
  lamps,     \* what the validation answered: the checks that are lit
  decision

evolveVars == <<phase, evidence, candidate, runner, snapshot, lamps, decision>>

Failures == {i \in evidence : i.failed}

\* at least two failures of one code that must not be retried and were
Diagnosed ==
  \E code \in Codes :
    Cardinality({i \in Failures : i.code = code /\ ~i.retryable /\ i.attempts > 1}) >= 2

\* the fixed repair; with nothing to repair, the policy as it is
GenerateCandidate ==
  IF Diagnosed
  THEN [StablePolicy EXCEPT !.codes = {"PAYMENT_DECLINED", "AUTH_DENIED"}, !.flag = TRUE, !.atOnce = TRUE]
  ELSE StablePolicy

\* the control that retries nothing
RejectedControl ==
  [StablePolicy EXCEPT !.codes = {"AUTH_DENIED"}, !.flag = TRUE, !.cap = 0, !.atOnce = TRUE]

-----------------------------------------------------------------------------
(* the ladder *)

SandboxChecks ==
  {"public_api_compatible", "failure_replay", "nonretryable_circuit", "temporary_recovery",
   "old_task_regression", "canary_ready", "rollback_ready"}

CheckNames == {"static_compile", "security_scan", "sandbox_execution"} \cup SandboxChecks

Retried(p, attempt) == ShouldRetry(p, "TEMPORARY_TIMEOUT", TRUE, attempt)

TemporaryRecovery(p) == Retried(p, 0) /\ Retried(p, 1)

FailureReplay(p) ==
  /\ Failures # {}
  /\ \A i \in Failures : \A k \in 0 .. i.attempts - 1 : ~ShouldRetry(p, i.code, i.retryable, k)

\* a fault: nobody asks for the end of the retries
OldTaskRetries(p) ==
  /\ Retried(p, 0) /\ Retried(p, 2)
  /\ ~ShouldOpenCircuit(p, 4, "TEMPORARY_TIMEOUT", TRUE)
  /\ ShouldOpenCircuit(p, 5, "TEMPORARY_TIMEOUT", TRUE)

OldTaskRegression(p) ==
  /\ Retried(p, 0) /\ Retried(p, 2) /\ ~Retried(p, 3)
  /\ ~ShouldOpenCircuit(p, 4, "TEMPORARY_TIMEOUT", TRUE)
  /\ ShouldOpenCircuit(p, 5, "TEMPORARY_TIMEOUT", TRUE)

CanaryReady(p) ==
  /\ ~ShouldRetry(p, "AUTH_DENIED", TRUE, 0) /\ ShouldOpenCircuit(p, 1, "AUTH_DENIED", TRUE)
  /\ TemporaryRecovery(p)

\* what the container answers; of the stable policy it asks whether one can go back
Validate(p) ==
  IF p.form = "other_api" THEN {}
  ELSE {"public_api_compatible"}
       \cup {c \in {"failure_replay"} : FailureReplay(p)}
       \cup {c \in {"nonretryable_circuit"} :
               Failures # {} /\ \A i \in Failures : ShouldOpenCircuit(p, 1, i.code, i.retryable)}
       \cup {c \in {"temporary_recovery"} : TemporaryRecovery(p)}
       \cup {c \in {"old_task_regression"} : OldTaskRegression(p)}
       \cup {c \in {"canary_ready"} : CanaryReady(p)}
       \cup {c \in {"rollback_ready"} : Retried(StablePolicy, 0) /\ ~Retried(StablePolicy, 3)}

\* what comes out of the container with p in it: an unruly source has its own say
ContainerSays(p) ==
  IF runner = "edited" THEN {SandboxChecks}
  ELSE IF p.form = "unruly" THEN SUBSET SandboxChecks ELSE {Validate(p)}

\* A candidate is run in the container only behind the static gate, and of a container
\* that gives no answer every lamp stays dark.
ValidateCandidate(p) ==
  IF p.form = "broken" THEN {{}}
  ELSE IF p.form = "imports" THEN {{"static_compile"}}
  ELSE {{"static_compile", "security_scan"}}
       \cup {{"static_compile", "security_scan", "sandbox_execution"} \cup says : says \in ContainerSays(p)}

-----------------------------------------------------------------------------

EvolveInit ==
  /\ phase = "start" /\ evidence \in Trajectories /\ candidate = {} /\ runner = "honest"
  /\ snapshot = << >> /\ lamps = {} /\ decision = {}

EditRunner ==
  /\ runner = "honest" /\ runner' = "edited" /\ phase # "done"
  /\ UNCHANGED <<phase, evidence, candidate, snapshot, lamps, decision>>

SnapshotBefore ==
  /\ phase = "start" /\ phase' = "propose" /\ snapshot' = <<runner>>
  /\ UNCHANGED <<evidence, candidate, runner, lamps, decision>>

\* A language model may propose any source.
Propose ==
  /\ phase = "propose" /\ phase' = "proposed"
  /\ \/ candidate' = {[by |-> "rule", policy |-> GenerateCandidate]}
     \/ candidate' = {[by |-> "control", policy |-> RejectedControl]}
     \/ \E p \in Policies \cup Misshapen : candidate' = {[by |-> "model", policy |-> p]}
  /\ UNCHANGED <<evidence, runner, snapshot, lamps, decision>>

SnapshotAfter ==
  /\ phase = "proposed" /\ phase' = "compare" /\ snapshot' = Append(snapshot, runner)
  /\ UNCHANGED <<evidence, candidate, runner, lamps, decision>>

RunLadder ==
  /\ phase = "compare" /\ phase' = "decide"
  /\ \E c \in candidate : lamps' \in ValidateCandidate(c.policy)
  /\ UNCHANGED <<evidence, candidate, runner, snapshot, decision>>

ReleaseManifest ==
  /\ phase = "decide" /\ phase' = "done"
  /\ \E c \in candidate :
       decision' = {IF c.policy # StablePolicy /\ lamps = CheckNames /\ snapshot[1] = snapshot[2]
                    THEN "release_to_canary" ELSE "reject_candidate"}
  /\ UNCHANGED <<evidence, candidate, runner, snapshot, lamps>>

EvolveNext ==
  \/ SnapshotBefore \/ Propose \/ SnapshotAfter \/ RunLadder \/ ReleaseManifest \/ EditRunner

-----------------------------------------------------------------------------

Released == decision = {"release_to_canary"}

\* the calls made of a tool that fails with i under p (_metrics)
CallsMade(p, i) ==
  Min({n \in 1 .. i.attempts : n = i.attempts \/ ~ShouldRetry(p, i.code, i.retryable, n - 1)})

\* a tool that times out n times and then answers is waited for
Recovers(p, n) == \A k \in 0 .. n - 1 : Retried(p, k)

\* A policy whose answers depend on the question alone, released by a runner nobody
\* edited, makes one call of each tool in the evidence that failed, and opens the circuit
\* on it, but still waits out three timeouts in a row and no fourth, and on evidence in
\* which a timeout counts as a failure none is released.  Of a source that remembers, or
\* that reaches into the runner, the lamps show nothing: it may be released and cure
\* nothing.  But none is ever that does not compile or that imports, and none over a
\* runner edited between the snapshots; the control is not, nor the fixed repair where
\* nothing was diagnosed, while that repair passes wherever all failures are ones it
\* heeds and the container answers (sandbox_runner.py:39-127, evolution.py:104-150,
\* 266-311).
ReleasedCures ==
  /\ Released /\ runner = "honest" => \A c \in candidate :
       /\ c.policy.form = "good" =>
            /\ \A i \in Failures : CallsMade(c.policy, i) = 1 /\ ShouldOpenCircuit(c.policy, 1, i.code, i.retryable)
            /\ Recovers(c.policy, 3) /\ ~Recovers(c.policy, 4)
            /\ ~\E i \in Failures : i.code = "TEMPORARY_TIMEOUT" /\ i.retryable
       /\ c.policy.form \in {"good", "unruly"}
       /\ c.by # "control" /\ (c.by = "rule" => Diagnosed)
  /\ Released => /\ snapshot[1] = snapshot[2]
                 /\ \A c \in candidate : c.policy.form \notin {"broken", "imports"}
  /\ phase = "done" /\ ~Released /\ runner = "honest" /\ "sandbox_execution" \in lamps /\ Diagnosed
     /\ (\A i \in Failures : ~i.retryable) => ~\E c \in candidate : c.by = "rule"

=============================================================================
