-------------------------- MODULE EffectivenessGate --------------------------
(***************************************************************************)
(* The deterministic arithmetic and decision rules of the test             *)
(* effectiveness assessment (effectiveness.py): how mutation outcomes are  *)
(* counted into a score, and how the Mutation Gate turns a score, a run,   *)
(* the survivor links and the signals into one of four decisions.          *)
(*                                                                         *)
(* Scores are integers: the code rounds killed/eligible half up to four    *)
(* decimals, here a number of Quantum-ths.  A policy threshold is any      *)
(* finite decimal in [0, 1]; it is a number of ThresholdScale-ths, one     *)
(* digit finer than the score so that the rounding can be seen.            *)
(***************************************************************************)
EXTENDS Integers, FiniteSets

Outcomes            == {"killed", "survived", "timeout", "error", "not_run"}
ProcessStatuses     == {"completed", "partial", "unavailable", "error", "not_run"}
ObservationStatuses == {"complete", "partial", "unknown"}
MappingStatuses     == {"verified", "unverified", "unmapped"}
Severities          == {"critical", "high", "medium", "low"}
Decisions           == {"incomplete", "fail", "warn", "pass"}

Quantum        == 10000
ThresholdScale == 100000

\* A score that was not computed and a threshold that was not given (None).
NotComputable == -1
NoThreshold   == -1

\* Mutant: rounding down.
RoundDown(killed, eligible) == (killed * Quantum) \div eligible

HalfUp(killed, eligible) == (2 * killed * Quantum + eligible) \div (2 * eligible)

Score(killed, survived, timeout, error, notRun) ==
  [eligible |-> killed + survived,
   killed   |-> killed,
   survived |-> survived,
   timeout  |-> timeout,
   error    |-> error,
   not_run  |-> notRun,
   score    |-> IF killed + survived = 0 THEN NotComputable
                ELSE HalfUp(killed, killed + survived)]

\* outcome is a function that gives every mutant its outcome.
ScoreResults(outcome) ==
  LET n(o) == Cardinality({m \in DOMAIN outcome : outcome[m] = o})
  IN  Score(n("killed"), n("survived"), n("timeout"), n("error"), n("not_run"))

\* Rounded score against a threshold, both brought to the threshold's scale.
ReachesThreshold(score, threshold) ==
  score.score * (ThresholdScale \div Quantum) >= threshold

-----------------------------------------------------------------------------
(***************************************************************************)
(* evaluate_mutation_gate.  The argument g is a record of what the caller  *)
(* passes: contextValid, hasRun, process, observation, score, links (the   *)
(* set of mapping statuses that occur), signals, threshold, execution and  *)
(* assertion (the sets of statuses of those Evidence records, "invalid"    *)
(* for one that fails validation), and reason, the termination reason.     *)
(***************************************************************************)

ValidGateEvidence(statuses) == statuses = {"verified"}

AssessableRun(g) ==
  /\ g.hasRun
  /\ \/ g.process = "completed"
     \/ g.process = "partial" /\ g.observation = "complete"

MissingOracle(g) == \E s \in g.signals : s.kind = "oracle_missing"

\* Mutant: all signals must be verified and high, instead of any.
AllSignalsHigh(g) ==
  g.signals # {} /\ \A s \in g.signals : s.verified /\ s.severity \in {"high", "critical"}

VerifiedHighSignal(g) ==
  \E s \in g.signals : s.verified /\ s.severity \in {"high", "critical"}

\* Mutants: survivors are asked for instead of eligible mutants; the reason
\* is not looked at.
InputNeedsSurvivor(g) ==
  /\ g.contextValid /\ g.hasRun /\ g.threshold # NoThreshold
  /\ g.score.survived > 0
  /\ AssessableRun(g) /\ g.reason = "EVIDENCE_SUFFICIENT" /\ ~ MissingOracle(g)
  /\ ValidGateEvidence(g.execution) /\ ValidGateEvidence(g.assertion)

InputForAnyReason(g) ==
  /\ g.contextValid /\ g.hasRun /\ g.threshold # NoThreshold
  /\ g.score.eligible > 0
  /\ AssessableRun(g) /\ ~ MissingOracle(g)
  /\ ValidGateEvidence(g.execution) /\ ValidGateEvidence(g.assertion)

InputComplete(g) ==
  /\ g.contextValid
  /\ g.hasRun
  /\ g.threshold # NoThreshold
  /\ g.score.eligible > 0
  /\ AssessableRun(g)
  /\ g.reason = "EVIDENCE_SUFFICIENT"
  /\ ~ MissingOracle(g)
  /\ ValidGateEvidence(g.execution)
  /\ ValidGateEvidence(g.assertion)

QualityFailure(g) ==
  /\ InputComplete(g)
  /\ ~ ReachesThreshold(g.score, g.threshold) \/ VerifiedHighSignal(g)

CleanPass(g) ==
  /\ InputComplete(g)
  /\ g.process = "completed"
  /\ ReachesThreshold(g.score, g.threshold)
  /\ g.score.timeout = 0 /\ g.score.error = 0 /\ g.score.not_run = 0
  /\ ~ VerifiedHighSignal(g)
  /\ g.links \subseteq {"verified"}

\* The four cases exclude one another, so that their order does not matter.
Decision(g) ==
  CASE ~ InputComplete(g) -> "incomplete"
    [] QualityFailure(g)  -> "fail"
    [] CleanPass(g)       -> "pass"
    [] OTHER              -> "warn"

\* The order of the four decisions, worst first.
Rank == [incomplete |-> 0, fail |-> 1, warn |-> 2, pass |-> 3]

=============================================================================
