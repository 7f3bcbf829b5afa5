----------------------------- MODULE GateDecision -----------------------------
(***************************************************************************)
(* One evaluation of the Mutation Gate, and how its decision moves when    *)
(* its input moves: killing more mutants never makes it worse, weaker      *)
(* Evidence never makes it better, and the rounding of the score shifts    *)
(* the threshold by at most half a unit of the fourth decimal.             *)
(***************************************************************************)
EXTENDS EffectivenessGate

CONSTANTS Inputs,      \* the arguments the gate may be called with
          Thresholds   \* the thresholds a caller may ask for

SignalType   == [kind     : {"oracle_missing", "mutation_survivor"},
                 severity : Severities,
                 verified : BOOLEAN]
GateEvidence == {"verified", "unverified", "invalid"}

\* A score is what score_results makes of its counts.
IsScore(n) ==
  /\ \A field \in {"killed", "survived", "timeout", "error", "not_run"} : n[field] \in Nat
  /\ n = Score(n.killed, n.survived, n.timeout, n.error, n.not_run)

IsInput(x) ==
  /\ IsScore(x.score)
  /\ x \in [contextValid : BOOLEAN, hasRun : BOOLEAN,
             process : ProcessStatuses \union {"none"},
             observation : ObservationStatuses \union {"none"},
             score : {x.score},
             links : SUBSET MappingStatuses,
             signals : SUBSET SignalType,
             threshold : NoThreshold .. ThresholdScale,
             execution : SUBSET GateEvidence, assertion : SUBSET GateEvidence,
             reason : STRING]

ASSUME InputsTyped == \A x \in Inputs : IsInput(x)
ASSUME ThresholdsTyped == Thresholds \subseteq 0 .. ThresholdScale

VARIABLES g,           \* the arguments of evaluate_mutation_gate
          decision     \* its decision, "none" before the call

vars == <<g, decision>>

\* _map_survivors makes one link for each survivor.
OneLinkEach(links, survived) ==
  Cardinality(links) <= survived /\ (links = {} <=> survived = 0)

Init == g \in Inputs /\ OneLinkEach(g.links, g.score.survived) /\ decision = "none"

Evaluate ==
  /\ decision = "none"
  /\ decision' = Decision(g)
  /\ UNCHANGED g

Spec == Init /\ [][Evaluate]_vars

-----------------------------------------------------------------------------
\* The same call after one mutant that was not killed has been killed.  The
\* last survivor takes its link and its signal along.
WithOneMoreKill(outcome) ==
  LET n == [g.score EXCEPT ![outcome] = @ - 1]
  IN  [g EXCEPT !.score   = Score(n.killed + 1, n.survived, n.timeout, n.error, n.not_run),
                !.links   = IF n.survived = 0 THEN {} ELSE @,
                !.signals = IF n.survived = 0
                            THEN {s \in @ : s.kind # "mutation_survivor"} ELSE @]

\* Killing one more mutant, a survivor or one without a result, never lowers
\* the decision.
MoreKillsNeverHurt ==
  decision # "none" =>
    \A outcome \in Outcomes \ {"killed"} :
      g.score[outcome] > 0 => Rank[Decision(WithOneMoreKill(outcome))] >= Rank[decision]

WorseProcesses ==
  ProcessStatuses \ (IF g.process = "completed" THEN {"completed"} ELSE {"completed", "partial"})

\* The counts with one more mutant that was not observed.
OneMoreUnobserved(n) ==
  {Score(n.killed, n.survived, n.timeout + 1, n.error, n.not_run),
   Score(n.killed, n.survived, n.timeout, n.error + 1, n.not_run),
   Score(n.killed, n.survived, n.timeout, n.error, n.not_run + 1)}

\* Everything that makes the input of a call worse in one respect and leaves
\* all others as they are.  One more survivor is not among it: the first mutant
\* with a result is what makes a score computable.
Degraded ==
  {[g EXCEPT !.links = @ \union {l}]         : l \in {"unverified", "unmapped"}} \union
  {[g EXCEPT !.execution = @ \union {s}]     : s \in {"unverified", "invalid"}} \union
  {[g EXCEPT !.assertion = @ \union {s}]     : s \in {"unverified", "invalid"}} \union
  {[g EXCEPT !.execution = {}], [g EXCEPT !.assertion = {}], [g EXCEPT !.hasRun = FALSE],
   [g EXCEPT !.contextValid = FALSE], [g EXCEPT !.threshold = NoThreshold],
   [g EXCEPT !.observation = "partial"], [g EXCEPT !.reason = "TIMEOUT"]} \union
  {[g EXCEPT !.process = p]                  : p \in WorseProcesses} \union
  {[g EXCEPT !.signals = @ \union {s}]       : s \in SignalType} \union
  {[g EXCEPT !.threshold = t]                : t \in {u \in Thresholds : u > g.threshold}} \union
  {[g EXCEPT !.score = n]                    : n \in OneMoreUnobserved(g.score)}

\* Each alone, weaker or missing Evidence, a shorter observation, a worse
\* process, one more signal, a higher threshold, or one more mutant that timed
\* out, failed or was not run, never raises the decision.
WorseInputNeverHelps ==
  decision # "none" /\ g.threshold # NoThreshold =>
    \A worse \in Degraded : Rank[Decision(worse)] <= Rank[decision]

\* A verdict differs from the one that the exact kill rate gives only within
\* half a unit of the fourth decimal around the threshold.
VerdictWithinRounding ==
  LET exact == g.score.killed * ThresholdScale
      half  == (ThresholdScale \div (2 * Quantum)) * g.score.eligible
      limit == g.threshold * g.score.eligible
  IN  /\ decision \in {"pass", "warn"} => exact + half >= limit
      /\ decision = "fail" /\ ~ VerifiedHighSignal(g) => exact < limit + half

=============================================================================
