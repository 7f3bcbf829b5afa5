------------------------------ MODULE GateProofs ------------------------------
(***************************************************************************)
(* Machine-checked theorems about the Mutation Gate, for any number of     *)
(* mutants of any outcome, any threshold and any Evidence and signals.     *)
(***************************************************************************)
EXTENDS GateDecision, TLAPS

-----------------------------------------------------------------------------
(***************************************************************************)
(* Quotients.                                                              *)
(***************************************************************************)

\* The quotient of a division and its remainder.
LEMMA DivBounds ==
  ASSUME NEW a \in Nat, NEW b \in Nat \ {0}
  PROVE  a \div b \in Nat /\ b * (a \div b) <= a /\ a < b * (a \div b) + b
<1>1. a = b * (a \div b) + (a % b) /\ a % b \in 0 .. b - 1
  OBVIOUS
<1>2. QED
  BY <1>1

\* Multiplying by a number keeps an order, and a strict order of the products is
\* one of the factors.
LEMMA TimesMonotone ==
  ASSUME NEW x \in Int, NEW y \in Int, NEW z \in Nat, x <= y
  PROVE  x * z <= y * z
OBVIOUS

\* A common factor can be taken from a strict comparison.
LEMMA TimesStrict ==
  ASSUME NEW x \in Int, NEW y \in Int, NEW z \in Nat, x * z < y * z
  PROVE  x < y
BY TimesMonotone

\* A quotient is the largest number that fits.
LEMMA AtMostQuotient ==
  ASSUME NEW a \in Nat, NEW b \in Nat \ {0}, NEW q \in Int, q * b <= a
  PROVE  q <= a \div b
<1>1. a < ((a \div b) + 1) * b /\ a \div b \in Nat
  BY DivBounds
<1>2. q * b < ((a \div b) + 1) * b
  <2>1. q * b \in Int /\ ((a \div b) + 1) * b \in Int
    BY <1>1
  <2>2. QED
    BY <1>1, <2>1
<1>3. q < (a \div b) + 1
  BY <1>1, <1>2, TimesStrict
<1>4. QED
  BY <1>1, <1>3

\* A larger fraction has a quotient that is not smaller.
LEMMA QuotientMonotone ==
  ASSUME NEW a \in Nat, NEW b \in Nat \ {0}, NEW c \in Nat, NEW d \in Nat \ {0},
         a * d <= c * b
  PROVE  a \div b <= c \div d
<1> DEFINE q == a \div b
<1>1. q \in Nat /\ q * b <= a
  BY DivBounds
<1> HIDE DEF q
<1>2. (q * b) * d <= a * d
  BY <1>1, TimesMonotone
<1>3. (q * b) * d = (q * d) * b
  BY <1>1
<1>4. q * d <= c
  <2>1. (q * d) * b <= c * b
    <3>1. (q * b) * d \in Int /\ a * d \in Int /\ c * b \in Int
      BY <1>1
    <3>2. QED
      BY <1>2, <1>3, <3>1
  <2> DEFINE p == q * d
  <2>2. p \in Int
    BY <1>1
  <2> HIDE DEF p
  <2>3. p > c => (c + 1) * b <= p * b
    BY <2>2, TimesMonotone
  <2>4. QED
    BY <2>1, <2>2, <2>3 DEF p
<1>5. q <= c \div d
  BY <1>1, <1>4, AtMostQuotient
<1>6. QED
  BY <1>5 DEF q

\* How many units of a threshold a unit of a score, and half of one, is.
LEMMA Scales ==
  /\ ThresholdScale \div Quantum = 10 /\ ThresholdScale \div (2 * Quantum) = 5
  /\ ThresholdScale # NoThreshold
BY DEF ThresholdScale, Quantum, NoThreshold

\* The rounded rate differs from the exact one by half a unit at most.
LEMMA RoundingBounds ==
  ASSUME NEW k \in Nat, NEW e \in Nat \ {0}
  PROVE  /\ HalfUp(k, e) \in Nat
         /\ 2 * e * HalfUp(k, e) <= 2 * k * Quantum + e
         /\ 2 * k * Quantum < 2 * e * HalfUp(k, e) + e
<1> DEFINE a == 2 * k * Quantum + e
           b == 2 * e
<1>1. a \in Nat /\ b \in Nat \ {0}
  BY DEF Quantum
<1> HIDE DEF a, b
<1>2. a \div b \in Nat /\ b * (a \div b) <= a /\ a < b * (a \div b) + b
  BY <1>1, DivBounds
<1>3. HalfUp(k, e) = a \div b
  BY DEF HalfUp, a, b
<1> DEFINE h == HalfUp(k, e)
<1>4. h \in Nat /\ 2 * e * h <= 2 * k * Quantum + e /\ 2 * k * Quantum + e < 2 * e * h + 2 * e
  BY <1>2, <1>3 DEF a, b
<1> HIDE DEF h
<1>5. 2 * k * Quantum \in Nat /\ 2 * e * h \in Nat
  BY <1>4 DEF Quantum
<1>6. 2 * k * Quantum < 2 * e * h + e
  BY <1>4, <1>5
<1>7. QED
  BY <1>4, <1>6 DEF h

\* A rounded rate on one side of a threshold: the exact rate is on that side, or
\* half a unit away.
LEMMA RoundingShift ==
  ASSUME NEW k \in Nat, NEW e \in Nat \ {0}, NEW h \in Nat, NEW t \in Int,
         2 * e * h <= 2 * k * Quantum + e,
         2 * k * Quantum < 2 * e * h + e
  PROVE  LET half == (ThresholdScale \div (2 * Quantum)) * e
         IN  /\ h * 10 >= t => k * ThresholdScale + half >= t * e
             /\ h * 10 < t => k * ThresholdScale < t * e + half
<1> DEFINE p == e * h
           q == t * e
<1>1. p \in Int /\ q \in Int /\ (h * 10) * e = 10 * p
  OBVIOUS
<1>2. 2 * p <= 20000 * k + e /\ 20000 * k < 2 * p + e
  BY <1>1 DEF Quantum
<1>3. /\ t <= h * 10 => q <= 10 * p
      /\ h * 10 <= t => 10 * p <= q
  <2>1. h * 10 \in Int /\ e \in Nat
    OBVIOUS
  <2>2. t <= h * 10 => t * e <= (h * 10) * e
    BY <2>1, TimesMonotone
  <2>3. h * 10 <= t => (h * 10) * e <= t * e
    BY <2>1, TimesMonotone
  <2>4. QED
    BY <1>1, <2>2, <2>3
<1> HIDE DEF p, q
<1>4. /\ h * 10 >= t => k * 100000 + 5 * e >= q
      /\ h * 10 < t => k * 100000 < q + 5 * e
  BY <1>1, <1>2, <1>3
<1>5. k * ThresholdScale = k * 100000 /\ (ThresholdScale \div (2 * Quantum)) * e = 5 * e
  <2>1. ThresholdScale = 100000
    BY SMT DEF ThresholdScale
  <2>2. ThresholdScale \div (2 * Quantum) = 5
    BY Scales
  <2>3. QED
    BY <2>1, <2>2, SMT
<1>6. QED
  BY <1>4, <1>5, SMT DEF q

\* One mutant more that is killed, of those that were eligible or of the others,
\* does not lower the rounded rate.
LEMMA RateMonotone ==
  ASSUME NEW k \in Nat, NEW e \in Nat \ {0}, k <= e
  PROVE  /\ HalfUp(k, e) <= HalfUp(k + 1, e)
         /\ HalfUp(k, e) <= HalfUp(k + 1, e + 1)
<1> DEFINE a == 2 * k * Quantum + e
           b == 2 * (k + 1) * Quantum + e
           c == 2 * (k + 1) * Quantum + (e + 1)
<1>1. /\ a \in Nat /\ b \in Nat /\ c \in Nat
      /\ 2 * e \in Nat \ {0} /\ 2 * (e + 1) \in Nat \ {0}
  BY DEF Quantum
<1>2. a * (2 * e) <= b * (2 * e)
  BY DEF Quantum
<1>3. a * (2 * (e + 1)) <= c * (2 * e)
  BY DEF Quantum
<1> HIDE DEF a, b, c
<1>4. a \div (2 * e) <= b \div (2 * e) /\ a \div (2 * e) <= c \div (2 * (e + 1))
  BY <1>1, <1>2, <1>3, QuotientMonotone
<1>5. QED
  BY <1>4 DEF HalfUp, a, b, c

-----------------------------------------------------------------------------
(***************************************************************************)
(* The decision.                                                           *)
(***************************************************************************)

\* What a score is made of.
LEMMA ScoreFields ==
  ASSUME NEW n, IsScore(n)
  PROVE  /\ n.killed \in Nat /\ n.survived \in Nat /\ n.timeout \in Nat
         /\ n.error \in Nat /\ n.not_run \in Nat
         /\ n.eligible = n.killed + n.survived
         /\ n.eligible # 0 => n.score = HalfUp(n.killed, n.eligible)
<1>1. n = Score(n.killed, n.survived, n.timeout, n.error, n.not_run)
  BY DEF IsScore
<1>2. /\ n.eligible = n.killed + n.survived
      /\ n.score = IF n.killed + n.survived = 0 THEN NotComputable
                   ELSE HalfUp(n.killed, n.killed + n.survived)
  BY <1>1 DEF Score
<1>3. QED
  BY <1>2 DEF IsScore

\* What the call's arguments say about its score and threshold.
LEMMA InputScore ==
  ASSUME NEW x, IsInput(x)
  PROVE  /\ x.score.killed \in Nat /\ x.score.survived \in Nat /\ x.score.timeout \in Nat
         /\ x.score.error \in Nat /\ x.score.not_run \in Nat
         /\ x.score.eligible = x.score.killed + x.score.survived
         /\ x.score.eligible # 0 => x.score.score = HalfUp(x.score.killed, x.score.eligible)
         /\ x.threshold \in Int
<1>1. IsScore(x.score) /\ x.threshold \in NoThreshold .. ThresholdScale
  BY DEF IsInput
<1>2. \A t \in NoThreshold .. ThresholdScale : t \in Int
  BY SMT DEF NoThreshold, ThresholdScale
<1>3. QED
  BY <1>1, <1>2, ScoreFields

\* A score reaches a threshold when its ten-fold does.
LEMMA Reaching ==
  ASSUME NEW n, NEW threshold
  PROVE  ReachesThreshold(n, threshold) <=> n.score * 10 >= threshold
BY Scales DEF ReachesThreshold

\* One input is no better than another when it has whatever makes the other's
\* decision worse.
LEMMA DecisionMonotone ==
  ASSUME NEW worse, NEW better,
         InputComplete(worse) => InputComplete(better),
         InputComplete(worse) /\ QualityFailure(better) => QualityFailure(worse),
         CleanPass(worse) => CleanPass(better)
  PROVE  Rank[Decision(worse)] <= Rank[Decision(better)]
<1>1. /\ Rank["incomplete"] = 0 /\ Rank["fail"] = 1 /\ Rank["warn"] = 2 /\ Rank["pass"] = 3
  BY DEF Rank
<1>2. CASE ~ InputComplete(worse)
  <2>1. Decision(worse) = "incomplete" /\ Decision(better) \in {"incomplete", "fail", "warn", "pass"}
    BY <1>2 DEF Decision, QualityFailure, CleanPass
  <2>2. QED
    BY <1>1, <2>1
<1>3. CASE QualityFailure(worse)
  <2>1. Decision(worse) = "fail" /\ Decision(better) \in {"fail", "warn", "pass"}
    BY <1>3 DEF Decision, QualityFailure, CleanPass
  <2>2. QED
    BY <1>1, <2>1
<1>4. CASE InputComplete(worse) /\ ~ QualityFailure(worse) /\ ~ CleanPass(worse)
  <2>1. Decision(worse) = "warn" /\ Decision(better) \in {"warn", "pass"}
    BY <1>4 DEF Decision
  <2>2. QED
    BY <1>1, <2>1
<1>5. CASE CleanPass(worse)
  <2>1. CleanPass(better) /\ ~ QualityFailure(better) /\ InputComplete(better)
    BY <1>5 DEF CleanPass, QualityFailure
  <2>2. Decision(better) = "pass" /\ Decision(worse) \in {"incomplete", "fail", "warn", "pass"}
    BY <2>1 DEF Decision
  <2>3. QED
    BY <1>1, <2>2
<1>6. QED
  BY <1>2, <1>3, <1>4, <1>5

-----------------------------------------------------------------------------
(***************************************************************************)
(* The theorems.                                                           *)
(***************************************************************************)

\* The decision is the gate's.
Decided == g \in Inputs /\ decision \in {"none", Decision(g)}

\* It is the gate's in every state.
LEMMA DecidedHolds == Spec => []Decided
<1>1. Init => Decided
  BY DEF Init, Decided
<1>2. Decided /\ [Evaluate]_vars => Decided'
  BY DEF Decided, Evaluate, vars
<1>3. QED
  BY <1>1, <1>2, PTL DEF Spec

\* A score that reaches a threshold reaches every lower one.
LEMMA LowerThresholdReached ==
  ASSUME NEW n, NEW t \in Int, NEW u \in Int, u > t, n.score \in Int,
         ReachesThreshold(n, u)
  PROVE  ReachesThreshold(n, t)
<1>1. n.score * 10 >= u
  BY Reaching
<1>2. n.score * 10 >= t
  BY <1>1
<1>3. QED
  BY <1>2, Reaching

\* One more mutant that was not observed leaves the rate as it is, and there is
\* then such a mutant.
LEMMA UnobservedKeepRate ==
  ASSUME NEW n, IsScore(n), NEW m \in OneMoreUnobserved(n)
  PROVE  /\ m.eligible = n.eligible /\ m.score = n.score
         /\ ~ (m.timeout = 0 /\ m.error = 0 /\ m.not_run = 0)
<1>1. /\ n.timeout \in Nat /\ n.error \in Nat /\ n.not_run \in Nat
      /\ n = Score(n.killed, n.survived, n.timeout, n.error, n.not_run)
  BY DEF IsScore
<1> DEFINE score == IF n.killed + n.survived = 0 THEN NotComputable
                    ELSE HalfUp(n.killed, n.killed + n.survived)
<1>2. n.eligible = n.killed + n.survived /\ n.score = score
  BY <1>1 DEF Score
<1>3. m.eligible = n.killed + n.survived /\ m.score = score
  BY DEF OneMoreUnobserved, Score
<1>4. \/ m.timeout = n.timeout + 1
      \/ m.error = n.error + 1
      \/ m.not_run = n.not_run + 1
  BY DEF OneMoreUnobserved, Score
<1>5. QED
  BY <1>1, <1>2, <1>3, <1>4

\* Each alone, weaker or missing Evidence, a shorter observation, a worse
\* process, one more signal, a higher threshold, or one more mutant that timed
\* out, failed or was not run, never raises the decision, whatever the counts,
\* thresholds, links and signals are.
THEOREM WorseNeverHelps == Spec => []WorseInputNeverHelps
<1>1. Decided => WorseInputNeverHelps
  <2> SUFFICES ASSUME Decided, decision # "none", g.threshold # NoThreshold,
                      NEW worse \in Degraded
               PROVE  Rank[Decision(worse)] <= Rank[decision]
    BY DEF WorseInputNeverHelps
  <2>1. IsInput(g) /\ decision = Decision(g)
    BY InputsTyped DEF Decided
  <2>2. SUFFICES /\ InputComplete(worse) => InputComplete(g)
                 /\ InputComplete(worse) /\ QualityFailure(g) => QualityFailure(worse)
                 /\ CleanPass(worse) => CleanPass(g)
    BY <2>1, DecisionMonotone
  <2> USE DEF InputComplete, QualityFailure, CleanPass, AssessableRun, MissingOracle,
              ValidGateEvidence, VerifiedHighSignal, ReachesThreshold
  <2>3. CASE \E l \in {"unverified", "unmapped"} : worse = [g EXCEPT !.links = @ \union {l}]
    BY <2>1, <2>3 DEF IsInput
  <2>4. CASE \E e \in {"unverified", "invalid"} : worse = [g EXCEPT !.execution = @ \union {e}]
    BY <2>1, <2>4 DEF IsInput
  <2>5. CASE \E e \in {"unverified", "invalid"} : worse = [g EXCEPT !.assertion = @ \union {e}]
    BY <2>1, <2>5 DEF IsInput
  <2>6. CASE worse \in {[g EXCEPT !.execution = {}], [g EXCEPT !.assertion = {}],
                        [g EXCEPT !.hasRun = FALSE],
                        [g EXCEPT !.contextValid = FALSE], [g EXCEPT !.threshold = NoThreshold]}
    BY <2>1, <2>6 DEF IsInput
  <2>7. CASE worse = [g EXCEPT !.observation = "partial"]
    BY <2>1, <2>7 DEF IsInput
  <2>8. CASE \E p \in WorseProcesses : worse = [g EXCEPT !.process = p]
    BY <2>1, <2>8 DEF IsInput, WorseProcesses
  <2>9. CASE worse = [g EXCEPT !.reason = "TIMEOUT"]
    BY <2>1, <2>9 DEF IsInput
  <2>10. CASE \E s \in SignalType : worse = [g EXCEPT !.signals = @ \union {s}]
    BY <2>1, <2>10 DEF IsInput
  <2>11. CASE \E t \in {u \in Thresholds : u > g.threshold} : worse = [g EXCEPT !.threshold = t]
    <3>1. PICK t \in Thresholds : t > g.threshold /\ worse = [g EXCEPT !.threshold = t]
      BY <2>11
    <3>2. /\ worse.threshold = t /\ worse.score = g.score /\ worse.links = g.links
          /\ worse.contextValid = g.contextValid /\ worse.hasRun = g.hasRun
          /\ worse.process = g.process /\ worse.observation = g.observation
          /\ worse.signals = g.signals /\ worse.execution = g.execution
          /\ worse.assertion = g.assertion /\ worse.reason = g.reason
      BY <2>1, <3>1 DEF IsInput
    <3>3. InputComplete(worse) => InputComplete(g)
      BY <3>2
    <3>4. ASSUME InputComplete(g), ReachesThreshold(worse.score, worse.threshold)
          PROVE  ReachesThreshold(g.score, g.threshold)
      <4> HIDE DEF ReachesThreshold
      <4>1. g.score.score \in Nat
        <5>1. g.score.eligible \in Nat \ {0} /\ g.score.killed \in Nat
              /\ g.score.score = HalfUp(g.score.killed, g.score.eligible)
          BY <2>1, <3>4, InputScore
        <5>2. QED
          BY <5>1, RoundingBounds
      <4>2. t \in Int /\ g.threshold \in Int
        <5>1. \A u \in 0 .. ThresholdScale : u \in Int
          BY DEF ThresholdScale
        <5>2. QED
          BY <2>1, <3>1, <5>1, InputScore, ThresholdsTyped
      <4>3. ReachesThreshold(g.score, t)
        BY <3>2, <3>4, Zenon
      <4>4. QED
        BY <3>1, <4>1, <4>2, <4>3, LowerThresholdReached
    <3> HIDE DEF ReachesThreshold
    <3>5. CleanPass(worse) => InputComplete(g) /\ ReachesThreshold(g.score, g.threshold)
      BY <3>3, <3>4 DEF CleanPass
    <3>6. QED
      BY <3>2, <3>3, <3>4, <3>5
  <2>12. CASE \E n \in OneMoreUnobserved(g.score) : worse = [g EXCEPT !.score = n]
    <3>1. PICK n \in OneMoreUnobserved(g.score) : worse = [g EXCEPT !.score = n]
      BY <2>12
    <3>2. /\ worse.score = n /\ worse.threshold = g.threshold /\ worse.links = g.links
          /\ worse.contextValid = g.contextValid /\ worse.hasRun = g.hasRun
          /\ worse.process = g.process /\ worse.observation = g.observation
          /\ worse.signals = g.signals /\ worse.execution = g.execution
          /\ worse.assertion = g.assertion /\ worse.reason = g.reason
      BY <2>1, <3>1 DEF IsInput
    <3>3. /\ n.eligible = g.score.eligible /\ n.score = g.score.score
          /\ ~ (n.timeout = 0 /\ n.error = 0 /\ n.not_run = 0)
      BY <2>1, <3>1, UnobservedKeepRate DEF IsInput
    <3>4. QED
      BY <3>2, <3>3
  <2>13. QED
    BY <2>3, <2>4, <2>5, <2>6, <2>7, <2>8, <2>9, <2>10, <2>11, <2>12 DEF Degraded
<1>2. QED
  BY <1>1, DecidedHolds, PTL

\* The counts of the same call after one more kill.
LEMMA OneMoreKill ==
  ASSUME IsInput(g), NEW outcome \in Outcomes \ {"killed"}, g.score[outcome] > 0
  PROVE  LET better == WithOneMoreKill(outcome)
         IN  /\ better.score.killed = g.score.killed + 1
             /\ better.score.eligible = IF outcome = "survived" THEN g.score.eligible
                                        ELSE g.score.eligible + 1
             /\ better.score.score = HalfUp(better.score.killed, better.score.eligible)
             /\ better.score.timeout <= g.score.timeout /\ better.score.timeout \in Nat
             /\ better.score.error <= g.score.error /\ better.score.error \in Nat
             /\ better.score.not_run <= g.score.not_run /\ better.score.not_run \in Nat
             /\ better.links \subseteq g.links /\ better.signals \subseteq g.signals
             /\ \A s \in g.signals : s.kind = "oracle_missing" => s \in better.signals
             /\ better.contextValid = g.contextValid /\ better.hasRun = g.hasRun
             /\ better.process = g.process /\ better.observation = g.observation
             /\ better.threshold = g.threshold /\ better.execution = g.execution
             /\ better.assertion = g.assertion /\ better.reason = g.reason
<1> DEFINE n == [g.score EXCEPT ![outcome] = @ - 1]
           score == Score(n.killed + 1, n.survived, n.timeout, n.error, n.not_run)
           better == WithOneMoreKill(outcome)
<1>1. /\ g.score = Score(g.score.killed, g.score.survived, g.score.timeout, g.score.error,
                         g.score.not_run)
      /\ g.score.killed \in Nat /\ g.score.survived \in Nat /\ g.score.timeout \in Nat
      /\ g.score.error \in Nat /\ g.score.not_run \in Nat
      /\ g.score.eligible = g.score.killed + g.score.survived
  BY ScoreFields DEF IsInput, IsScore
<1>2. DOMAIN g.score = {"eligible", "killed", "survived", "timeout", "error", "not_run", "score"}
  BY <1>1 DEF Score
<1>3. /\ n.killed = g.score.killed
      /\ n.survived = IF outcome = "survived" THEN g.score.survived - 1 ELSE g.score.survived
      /\ n.timeout = IF outcome = "timeout" THEN g.score.timeout - 1 ELSE g.score.timeout
      /\ n.error = IF outcome = "error" THEN g.score.error - 1 ELSE g.score.error
      /\ n.not_run = IF outcome = "not_run" THEN g.score.not_run - 1 ELSE g.score.not_run
  BY <1>2 DEF Outcomes
<1>4. /\ better = [g EXCEPT !.score   = score,
                            !.links   = IF n.survived = 0 THEN {} ELSE @,
                            !.signals = IF n.survived = 0
                              THEN {s \in @ : s.kind # "mutation_survivor"} ELSE @]
  BY DEF WithOneMoreKill
<1>5. /\ n.killed \in Nat /\ n.survived \in Nat /\ n.timeout \in Nat
      /\ n.error \in Nat /\ n.not_run \in Nat
  BY <1>1, <1>3 DEF Outcomes
<1> HIDE DEF n, better
<1>6. /\ score.killed = n.killed + 1 /\ score.eligible = n.killed + 1 + n.survived
      /\ score.timeout = n.timeout /\ score.error = n.error /\ score.not_run = n.not_run
      /\ score.score = HalfUp(score.killed, score.eligible)
  BY <1>5 DEF Score
<1>7. DOMAIN g = {"contextValid", "hasRun", "process", "observation", "score", "links",
                  "signals", "threshold", "execution", "assertion", "reason"}
      /\ \A s \in g.signals : s.kind \in {"oracle_missing", "mutation_survivor"}
  BY DEF IsInput, SignalType
<1> HIDE DEF score
<1>8. /\ better.score = score
      /\ better.links \subseteq g.links /\ better.signals \subseteq g.signals
      /\ \A s \in g.signals : s.kind = "oracle_missing" => s \in better.signals
      /\ better.contextValid = g.contextValid /\ better.hasRun = g.hasRun
      /\ better.process = g.process /\ better.observation = g.observation
      /\ better.threshold = g.threshold /\ better.execution = g.execution
      /\ better.assertion = g.assertion /\ better.reason = g.reason
  BY <1>4, <1>7
<1>9. /\ better.score.killed = g.score.killed + 1
      /\ better.score.eligible = IF outcome = "survived" THEN g.score.eligible
                                 ELSE g.score.eligible + 1
      /\ better.score.timeout <= g.score.timeout /\ better.score.timeout \in Nat
      /\ better.score.error <= g.score.error /\ better.score.error \in Nat
      /\ better.score.not_run <= g.score.not_run /\ better.score.not_run \in Nat
  BY <1>1, <1>3, <1>5, <1>6, <1>8
<1>10. QED
  BY <1>6, <1>8, <1>9 DEF better

\* Killing one more mutant, a survivor or one without a result, never lowers
\* the decision, however many mutants there are.
THEOREM MoreKillsHelp == Spec => []MoreKillsNeverHurt
<1>1. Decided => MoreKillsNeverHurt
  <2> SUFFICES ASSUME Decided, decision # "none",
                      NEW outcome \in Outcomes \ {"killed"}, g.score[outcome] > 0
               PROVE  Rank[decision] <= Rank[Decision(WithOneMoreKill(outcome))]
    <3>1. \A d \in {"incomplete", "fail", "warn", "pass"} : Rank[d] \in Nat
      BY DEF Rank
    <3>2. \A x : Decision(x) \in {"incomplete", "fail", "warn", "pass"}
      BY Zenon DEF Decision, QualityFailure, CleanPass
    <3>3. Decided /\ decision # "none" => decision = Decision(g)
      BY DEF Decided
    <3>4. QED
      BY <3>1, <3>2, <3>3 DEF MoreKillsNeverHurt
  <2> DEFINE better == WithOneMoreKill(outcome)
  <2>1. IsInput(g) /\ decision = Decision(g)
    BY InputsTyped DEF Decided
  <2>2. /\ better.score.killed = g.score.killed + 1
        /\ better.score.eligible = IF outcome = "survived" THEN g.score.eligible
                                   ELSE g.score.eligible + 1
        /\ better.score.score = HalfUp(better.score.killed, better.score.eligible)
        /\ better.score.timeout <= g.score.timeout /\ better.score.timeout \in Nat
        /\ better.score.error <= g.score.error /\ better.score.error \in Nat
        /\ better.score.not_run <= g.score.not_run /\ better.score.not_run \in Nat
        /\ better.links \subseteq g.links /\ better.signals \subseteq g.signals
        /\ \A s \in g.signals : s.kind = "oracle_missing" => s \in better.signals
        /\ better.contextValid = g.contextValid /\ better.hasRun = g.hasRun
        /\ better.process = g.process /\ better.observation = g.observation
        /\ better.threshold = g.threshold /\ better.execution = g.execution
        /\ better.assertion = g.assertion /\ better.reason = g.reason
    BY <2>1, OneMoreKill
  <2>3. /\ g.score.killed \in Nat /\ g.score.survived \in Nat /\ g.score.timeout \in Nat
        /\ g.score.error \in Nat /\ g.score.not_run \in Nat
        /\ g.score.eligible = g.score.killed + g.score.survived
        /\ g.score.eligible # 0 => g.score.score = HalfUp(g.score.killed, g.score.eligible)
        /\ g.threshold \in Int
    BY <2>1, InputScore
  <2> HIDE DEF better
  <2>4. InputComplete(g) => InputComplete(better)
    BY <2>2, <2>3 DEF InputComplete, AssessableRun, MissingOracle
  <2>5. ASSUME InputComplete(g), ReachesThreshold(g.score, g.threshold)
        PROVE  ReachesThreshold(better.score, better.threshold)
    <3>1. g.score.eligible \in Nat \ {0} /\ g.score.killed <= g.score.eligible
      BY <2>3, <2>5 DEF InputComplete
    <3>2. HalfUp(g.score.killed, g.score.eligible) <= better.score.score
      BY <2>2, <2>3, <3>1, RateMonotone
    <3>3. better.score.score \in Nat /\ HalfUp(g.score.killed, g.score.eligible) \in Nat
      <4>1. better.score.killed \in Nat /\ better.score.eligible \in Nat \ {0}
        BY <2>2, <2>3, <3>1
      <4>2. QED
        BY <2>2, <2>3, <3>1, <4>1, RoundingBounds
    <3>4. g.score.score * 10 >= g.threshold
      BY <2>5, Reaching
    <3>5. better.score.score * 10 >= better.threshold
      BY <2>2, <2>3, <3>1, <3>2, <3>3, <3>4
    <3>6. QED
      BY <3>5, Reaching
  <2>6. InputComplete(g) /\ QualityFailure(better) => QualityFailure(g)
    <3>1. VerifiedHighSignal(better) => VerifiedHighSignal(g)
      BY <2>2 DEF VerifiedHighSignal
    <3>2. QED
      BY <2>5, <3>1 DEF QualityFailure
  <2>7. CleanPass(g) => CleanPass(better)
    <3>1. SUFFICES ASSUME CleanPass(g) PROVE CleanPass(better)
      OBVIOUS
    <3>2. InputComplete(better) /\ ReachesThreshold(better.score, better.threshold)
      BY <2>4, <2>5, <3>1 DEF CleanPass
    <3>3. better.score.timeout = 0 /\ better.score.error = 0 /\ better.score.not_run = 0
      BY <2>2, <2>3, <3>1 DEF CleanPass
    <3>4. better.links \subseteq {"verified"} /\ better.process = "completed"
      BY <2>2, <3>1 DEF CleanPass
    <3>5. ~ VerifiedHighSignal(better)
      BY <2>2, <3>1 DEF CleanPass, VerifiedHighSignal
    <3>6. QED
      BY <3>2, <3>3, <3>4, <3>5 DEF CleanPass
  <2>8. Rank[Decision(g)] <= Rank[Decision(better)]
    BY <2>4, <2>6, <2>7, DecisionMonotone
  <2>9. QED
    BY <2>1, <2>8 DEF better
<1>2. QED
  BY <1>1, DecidedHolds, PTL

\* A verdict differs from the one that the exact kill rate gives only within
\* half a unit of the fourth decimal around the threshold, for any counts.
THEOREM RoundingIsHarmless == Spec => []VerdictWithinRounding
<1>1. Decided => VerdictWithinRounding
  <2> SUFFICES ASSUME Decided, decision \in {"pass", "warn", "fail"}
               PROVE  VerdictWithinRounding
    BY DEF VerdictWithinRounding
  <2> DEFINE k == g.score.killed
             e == g.score.eligible
             t == g.threshold
             h == HalfUp(k, e)
  <2>1. IsInput(g) /\ decision = Decision(g)
    BY InputsTyped DEF Decided
  <2>2. InputComplete(g)
    <3>1. ~ InputComplete(g) => Decision(g) = "incomplete"
      BY DEF Decision, QualityFailure, CleanPass
    <3>2. QED
      BY <2>1, <3>1
  <2>3. /\ k \in Nat /\ e \in Nat \ {0} /\ t \in Int
        /\ g.score.score = h
    <3>1. e > 0
      BY <2>2 DEF InputComplete
    <3>2. k \in Nat /\ g.score.survived \in Nat /\ e = k + g.score.survived /\ t \in Int
          /\ (e # 0 => g.score.score = h)
      BY <2>1, InputScore
    <3>3. QED
      BY <3>1, <3>2
  <2>4. /\ decision \in {"pass", "warn"} => h * 10 >= t
        /\ decision = "fail" /\ ~ VerifiedHighSignal(g) => h * 10 < t
    <3>1. decision \in {"pass", "warn"} => ~ QualityFailure(g)
      BY <2>1, <2>2 DEF Decision, CleanPass, QualityFailure
    <3>2. decision = "fail" => QualityFailure(g)
      BY <2>1, <2>2 DEF Decision, CleanPass, QualityFailure
    <3>3. ReachesThreshold(g.score, t) <=> h * 10 >= t
      BY <2>3, Reaching
    <3>4. h \in Nat
      BY <2>3, RoundingBounds
    <3>5. QED
      BY <2>2, <2>3, <3>1, <3>2, <3>3, <3>4 DEF QualityFailure
  <2>5. /\ h \in Nat
        /\ 2 * e * h <= 2 * k * Quantum + e
        /\ 2 * k * Quantum < 2 * e * h + e
    BY <2>3, RoundingBounds
  <2> HIDE DEF k, e, t, h
  <2> DEFINE half == (ThresholdScale \div (2 * Quantum)) * e
  <2>6. /\ h * 10 >= t => k * ThresholdScale + half >= t * e
        /\ h * 10 < t => k * ThresholdScale < t * e + half
    BY <2>3, <2>5, RoundingShift, Zenon
  <2>7. /\ decision \in {"pass", "warn"} => k * ThresholdScale + half >= t * e
        /\ decision = "fail" /\ ~ VerifiedHighSignal(g) => k * ThresholdScale < t * e + half
    BY <2>4, <2>6, Zenon
  <2>8. QED
    BY <2>7, Zenon DEF VerdictWithinRounding, k, e, t
<1>2. QED
  BY <1>1, DecidedHolds, PTL

=============================================================================
