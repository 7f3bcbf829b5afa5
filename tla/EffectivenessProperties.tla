----------------------- MODULE EffectivenessProperties -----------------------
(***************************************************************************)
(* What one call of TestEffectivenessService.assess guarantees: its type   *)
(* invariant, what a verdict rests on, what budgets, deadline and          *)
(* permissions mean, the inductive invariant of the loop, and the abstract *)
(* loop that the call implements.                                          *)
(***************************************************************************)
EXTENDS EffectivenessService, LoopOutcome

-----------------------------------------------------------------------------
(***************************************************************************)
(* Types.                                                                  *)
(***************************************************************************)

Labels == {"start", "select", "mutate", "resolve", "acquire", "observe", "map",
           "model", "evaluate", "verify", "gate", "finish", "returned", "raised"}

Reasons == FinishReasons

PermissionActions == {"READ", "EXECUTE_MUTATION", "MODEL_SURVIVOR_MAPPING"}

TraceType == [phase      : {Phases[i] : i \in 1 .. 8},
              status     : {"completed", "terminated"},
              permission : PermissionActions \union {"none"}]

SignalType == [kind     : {"oracle_missing", "mutation_survivor"},
               severity : Severities,
               verified : BOOLEAN]

AssessmentType == [reason   : Reasons \union {"none"},
                   decision : Decisions \union {"none"},
                   hasRun   : BOOLEAN,
                   rows     : BOOLEAN]

\* The types of the variables, the budget of TestEffectivenessAssessment and
\* the enumerations of effectiveness.py among them.
TypeOK ==
  /\ request \in Requests /\ head \in Revisions /\ reportFile \in Reports
  /\ edits \in 0 .. MaxEdits /\ expired \in BOOLEAN /\ pc \in Labels
  /\ traces \in Seq(TraceType)
  /\ toolCalls \in Nat /\ modelCalls \in Nat /\ mapperCalls \in Nat
  /\ agentEvidence \subseteq PermissionActions
  /\ idReport \in Reports \union {"none"}
  /\ revision \in Revisions \union {"none"}
  /\ runReport \in Reports \union {"none"}
  /\ provider \in ResultType /\ providerSaved \in BOOLEAN /\ runBuilt \in BOOLEAN
  /\ links \in [Mutants -> MappingStatuses \union {"none"}]
  /\ signals \subseteq SignalType
  /\ reason \in Reasons \union {"none"} /\ rows \in BOOLEAN
  /\ assessment \in AssessmentType

-----------------------------------------------------------------------------
(***************************************************************************)
(* What a verdict rests on.  A verdict is a decision other than            *)
(* "incomplete".                                                           *)
(***************************************************************************)

Verdict == assessment.decision \in {"pass", "warn", "fail"}

PermissionOf(phase) ==
  CASE phase = "SELECT" -> "READ"
    [] phase = "MUTATE" -> "EXECUTE_MUTATION"
    [] OTHER            -> "none"

WholeLoop == [i \in 1 .. 8 |-> Trace(Phases[i], "completed", PermissionOf(Phases[i]))]

\* A verdict is reached only by a call that completed all eight phases, in
\* order and with their permissions, and is handed over with its rows; any
\* early exit, exhausted budget or exception gives "incomplete" or nothing.
VerdictNeedsWholeLoop ==
  Verdict => /\ traces = WholeLoop
             /\ assessment.reason = "EVIDENCE_SUFFICIENT"
             /\ assessment.hasRun /\ assessment.rows
             /\ {"READ", "EXECUTE_MUTATION"} \subseteq agentEvidence

\* A verdict rests on a complete observation, on verified Evidence of the
\* provider, of the execution and of the assertions, and, for a report, on
\* the very report whose hash the run carries, accepted for the revision that
\* the run carries, even when the repository and the report file change
\* during the call.  With mutmut, whose truncated runs are never "complete",
\* every reported mutant was killed or survived and has a test named for it.
VerdictRestsOnEvidence ==
  Verdict =>
    /\ ContextValid
    /\ provider.observation = "complete" /\ provider.unverified = {}
    /\ \A e \in Context.execution \union Context.assertion :
         Context.evidence[e] = "verified"
    /\ request.report =>
         /\ runReport \in Reports
         /\ ReportContent[runReport].revision = revision
         /\ provider = ParseReport(ReportContent[runReport])
    /\ request.backend = "mutmut" =>
         \A m \in Reported(provider.results) :
           provider.results[m].outcome \in Eligible /\ provider.results[m].tests # {}

CountOf(outcome) ==
  Cardinality({m \in Mutants : provider.results[m].outcome = outcome})

\* "pass" says that every reported mutant was killed or survived, that the
\* exact kill rate is at most half a unit of the fourth decimal below the
\* threshold, and that every survivor ran against the tests of exactly one
\* scenario, which has an oracle and verified Evidence, whatever the provider
\* claims about its own process and whatever a model answered.
PassMeansClean ==
  assessment.decision = "pass" =>
    /\ Reported(provider.results) # {}
    /\ OutcomesOf(provider.results) \subseteq Eligible
    /\ LET eligible == CountOf("killed") + CountOf("survived")
           slack    == ThresholdScale \div (2 * Quantum)
       IN  CountOf("killed") * ThresholdScale + slack * eligible
             >= request.threshold * eligible
    /\ \A m \in Survivors :
         Cardinality(Candidates(provider.results[m])) = 1 /\ SurvivorLink(m) = "verified"
    /\ \A i \in Intents : Context.intents[i].observable /\ Context.intents[i].oracle

\* The model mapper may relabel survivors but never changes the decision: it
\* is the one that the deterministic links alone give.
ModelNeverDecides ==
  pc = "returned" /\ reason # "none" =>
    assessment.decision = Decision(GateInput(SurvivorLinks, SignalsOf(SurvivorLinks)))

\* What the call hands to _finish has one of the shapes that its persistence
\* relies on: a run without rows means an exhausted iteration budget, nothing
\* else, and only the whole loop is EVIDENCE_SUFFICIENT.
FinishKeepsContract ==
  pc = "finish" =>
    LET o == [phases |-> Len(traces), reason |-> reason, observed |-> providerSaved,
              hasRun |-> runBuilt, rows |-> rows]
    IN  /\ o \in FinishOutcome(request.budget.iterations)
        /\ PermissionGiven(o) <=> agentEvidence # {}

-----------------------------------------------------------------------------
(***************************************************************************)
(* Budgets, deadline and permissions.                                      *)
(***************************************************************************)

\* How many phases are recorded, all completed, when the call is at a label.
Recorded == [start |-> 0, select |-> 1, mutate |-> 2, resolve |-> 3, acquire |-> 3,
             observe |-> 3, map |-> 4, model |-> 5, evaluate |-> 5, verify |-> 6,
             gate |-> 7]

Running == pc \in DOMAIN Recorded

\* n phases are recorded, all completed.
OnCourse(n) ==
  Len(traces) = n /\ \A i \in 1 .. n : traces[i] = WholeLoop[i]

\* The recorded phases are a prefix of the whole loop, at most the last one
\* terminated and only once the loop was left.
PhasesArePrefix ==
  /\ Len(traces) <= 8 /\ Len(traces) <= request.budget.iterations
  /\ \A i \in 1 .. Len(traces) :
       \/ traces[i] = WholeLoop[i]
       \/ /\ i = Len(traces) /\ ~ Running
          /\ traces[i] = [WholeLoop[i] EXCEPT !.status = "terminated"]

\* At a label of the loop as many phases are recorded as it asks for, and
\* nothing is decided.
RunningIsOnCourse == Running => OnCourse(Recorded[pc]) /\ reason = "none"

\* The permissions of SELECT and MUTATE exist by the time they are recorded.
PermissionsPrecede ==
  /\ Len(traces) >= 2 => "READ" \in agentEvidence
  /\ Len(traces) >= 3 => "EXECUTE_MUTATION" \in agentEvidence

\* Two tool calls are paid for, and the revision is known, before the provider
\* is asked; there is a result, and then a run, before it is looked at.
ProviderInOrder ==
  /\ pc \in {"start", "select"} => toolCalls = 0
  /\ pc = "mutate" => toolCalls = 1
  /\ pc \in {"resolve", "acquire"} => toolCalls = 2
  /\ pc = "acquire" => revision # "none"
  /\ pc \in {"start", "select", "mutate", "resolve", "acquire"} => provider = NoResult
  /\ pc \in {"observe", "map", "model", "evaluate", "verify", "gate"}
       => provider.process # "none"
  /\ pc \in {"map", "model", "evaluate", "verify", "gate"} => runBuilt

\* EVIDENCE_SUFFICIENT, as well as a verdict, comes only with all eight
\* phases, a result of the provider, a run and its rows.
DecidedLast ==
  /\ Running \/ pc = "finish" => assessment = NoAssessment
  /\ reason = "EVIDENCE_SUFFICIENT"
       => traces = WholeLoop /\ provider.process # "none" /\ runBuilt /\ rows
  /\ Verdict => /\ reason = "EVIDENCE_SUFFICIENT" /\ assessment.reason = reason
                /\ assessment.hasRun = runBuilt /\ assessment.rows = rows

\* The inductive invariant of the loop.
LoopInv == PhasesArePrefix /\ RunningIsOnCourse /\ PermissionsPrecede
             /\ ProviderInOrder /\ DecidedLast

\* A call never records more phases, consumes more tool calls or invokes the
\* mapper more often than its budget says, and invokes it at most once.
BudgetsHold ==
  /\ Len(traces) <= request.budget.iterations
  /\ toolCalls <= request.budget.tools
  /\ mapperCalls <= request.budget.models /\ mapperCalls <= 1

\* The termination reason is true: TIMEOUT is given only past the deadline,
\* BUDGET_EXHAUSTED only when a counter stands at its limit.
ReasonIsReal ==
  \A why \in {reason, assessment.reason} :
    /\ why = "TIMEOUT" => expired
    /\ why = "BUDGET_EXHAUSTED" => \/ Len(traces) = request.budget.iterations
                                  \/ toolCalls = request.budget.tools

\* The smallest budget that no call exhausts: eight iterations and three tool
\* calls.  The v0.4 defaults (8 and 8) are above it.
WholeLoopFitsBudget ==
  request.budget.valid /\ request.budget.iterations >= 8 /\ request.budget.tools >= 3
    => assessment.reason # "BUDGET_EXHAUSTED"

\* The provider's result is taken only by a call that recorded MUTATE with
\* the permission to run mutants, paid a tool call for it and knows the
\* revision; it is taken once.
ProviderNeedsPermission ==
  [][provider' # provider =>
       /\ provider = NoResult
       /\ Len(traces) = 3 /\ traces[3] = Trace("MUTATE", "completed", "EXECUTE_MUTATION")
       /\ "EXECUTE_MUTATION" \in agentEvidence
       /\ toolCalls' = 3 /\ revision # "none"]_vars

\* A recorded phase stands: a step appends one phase, or turns the last one
\* into "terminated" and leaves the loop, or leaves the list alone.
RecordedPhasesStand ==
  [][LET n == Len(traces) IN
     \/ traces' = traces
     \/ /\ Len(traces') = n + 1
        /\ \A i \in 1 .. n : traces'[i] = traces[i] /\ traces[i].status = "completed"
     \/ /\ Len(traces') = n /\ pc' = "finish"
        /\ \A i \in 1 .. n - 1 : traces'[i] = traces[i]
        /\ traces'[n] = [traces[n] EXCEPT !.status = "terminated"]]_vars

\* A call whose deadline passes before the last clock check, the one in front
\* of EVALUATE, never reaches a verdict.
PastDeadlineNoVerdict ==
  [](expired /\ pc \notin {"verify", "gate", "finish", "returned"} => [](~ Verdict))

\* A call ends, in an assessment or in an exception.
CallEnds == <>Done

Loop == INSTANCE ControlledLoop
  WITH Limits      <- {r.budget.iterations : r \in Requests},
       LastPhase   <- 8,
       MutatePhase <- 3,
       limit       <- request.budget.iterations,
       phase       <- Len(traces),
       observed    <- provider.process # "none",
       status      <- IF Done THEN pc ELSE "running",
       reason      <- assessment.reason,
       decision    <- assessment.decision

\* Every step of the call is a step of the controlled loop or a stutter, and
\* the call ends as that loop does.
ImplementsControlledLoop == Loop!Spec

=============================================================================
