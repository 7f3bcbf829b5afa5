---------------------- MODULE TestEngineeringProperties ----------------------
(***************************************************************************)
(* What a run of TestEngineering promises about the candidate it returns.  *)
(***************************************************************************)
EXTENDS TestEngineering, FiniteSets

AttemptType ==
  [number : Nat \ {0}, patch : Patches]

TraceType ==
  [iteration : Nat \ {0},
   action    : {"generate", "parse", "compile", "assertion", "patch-safety", "execute",
                "analyze_failure", "repair", "review"},
   status    : {"completed", "rejected", "failed"}]

Executed == execution # NoExecution

\* The types that test_engineering.py's constructors enforce, and no result, no
\* patch and no status where there is none.
TypeOK ==
  /\ request \in Requests
  /\ pc \in {"start", "generated", "checked", "executed", "returned", "raised"}
  /\ patch \in Patches \union {<<>>}
  /\ gates \in [Gates -> {"absent", "passed", "rejected"}]
  /\ execution \in [passed : BOOLEAN, reason : ExecutionReasons, of : Patches]
                     \union {NoExecution}
  /\ repairs \in Seq(AttemptType)
  /\ traces \in Seq(TraceType)
  /\ status \in [decision : {"accepted", "rejected", "incomplete"},
                 reason   : ExecutionReasons \union {"BUDGET_EXHAUSTED"}] \union {NoStatus}
  /\ (pc = "returned") <=> (status # NoStatus)
  /\ error \in {"none", "other", "PatchSafetyError", "TimeoutOutput"}
  /\ (pc = "raised") <=> (error # "none")

\* A candidate is accepted only if the very patch that is returned, and not an
\* earlier one, passed every gate: it parses, compiles and asserts something, it
\* was run and passed, no severe rule matches, and a runner of this repository
\* found its paths below the test roots.
AcceptedIsChecked ==
  status.decision = "accepted" =>
    /\ InOrder(patch) /\ ~ Findings(patch)
    /\ execution.of = patch /\ execution.passed
    /\ request.backend # "injected" => Safe(patch)
    /\ request.generator /\ request.evidence
    /\ \A g \in Gates \ {"patch-safety"} : gates[g] = "passed"
    /\ gates["patch-safety"] = "absent"

\* Whatever was run had passed preflight, and this repository's runners never run
\* a patch with a file outside the test roots.  A result that does not belong to
\* the current patch is left behind by a patch that was refused or not yet run.
ExecutionIsVetted ==
  Executed =>
    /\ InOrder(execution.of)
    /\ request.backend # "injected" => Safe(execution.of)
    /\ (pc = "executed" \/ gates["execution"] # "absent") => execution.of = patch

\* No more than max_repairs patches are given up, they are numbered without gaps
\* and each was in order and safe to run.
RepairsBounded ==
  /\ Len(repairs) <= request.maxRepairs
  /\ \A i \in DOMAIN repairs :
       /\ repairs[i].number = i
       /\ InOrder(repairs[i].patch)
       /\ request.backend # "injected" => Safe(repairs[i].patch)

\* A patch is given up for a repair only after it was run to the end and failed: a
\* timeout, a missing runner or a success is never repaired.
RepairsAreEarned ==
  [][repairs' # repairs =>
       /\ Executed /\ execution.of = patch
       /\ ~ execution.passed /\ execution.reason = "EVIDENCE_SUFFICIENT"
       /\ repairs' = Append(repairs, [number |-> Len(repairs) + 1, patch |-> patch])]_vars

\* BUDGET_EXHAUSTED means that every repair was used and the last patch was run and
\* failed; TIMEOUT that the last patch's run timed out; a patch that failed is not
\* given up for good while a repair is left; and a rejection names a rejecting gate.
ReasonIsTrue ==
  pc = "returned" =>
    /\ status.reason = "BUDGET_EXHAUSTED" =>
         /\ request.maxRepairs > 0 /\ Len(repairs) = request.maxRepairs
         /\ execution.of = patch
         /\ ~ execution.passed /\ execution.reason = "EVIDENCE_SUFFICIENT"
    /\ status.reason = "TIMEOUT" => execution.of = patch /\ execution.reason = "TIMEOUT"
    /\ gates["execution"] = "rejected" /\ execution.reason = "EVIDENCE_SUFFICIENT" =>
         Len(repairs) = request.maxRepairs
    /\ status.decision = "rejected" => \E g \in Gates : gates[g] = "rejected"

Count(action) == Cardinality({i \in DOMAIN traces : traces[i].action = action})

\* The trace tells what happened: iterations never fall, every run of a patch and
\* every repair is in it, and an accepted candidate's trace ends with its review.
TraceTellsTheRun ==
  /\ \A i \in 1 .. Len(traces) - 1 : traces[i].iteration <= traces[i + 1].iteration
  /\ Count("analyze_failure") = Len(repairs)
  /\ Count("execute") \in {Len(repairs), Len(repairs) + 1}
  /\ status.decision = "accepted" =>
       /\ Count("execute") = Len(repairs) + 1 /\ Count("repair") = Len(repairs)
       /\ traces[Len(traces)].action = "review" /\ Count("review") = 1

\* A run ends if the generator and the backend return or raise: there is no
\* unbounded way round the repair loop.
RunEnds == <>Done

-----------------------------------------------------------------------------
(* What the documents promise and the code does not keep.                  *)

\* docs/superpowers/specs/2026-09-07-v02-closeout-v03-test-engineer-design.md line
\* 21: any failure or timeout rejects the candidate or ends it as insufficient.
\* PytestExecutionBackend's handler of the timeout raises a TypeError when the
\* tests wrote something before they were stopped.
TimeoutIsReported == error # "TimeoutOutput"

=============================================================================
