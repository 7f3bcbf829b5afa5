----------------------------- MODULE LoopOutcome -----------------------------
(***************************************************************************)
(* What _finish may be called with, the contract between the assessment    *)
(* loop and its persistence: EffectivenessProperties shows that the loop   *)
(* keeps it and AssessmentPersistence relies on it.                        *)
(***************************************************************************)
EXTENDS Naturals

FinishReasons == {"EVIDENCE_SUFFICIENT", "INSUFFICIENT_EVIDENCE", "BUDGET_EXHAUSTED",
                  "TIMEOUT", "ERROR"}

\* phases: recorded phases, of at most iterations; observed: there is provider
\* Evidence; hasRun: a MutationRun was built; rows: mutants and results are
\* handed over with it.
OutcomeType == [phases : 1 .. 8, reason : FinishReasons,
                observed : BOOLEAN, hasRun : BOOLEAN, rows : BOOLEAN]

FinishOutcome(iterations) ==
  {o \in OutcomeType :
     /\ o.phases <= iterations
     /\ o.phases = 1 => o.reason \in {"INSUFFICIENT_EVIDENCE", "BUDGET_EXHAUSTED"}
     /\ o.observed => o.phases >= 3
     /\ o.hasRun => o.observed
     /\ ~ o.hasRun => o.phases <= 4
     /\ o.rows => o.hasRun /\ o.phases \in {5, 7, 8}
     /\ o.hasRun /\ ~ o.rows => /\ o.reason = "BUDGET_EXHAUSTED"
                                /\ o.phases = iterations /\ o.phases \in {4, 5, 6}
     /\ o.rows /\ o.phases = 5 => o.reason = "TIMEOUT"
     /\ o.rows /\ o.phases = 7 => o.reason = "BUDGET_EXHAUSTED" /\ iterations = 7
     /\ o.phases = 8 => o.reason \in {"EVIDENCE_SUFFICIENT", "INSUFFICIENT_EVIDENCE"}
     /\ o.reason = "EVIDENCE_SUFFICIENT" => o.phases = 8}

\* A permission was granted, and its Evidence recorded: the call got past
\* UNDERSTAND.
PermissionGiven(o) == o.phases > 1 \/ o.reason = "BUDGET_EXHAUSTED"

=============================================================================
