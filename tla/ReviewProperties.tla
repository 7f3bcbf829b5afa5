--------------------------- MODULE ReviewProperties ---------------------------
(***************************************************************************)
(* What a review promises about its decision, its findings and its limits. *)
(***************************************************************************)
EXTENDS Review

EvidenceType == [kind   : {"git_diff", "static_rule_match", "ai_semantic_review"},
                 path   : Paths \union {Root},
                 status : {"verified", "unverified"}]

FindingType == [source   : {"static-rule", "semantic-reviewer"},
                severity : Severities,
                path     : Paths,
                evidence : Nat \ {0},
                status   : {"verified", "unverified", "partially_verified"}]

Actions == ToolActions \union FileActions \union {"detect", "verify-and-gate"}

GateType == [decision : {"pass", "fail", "incomplete"}, failOn : SUBSET Severities,
             count : Nat, risk : {"high", "low", "unknown"}]

\* The types of ReviewResult and its parts, and the actions of the plan as the
\* labels of the code.
TypeOK ==
  /\ request \in Requests
  /\ pc \in Actions \union {"start", "loop", "returned", "raised"}
  /\ expired \in BOOLEAN /\ gaps \in BOOLEAN
  /\ iteration \in Nat /\ toolCalls \in Nat /\ modelCalls \in Nat
  /\ git \in [diff : {"none", "skipped", "changed", "unchanged", "error", "timeout"},
              gaps : {"none", "skipped", "ok", "error", "timeout"}]
  /\ files \subseteq Paths /\ todo \subseteq files
  /\ trace \in Seq(Actions)
  /\ observations \in Seq([action : Actions, evidence : SUBSET Nat])
  /\ evidence \in Seq(EvidenceType)
  /\ findings \in Seq(FindingType)
  /\ gate \in GateType \union {NoGate}
  /\ decision \in {"pass", "fail", "incomplete"}
  /\ reason \in {"COMPLETED", "TIMEOUT", "BUDGET_EXHAUSTED", "INSUFFICIENT_EVIDENCE"}

Returned == pc = "returned"
Verdict  == Returned /\ decision # "incomplete"

ToolObservations    == {i \in DOMAIN observations : observations[i].action \in ToolActions}
RuleFindingNumbers  == {n \in DOMAIN findings : findings[n].source = "static-rule"}
RuleEvidenceNumbers == {n \in DOMAIN evidence : evidence[n].kind = "static_rule_match"}

\* The result starts as "pass" (review.py:123).  It is returned as pass or fail
\* only after the whole plan: the diff was read, every file was seen by the
\* rules and by the reviewer if there is one, and the gate agrees with the
\* decision, which the severities of the findings alone determine: neither an
\* untested change nor a failed gap search is held against the tests.
VerdictIsEarned ==
  Verdict =>
    /\ trace = Plan(request) /\ Len(observations) = Len(Plan(request))
    /\ git.diff \in {"skipped", "changed", "unchanged"}
    /\ todo = {} /\ (request.semantic => modelCalls = Cardinality(files))
    /\ decision = "fail" <=> \E n \in DOMAIN findings : findings[n].severity \in request.failOn
    /\ gate.decision = decision /\ gate.count = Len(findings) /\ gate.failOn = request.failOn
    /\ gate.risk = "high" <=> decision = "fail"

\* A review that is cut short never carries a pass or fail of the gate: no gate
\* at all, or one that says "incomplete".
IncompleteHasNoVerdict ==
  Returned /\ decision = "incomplete" =>
    /\ reason # "COMPLETED"
    /\ gate.decision \in {"none", "incomplete"}

\* Every finding names Evidence of its own file and of its own origin.  The rules'
\* findings and the rules' Evidence belong to each other one by one: no two of the
\* findings share Evidence, and no Evidence is left without its finding.  A rule's
\* finding is verified by its Evidence.  A reviewer's finding has the status that
\* the reviewer gives it (review.py:256), "verified" included: the code has no
\* upper bound for it, though docs/v0.1-engineering/EVIDENCE_AND_GATES.md:78 puts
\* one at partially_verified by default.  Only its Evidence stays unverified.
FindingsRestOnEvidence ==
  /\ \A n \in DOMAIN findings :
       LET f == findings[n] IN
       /\ f.path \in files
       /\ f.evidence \in DOMAIN evidence
       /\ evidence[f.evidence].path = f.path
       /\ f.source = "static-rule" =>
            f.status = "verified" /\ evidence[f.evidence].kind = "static_rule_match"
       /\ f.source = "semantic-reviewer" =>
            evidence[f.evidence] = Evidence("ai_semantic_review", f.path, "unverified")
  /\ \A m, n \in RuleFindingNumbers : findings[m].evidence = findings[n].evidence => m = n
  /\ \A e \in RuleEvidenceNumbers : \E n \in RuleFindingNumbers : findings[n].evidence = e

\* The actions that ran, the tool calls they made and the calls of the model
\* stay within the request: a refused call is counted and never made.
LimitsHold ==
  /\ Len(trace) <= request.maxActions
  /\ Cardinality(ToolObservations) <= request.maxToolCalls
  /\ modelCalls <= request.maxModelCalls
  /\ toolCalls <= request.maxToolCalls + 1

\* The observations are those of the trace, but for a last action that the tool
\* budget refused, and the rules' observation names all the rules' Evidence.
TraceTellsTheReview ==
  /\ \A i \in DOMAIN observations : observations[i].action = trace[i]
  /\ \/ Len(trace) = Len(observations)
     \/ Len(trace) = Len(observations) + 1 /\ reason = "BUDGET_EXHAUSTED"
  /\ \A i \in 1 .. Len(observations) - 1 : observations[i].action = "run-rules" =>
       \A n \in DOMAIN evidence :
         evidence[n].kind = "static_rule_match" => n \in observations[i].evidence

\* A reason is given only for what happened, and what happened gives one: a
\* timeout has a clock or a git call behind it, an exhausted budget a counter at
\* its limit with work left, insufficient Evidence a cause; COMPLETED none.
ReasonHasCause ==
  Returned =>
    /\ reason = "TIMEOUT" => expired \/ git.diff = "timeout" \/ git.gaps = "timeout"
    /\ reason = "BUDGET_EXHAUSTED" =>
         \/ iteration > request.maxActions
         \/ toolCalls > request.maxToolCalls
         \/ modelCalls = request.maxModelCalls /\ todo # {}
    /\ reason = "INSUFFICIENT_EVIDENCE" =>
         \/ ~ request.isDir \/ git.diff = "error"
         \/ git.gaps # "none" /\ ~ Sufficient
    /\ git.diff = "timeout" => reason = "TIMEOUT"
    /\ git.diff = "error" => reason = "INSUFFICIENT_EVIDENCE"
    /\ git.gaps = "timeout" => reason \in {"TIMEOUT", "INSUFFICIENT_EVIDENCE"}

\* A review returns or raises.
ReviewEnds == <>Ended

-----------------------------------------------------------------------------
(***************************************************************************)
(* What the code or a document says and the code does not do.              *)
(***************************************************************************)

\* review.py:349 makes a review whose gap search is stopped incomplete, as every
\* other place that gives a reason does; line 268 then writes pass or fail.
TimeoutIsIncomplete == Returned /\ reason = "TIMEOUT" => decision = "incomplete"

=============================================================================
