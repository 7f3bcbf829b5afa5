-------------------------------- MODULE Review --------------------------------
(***************************************************************************)
(* ReviewService._review (review.py): a fixed plan of actions, each behind *)
(* the clock, the iteration budget and, for three of them, the tool        *)
(* budget.  Findings are gathered by the rules and by an optional semantic *)
(* reviewer, and the last action verifies them and decides.                *)
(*                                                                         *)
(* Test files are numbers in the order of sorted().  A rule is its         *)
(* severity, after rule_severity and without suppressed matches.           *)
(* findings[n] is the Finding F-n and evidence[n] the Evidence EV-n: the   *)
(* position in the report, which the sort at 263 gives, is left out.       *)
(***************************************************************************)
EXTENDS Integers, Sequences, FiniteSets

CONSTANTS Paths,       \* the test files a repository may have
          MatchLists,  \* what the rules may find in a file: severities in order
          IssueCounts, \* how many issues the semantic reviewer may answer with
          Requests     \* the requests that may be made

Severities == {"critical", "high", "medium", "low"}

\* isDir: the repository is a directory.  base: a base is given, and .git is
\* there.  semantic: a reviewer with a provider.
RequestType ==
  [isDir : BOOLEAN, base : BOOLEAN, semantic : BOOLEAN, failOn : SUBSET Severities,
   maxActions : Nat, maxToolCalls : Nat, maxModelCalls : Nat, maxFiles : Nat]

ASSUME PathsTyped    == Paths \subseteq Nat \ {0} /\ IsFiniteSet(Paths)
ASSUME MatchesTyped  == MatchLists \subseteq Seq(Severities)
ASSUME IssuesTyped   == IssueCounts \subseteq Nat
ASSUME RequestsTyped == Requests \subseteq RequestType

Root == 0    \* the path "." of the Evidence of a diff

ToolActions == {"inspect-diff", "discover-tests", "run-rules"}
FileActions == {"run-rules", "semantic-review"}

\* ReviewPlanner.plan, with the semantic review inserted in front of its end.
Plan(r) ==
  IF r.semantic
  THEN <<"detect", "inspect-diff", "discover-tests", "run-rules", "semantic-review",
         "verify-and-gate">>
  ELSE <<"detect", "inspect-diff", "discover-tests", "run-rules", "verify-and-gate">>

VARIABLES
  request,       \* the ReviewRequest
  pc,            \* "loop" in front of an action, or the action that runs
  expired,       \* timeout_seconds have passed
  iteration,     \* state.iteration
  toolCalls,
  modelCalls,
  git,           \* how the diff and the gap search went
  files,         \* the test files that are reviewed
  todo,          \* those the running action has still to read
  trace,         \* result.trace
  observations,  \* result.observations, and result.loop_trace with them
  evidence,
  findings,
  gaps,          \* coverage_gaps is not empty
  gate,
  decision,
  reason

counters == <<iteration, toolCalls, modelCalls>>
scope    == <<request, files, git>>
records  == <<trace, observations>>
facts    == <<evidence, findings>>
verdict  == <<gate, decision, reason>>
vars     == <<counters, scope, records, facts, verdict, pc, expired, todo, gaps>>

-----------------------------------------------------------------------------
NoGate == [decision |-> "none", failOn |-> {}, count |-> 0, risk |-> "none"]

GateResult(answer, failOn, count, risk) ==
  [decision |-> answer, failOn |-> failOn, count |-> count, risk |-> risk]

Unknown(failOn) == GateResult("incomplete", failOn, 0, "unknown")

Observed(action, ids) == [action |-> action, evidence |-> ids]

Evidence(kind, path, status) == [kind |-> kind, path |-> path, status |-> status]

Finding(source, severity, path, id, status) ==
  [source |-> source, severity |-> severity, path |-> path, evidence |-> id, status |-> status]

\* Mutant: all the matches in a file are findings on the Evidence of the first.
RuleFindingsShared(path, matches) ==
  [n \in 1 .. Len(matches) |->
     Finding("static-rule", matches[n], path, Len(evidence) + 1, "verified")]

\* One Evidence and one Finding for each match in a file.
RuleFindings(path, matches) ==
  [n \in 1 .. Len(matches) |->
     Finding("static-rule", matches[n], path, Len(evidence) + n, "verified")]

RuleEvidence(path, matches) ==
  [n \in 1 .. Len(matches) |-> Evidence("static_rule_match", path, "verified")]

SemanticFindings(path, issues, status) ==
  [n \in 1 .. issues |->
     Finding("semantic-reviewer", "medium", path, Len(evidence) + 1, status)]

\* EvidenceVerifier.verify, for the findings of rules only.
VerificationOf(finding) ==
  IF finding.source # "static-rule" THEN finding.status
  ELSE IF finding.evidence \in DOMAIN evidence THEN "verified" ELSE "unverified"

Verified ==
  [n \in DOMAIN findings |-> [findings[n] EXCEPT !.status = VerificationOf(findings[n])]]

Sufficient == findings = <<>> \/ Len(evidence) >= Len(findings)

Blocking == \E n \in DOMAIN findings : findings[n].severity \in request.failOn

-----------------------------------------------------------------------------
Init ==
  /\ request \in Requests
  /\ pc = "start" /\ expired = FALSE
  /\ iteration = 0 /\ toolCalls = 0 /\ modelCalls = 0
  /\ git = [diff |-> "none", gaps |-> "none"]
  /\ files = {} /\ todo = {}
  /\ trace = <<>> /\ observations = <<>>
  /\ evidence = <<>> /\ findings = <<>> /\ gaps = FALSE
  /\ gate = NoGate /\ decision = "pass" /\ reason = "COMPLETED"

\* The clock runs whatever the review does.
TimePasses ==
  /\ ~ expired
  /\ expired' = TRUE
  /\ UNCHANGED <<counters, scope, records, facts, verdict, pc, todo, gaps>>

\* Mutants: an early return keeps the decision that the result starts with, or
\* does not return.
StopSilently(why) ==
  /\ pc' = "returned"
  /\ reason' = why /\ UNCHANGED decision

StopForgotten(why) ==
  /\ UNCHANGED pc
  /\ reason' = why /\ decision' = "incomplete"

\* The early returns: the reason, and "incomplete".
Stop(why) ==
  /\ pc' = "returned"
  /\ reason' = why /\ decision' = "incomplete"

\* The end of an action: the next one, or the end of the plan.
Proceed ==
  pc' = IF iteration = Len(Plan(request)) THEN "returned" ELSE "loop"

Start ==
  /\ pc = "start"
  /\ IF request.isDir
     THEN pc' = "loop" /\ UNCHANGED verdict
     ELSE Stop("INSUFFICIENT_EVIDENCE") /\ gate' = Unknown(request.failOn)
  /\ UNCHANGED <<counters, scope, records, facts, expired, todo, gaps>>

\* The clock in front of an action.
TimeOut ==
  /\ pc = "loop" /\ expired
  /\ Stop("TIMEOUT")
  /\ UNCHANGED <<counters, scope, records, facts, gate, expired, todo, gaps>>

\* TerminationPolicy.should_stop.
ExhaustActions ==
  /\ pc = "loop" /\ ~ expired
  /\ iteration + 1 > request.maxActions
  /\ iteration' = iteration + 1
  /\ Stop("BUDGET_EXHAUSTED")
  /\ UNCHANGED <<toolCalls, modelCalls, scope, records, facts, gate, expired, todo, gaps>>

\* Mutant: the last call of the budget is refused.
ToolsLeftStrictly(calls) == calls < request.maxToolCalls

ToolsLeft(calls) == calls <= request.maxToolCalls

\* The action is named in the trace and its tool call counted, also when the
\* tool budget then refuses it.
Begin ==
  /\ pc = "loop" /\ ~ expired
  /\ iteration + 1 <= request.maxActions
  /\ iteration' = iteration + 1
  /\ LET action == Plan(request)[iteration + 1] IN
     /\ trace' = Append(trace, action)
     /\ toolCalls' = IF action \in ToolActions THEN toolCalls + 1 ELSE toolCalls
     /\ IF action \in ToolActions /\ ~ ToolsLeft(toolCalls')
        THEN Stop("BUDGET_EXHAUSTED") /\ UNCHANGED <<observations, todo>>
        ELSE /\ pc' = action
             /\ observations' = Append(observations, Observed(action, {}))
             /\ todo' = IF action \in FileActions THEN files ELSE {}
             /\ UNCHANGED <<decision, reason>>
  /\ UNCHANGED <<modelCalls, scope, facts, gate, expired, gaps>>

-----------------------------------------------------------------------------
Detect ==
  /\ pc = "detect"
  /\ Proceed
  /\ UNCHANGED <<counters, scope, records, facts, verdict, expired, todo, gaps>>

\* _diff_evidence: four git calls of ten seconds each.
InspectDiff ==
  /\ pc = "inspect-diff"
  /\ \E outcome \in IF request.base THEN {"changed", "unchanged", "error", "timeout"}
                    ELSE {"skipped"} :
       /\ git' = [git EXCEPT !.diff = outcome]
       /\ \/ /\ outcome = "timeout"
             /\ Stop("TIMEOUT") /\ gate' = Unknown({"critical"})
          \/ /\ outcome = "error"
             /\ Stop("INSUFFICIENT_EVIDENCE") /\ gate' = Unknown({"critical"})
          \/ /\ outcome \in {"changed", "unchanged", "skipped"}
             /\ Proceed /\ UNCHANGED verdict
       /\ evidence' = IF outcome = "changed"
                      THEN Append(evidence, Evidence("git_diff", Root, "verified"))
                      ELSE evidence
  /\ UNCHANGED <<counters, request, files, records, findings, expired, todo, gaps>>

\* The first max_files of the candidates.
FirstFiles(candidates) ==
  {p \in candidates : Cardinality({q \in candidates : q <= p}) <= request.maxFiles}

\* Any of the files may be candidates, also after an empty diff: its text and the
\* names of the changed files are answers of different git calls.
DiscoverTests ==
  /\ pc = "discover-tests"
  /\ \E candidates \in SUBSET Paths : files' = FirstFiles(candidates)
  /\ Proceed
  /\ UNCHANGED <<counters, request, git, records, facts, verdict, expired, todo, gaps>>

First(path) == path \in todo /\ \A other \in todo : path <= other

\* _review_test of every test in the next file.
RuleOneFile(path) ==
  /\ \E matches \in MatchLists :
       /\ evidence' = evidence \o RuleEvidence(path, matches)
       /\ findings' = findings \o RuleFindings(path, matches)
  /\ todo' = todo \ {path}
  /\ UNCHANGED <<pc, records>>

\* Mutant: the ids of the Findings for those of the Evidence.
RulesDoneByFinding ==
  /\ todo = {}
  /\ observations' = [observations EXCEPT ![iteration] = Observed(pc, DOMAIN findings)]
  /\ Proceed
  /\ UNCHANGED <<facts, todo, trace>>

\* The observation of the action gets the ids of all the Evidence.
RulesDone ==
  /\ todo = {}
  /\ observations' = [observations EXCEPT ![iteration] = Observed(pc, DOMAIN evidence)]
  /\ Proceed
  /\ UNCHANGED <<facts, todo, trace>>

RunRules ==
  /\ pc = "run-rules"
  /\ RulesDone \/ \E path \in todo : First(path) /\ RuleOneFile(path)
  /\ UNCHANGED <<counters, scope, verdict, expired, gaps>>

ModelCallsLeft == modelCalls < request.maxModelCalls

\* The provider answers with any number of issues and any status.
AskReviewer(path) ==
  /\ modelCalls' = modelCalls + 1
  /\ \E issues \in IssueCounts, status \in {"unverified", "partially_verified", "verified"} :
       IF issues = 0 THEN UNCHANGED facts
       ELSE /\ evidence' = Append(evidence, Evidence("ai_semantic_review", path, "unverified"))
            /\ findings' = findings \o SemanticFindings(path, issues, status)
  /\ todo' = todo \ {path}
  /\ UNCHANGED <<pc, verdict>>

SemanticReview ==
  /\ pc = "semantic-review"
  /\ \/ todo = {} /\ Proceed /\ UNCHANGED <<modelCalls, facts, verdict, todo>>
     \/ /\ todo # {} /\ ~ ModelCallsLeft
        /\ Stop("BUDGET_EXHAUSTED")
        /\ UNCHANGED <<modelCalls, facts, gate, todo>>
     \/ ModelCallsLeft /\ \E path \in todo : First(path) /\ AskReviewer(path)
  /\ UNCHANGED <<iteration, toolCalls, scope, records, expired, gaps>>

\* _find_related_test_gaps: a timeout gives the reason, an error is ignored, a
\* changed file without a related test is a gap.
SearchGaps(outcome) ==
  /\ outcome \in IF request.base THEN {"ok", "error", "timeout"} ELSE {"skipped"}
  /\ git' = [git EXCEPT !.gaps = outcome]
  /\ IF outcome = "ok" THEN gaps' \in BOOLEAN ELSE UNCHANGED gaps

\* The decision of a timeout is written over, its reason is not unless the
\* Evidence does not suffice.
VerifyAndGate ==
  /\ pc = "verify-and-gate"
  /\ \E outcome \in {"ok", "error", "timeout", "skipped"} :
       /\ SearchGaps(outcome)
       /\ findings' = Verified
       /\ IF ~ Sufficient
          THEN Stop("INSUFFICIENT_EVIDENCE") /\ UNCHANGED gate
          ELSE /\ reason' = IF outcome = "timeout" THEN "TIMEOUT" ELSE reason
               /\ decision' = IF Blocking THEN "fail" ELSE "pass"
               /\ gate' = GateResult(decision', request.failOn, Len(findings),
                                     IF Blocking THEN "high" ELSE "low")
               /\ pc' = "returned"
  /\ UNCHANGED <<counters, request, files, records, evidence, expired, todo>>

\* A file that vanished, git that cannot be started, a provider that fails.
Fails ==
  /\ \/ pc \in {"detect", "discover-tests"}
     \/ pc \in {"inspect-diff", "verify-and-gate"} /\ request.base
     \/ pc = "run-rules" /\ todo # {}
     \/ pc = "semantic-review" /\ todo # {} /\ ModelCallsLeft
  /\ pc' = "raised"
  /\ modelCalls' = IF pc = "semantic-review" THEN modelCalls + 1 ELSE modelCalls
  /\ UNCHANGED <<iteration, toolCalls, scope, records, facts, verdict, expired, todo, gaps>>

Ended == pc \in {"returned", "raised"}

Step == \/ Start \/ TimeOut \/ ExhaustActions \/ Begin \/ Detect \/ InspectDiff
        \/ DiscoverTests \/ RunRules \/ SemanticReview \/ VerifyAndGate \/ Fails

Next == Step \/ TimePasses

SafetySpec == Init /\ [][Next]_vars
Spec       == SafetySpec /\ WF_vars(Step)

=============================================================================
