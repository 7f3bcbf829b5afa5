---------------------------- MODULE ReviewProofs ----------------------------
(***************************************************************************)
(* Proofs about Review for all files, matches, requests and budgets.       *)
(***************************************************************************)
EXTENDS ReviewProperties, SequenceTheorems, FiniteSetTheorems, TLAPS

-----------------------------------------------------------------------------
(* Types.                                                                  *)

\* The plan has five or six actions, and what they are.
LEMMA PlanShape ==
  ASSUME NEW r
  PROVE  /\ Len(Plan(r)) \in 5 .. 6
         /\ Len(Plan(r)) = 6 <=> r.semantic
         /\ \A i \in 1 .. Len(Plan(r)) : Plan(r)[i] \in Actions
         /\ Plan(r)[1] = "detect" /\ Plan(r)[2] = "inspect-diff"
         /\ Plan(r)[3] = "discover-tests" /\ Plan(r)[4] = "run-rules"
         /\ Plan(r)[5] = IF r.semantic THEN "semantic-review" ELSE "verify-and-gate"
         /\ r.semantic => Plan(r)[6] = "verify-and-gate"
         /\ Plan(r) \in Seq(Actions)
<1>1. CASE r.semantic
  BY <1>1 DEF Plan, Actions, ToolActions, FileActions
<1>2. CASE ~ r.semantic
  BY <1>2 DEF Plan, Actions, ToolActions, FileActions
<1> QED
  BY <1>1, <1>2

\* A function on 1 .. n is a list of n.
LEMMA MappingIsList ==
  ASSUME NEW S, NEW n \in Nat, NEW f \in [1 .. n -> S]
  PROVE  f \in Seq(S) /\ Len(f) = n
OBVIOUS

\* Adding to a list by mapping the numbers 1 .. n.
LEMMA GrowByMapping ==
  ASSUME NEW S, NEW s \in Seq(S), NEW n \in Nat, NEW f \in [1 .. n -> S]
  PROVE  s \o f \in Seq(S)
BY MappingIsList, ConcatProperties

\* What a file adds to Evidence and findings has the types of their records.
LEMMA RuleFactsTyped ==
  ASSUME TypeOK, NEW path \in Paths, NEW matches \in MatchLists
  PROVE  /\ evidence \o RuleEvidence(path, matches) \in Seq(EvidenceType)
         /\ findings \o RuleFindings(path, matches) \in Seq(FindingType)
<1>1. Len(matches) \in Nat /\ \A n \in 1 .. Len(matches) : matches[n] \in Severities
  BY MatchesTyped
<1>2. Len(evidence) \in Nat
  BY DEF TypeOK
<1>3. RuleEvidence(path, matches) \in [1 .. Len(matches) -> EvidenceType]
  BY DEF RuleEvidence, Evidence, EvidenceType
<1>4. RuleFindings(path, matches) \in [1 .. Len(matches) -> FindingType]
  <2> SUFFICES ASSUME NEW n \in 1 .. Len(matches)
               PROVE  Finding("static-rule", matches[n], path, Len(evidence) + n, "verified")
                        \in FindingType
    BY DEF RuleFindings
  <2>1. Len(evidence) + n \in Nat \ {0} /\ matches[n] \in Severities
    BY <1>1, <1>2
  <2> QED
    BY <2>1 DEF Finding, FindingType
<1> QED
  BY <1>1, <1>3, <1>4, GrowByMapping DEF TypeOK

\* So has what the reviewer adds.
LEMMA SemanticFactsTyped ==
  ASSUME TypeOK, NEW path \in Paths, NEW issues \in Nat,
         NEW status \in {"unverified", "partially_verified", "verified"}
  PROVE  /\ Append(evidence, Evidence("ai_semantic_review", path, "unverified"))
              \in Seq(EvidenceType)
         /\ findings \o SemanticFindings(path, issues, status) \in Seq(FindingType)
<1>1. Len(evidence) + 1 \in Nat \ {0}
  BY DEF TypeOK
<1>2. SemanticFindings(path, issues, status) \in [1 .. issues -> FindingType]
  BY <1>1 DEF SemanticFindings, Finding, FindingType, Severities
<1>3. Evidence("ai_semantic_review", path, "unverified") \in EvidenceType
  BY DEF Evidence, EvidenceType
<1> QED
  BY <1>2, <1>3, GrowByMapping, AppendProperties DEF TypeOK

\* Verifying keeps the findings but for their status.
LEMMA VerifiedTyped ==
  ASSUME TypeOK
  PROVE  Verified \in Seq(FindingType) /\ Len(Verified) = Len(findings)
<1>1. DOMAIN findings = 1 .. Len(findings) /\ Len(findings) \in Nat
  BY DEF TypeOK
<1>2. \A n \in DOMAIN findings :
        [findings[n] EXCEPT !.status = VerificationOf(findings[n])] \in FindingType
  <2> SUFFICES ASSUME NEW n \in DOMAIN findings
               PROVE  [findings[n] EXCEPT !.status = VerificationOf(findings[n])] \in FindingType
    OBVIOUS
  <2>1. findings[n] \in FindingType
    BY <1>1 DEF TypeOK
  <2>2. VerificationOf(findings[n]) \in {"verified", "unverified", "partially_verified"}
    BY <2>1 DEF VerificationOf, FindingType
  <2> QED
    BY <2>1, <2>2 DEF FindingType
<1>3. Verified \in [1 .. Len(findings) -> FindingType]
  BY <1>1, <1>2 DEF Verified
<1> QED
  BY <1>1, <1>3, MappingIsList

\* The ids that an observation gets are numbers.
LEMMA NamedTyped ==
  ASSUME TypeOK, NEW action \in Actions
  PROVE  [observations EXCEPT ![iteration] = Observed(action, DOMAIN evidence)]
           \in Seq([action : Actions, evidence : SUBSET Nat])
         /\ Len([observations EXCEPT ![iteration] = Observed(action, DOMAIN evidence)])
              = Len(observations)
<1> DEFINE named == [observations EXCEPT ![iteration] = Observed(action, DOMAIN evidence)]
           Observation == [action : Actions, evidence : SUBSET Nat]
<1>1. Observed(action, DOMAIN evidence) \in Observation
  BY DEF TypeOK, Observed
<1>2. observations \in Seq(Observation)
  BY DEF TypeOK
<1> HIDE DEF Observation
<1>3. Len(observations) \in Nat /\ observations \in [1 .. Len(observations) -> Observation]
  BY <1>2, LenProperties
<1>4. named \in [1 .. Len(observations) -> Observation]
  BY <1>1, <1>3
<1> HIDE DEF named
<1>5. named \in Seq(Observation) /\ Len(named) = Len(observations)
  BY <1>3, <1>4, MappingIsList
<1> QED
  BY <1>5 DEF named, Observation

\* Where in the plan each label of the code is: TypeOK alone does not say that
\* there is a next action to begin.
LabelInv ==
  /\ pc = "start" => iteration = 0
  /\ pc = "loop" => iteration < Len(Plan(request))
  /\ pc \in Actions => /\ iteration \in 1 .. Len(Plan(request))
                       /\ pc = Plan(request)[iteration]
  /\ pc \notin FileActions \union {"returned", "raised"} => todo = {}

TypeInv == TypeOK /\ LabelInv

\* The initial state has the types.
LEMMA InitTyped == Init => TypeInv
<1> SUFFICES ASSUME Init PROVE TypeInv
  OBVIOUS
<1> USE DEF Init, Actions, ToolActions, FileActions
<1>1. LabelInv
  BY DEF LabelInv
<1>2. /\ trace \in Seq(Actions) /\ evidence \in Seq(EvidenceType) /\ findings \in Seq(FindingType)
      /\ observations \in Seq([action : Actions, evidence : SUBSET Nat])
  OBVIOUS
<1>3. TypeOK
  BY <1>2 DEF TypeOK
<1> QED
  BY <1>1, <1>3 DEF TypeInv

\* After an action the review is in front of another, or has returned.
LEMMA ProceedLabels ==
  ASSUME TypeInv, pc \in Actions, Proceed, UNCHANGED <<request, iteration>>, todo' = {}
  PROVE  LabelInv' /\ pc' \in Actions \union {"start", "loop", "returned", "raised"}
<1>1. /\ Len(Plan(request)) \in Nat
      /\ iteration \in 1 .. Len(Plan(request))
      /\ pc' = IF iteration = Len(Plan(request)) THEN "returned" ELSE "loop"
  BY PlanShape DEF TypeInv, LabelInv, Proceed
<1>2. Actions = {"detect", "inspect-diff", "discover-tests", "run-rules", "semantic-review",
                 "verify-and-gate"}
  BY DEF Actions, ToolActions, FileActions
<1> QED
  BY <1>1, <1>2 DEF LabelInv

\* Every step keeps the types of review.py's records, and its place in the plan.
LEMMA NextTyped == TypeInv /\ [Next]_vars => TypeInv'
<1> SUFFICES ASSUME TypeInv, [Next]_vars PROVE TypeInv'
  OBVIOUS
<1> USE DEF counters, scope, records, facts, verdict
<1>0. /\ TypeOK /\ LabelInv
      /\ request \in RequestType /\ request.failOn \in SUBSET Severities
      /\ Len(Plan(request)) \in 5 .. 6
      /\ Len(findings) \in Nat
  <2>1. TypeOK /\ LabelInv
    BY DEF TypeInv
  <2>2. request \in RequestType
    BY <2>1, RequestsTyped DEF TypeOK
  <2>3. Len(findings) \in Nat
    BY <2>1, LenProperties DEF TypeOK
  <2>4. Len(Plan(request)) \in 5 .. 6
    BY PlanShape
  <2> QED
    BY <2>1, <2>2, <2>3, <2>4 DEF RequestType
<1>a. {"detect", "inspect-diff", "discover-tests", "run-rules", "semantic-review",
       "verify-and-gate"} = Actions
  BY DEF Actions, ToolActions, FileActions
<1>c. FileActions = {"run-rules", "semantic-review"}
  BY DEF FileActions
<1>b. Unknown(request.failOn) \in GateType /\ Unknown({"critical"}) \in GateType
  BY <1>0 DEF Unknown, GateResult, GateType, Severities
<1>1. CASE Start
  <2>1. LabelInv'
    <3>1. /\ pc' \in {"loop", "returned"} /\ pc = "start"
          /\ UNCHANGED <<request, iteration, todo>>
      BY <1>1 DEF Start, Stop
    <3>2. iteration = 0 /\ todo = {} /\ Len(Plan(request)) > 0
      BY <1>0, <1>c, <3>1 DEF LabelInv
    <3> QED
      BY <1>a, <1>c, <3>1, <3>2 DEF LabelInv
  <2>2. TypeOK'
    BY <1>0, <1>1, <1>b DEF Start, Stop, TypeOK
  <2> QED
    BY <2>1, <2>2 DEF TypeInv
<1>2. CASE TimeOut
  BY <1>0, <1>2, <1>a, <1>c DEF TimeOut, Stop, TypeInv, TypeOK, LabelInv
<1>3. CASE ExhaustActions
  <2>1. LabelInv'
    BY <1>0, <1>3, <1>a, <1>c DEF ExhaustActions, Stop, LabelInv
  <2>2. TypeOK'
    BY <1>0, <1>3 DEF ExhaustActions, Stop, TypeOK
  <2> QED
    BY <2>1, <2>2 DEF TypeInv
<1>4. CASE Begin
  <2> DEFINE action == Plan(request)[iteration + 1]
  <2>1. /\ iteration + 1 \in 1 .. Len(Plan(request)) /\ action \in Actions
        /\ iteration' = iteration + 1 /\ request' = request
    <3>1. pc = "loop" /\ iteration \in Nat /\ iteration' = iteration + 1 /\ request' = request
      BY <1>0, <1>4 DEF Begin, TypeOK
    <3>2. iteration + 1 \in 1 .. Len(Plan(request))
      BY <1>0, <3>1 DEF LabelInv
    <3> QED
      BY <3>1, <3>2, PlanShape
  <2>2. /\ trace' = Append(trace, action)
        /\ toolCalls' \in Nat
        /\ \/ Stop("BUDGET_EXHAUSTED") /\ UNCHANGED <<observations, todo>>
           \/ /\ pc' = action
              /\ observations' = Append(observations, Observed(action, {}))
              /\ todo' = IF action \in FileActions THEN files ELSE {}
              /\ UNCHANGED <<decision, reason>>
        /\ UNCHANGED <<modelCalls, scope, facts, gate, expired, gaps>>
    BY <1>0, <1>4 DEF Begin, TypeOK
  <2>3. trace' \in Seq(Actions)
    BY <1>0, <2>1, <2>2, AppendProperties DEF TypeOK
  <2>4. observations' \in Seq([action : Actions, evidence : SUBSET Nat])
    <3>1. Observed(action, {}) \in [action : Actions, evidence : SUBSET Nat]
      BY <2>1 DEF Observed
    <3>2. observations \in Seq([action : Actions, evidence : SUBSET Nat])
      BY <1>0 DEF TypeOK
    <3>3. CASE observations' = Append(observations, Observed(action, {}))
      BY <3>1, <3>2, <3>3, AppendProperties
    <3>4. CASE UNCHANGED observations
      BY <3>2, <3>4
    <3> QED
      BY <2>2, <3>3, <3>4
  <2>5. LabelInv'
    BY <1>0, <1>a, <1>c, <2>1, <2>2 DEF LabelInv, Stop
  <2>6. TypeOK'
    BY <1>0, <2>1, <2>2, <2>3, <2>4 DEF TypeOK, Stop
  <2> QED
    BY <2>5, <2>6 DEF TypeInv
<1>5. CASE Detect
  BY <1>0, <1>5, <1>a, <1>c, ProceedLabels DEF Detect, TypeInv, TypeOK, LabelInv
<1>6. CASE InspectDiff
  <2>1. PICK outcome \in {"changed", "unchanged", "error", "timeout", "skipped"} :
          /\ git' = [git EXCEPT !.diff = outcome]
          /\ \/ Stop("TIMEOUT") /\ gate' = Unknown({"critical"})
             \/ Stop("INSUFFICIENT_EVIDENCE") /\ gate' = Unknown({"critical"})
             \/ Proceed /\ UNCHANGED verdict
          /\ evidence' = IF outcome = "changed"
                         THEN Append(evidence, Evidence("git_diff", Root, "verified"))
                         ELSE evidence
    BY <1>6 DEF InspectDiff
  <2>2. /\ pc = "inspect-diff"
        /\ UNCHANGED <<counters, request, files, records, findings, expired, todo, gaps>>
    BY <1>6 DEF InspectDiff
  <2>3. evidence' \in Seq(EvidenceType)
    <3>1. Evidence("git_diff", Root, "verified") \in EvidenceType
      BY DEF Evidence, EvidenceType
    <3> QED
      BY <1>0, <2>1, <3>1, AppendProperties DEF TypeOK
  <2>4. /\ git' \in [diff : {"none", "skipped", "changed", "unchanged", "error", "timeout"},
                     gaps : {"none", "skipped", "ok", "error", "timeout"}]
    BY <1>0, <2>1 DEF TypeOK
  <2>5. LabelInv' /\ pc' \in Actions \union {"start", "loop", "returned", "raised"}
    <3>1. CASE Proceed
      BY <1>0, <1>a, <1>c, <2>2, <3>1, ProceedLabels DEF LabelInv
    <3>2. CASE pc' = "returned"
      BY <1>a, <1>c, <3>2 DEF LabelInv
    <3> QED
      BY <2>1, <3>1, <3>2 DEF Stop
  <2>6. /\ gate' \in GateType \union {NoGate} /\ decision' \in {"pass", "fail", "incomplete"}
        /\ reason' \in {"COMPLETED", "TIMEOUT", "BUDGET_EXHAUSTED", "INSUFFICIENT_EVIDENCE"}
    BY <1>0, <1>b, <2>1 DEF TypeOK, Stop
  <2> QED
    BY <1>0, <2>2, <2>3, <2>4, <2>5, <2>6 DEF TypeInv, TypeOK
<1>7. CASE DiscoverTests
  <2>1. files' \subseteq Paths
    BY <1>7 DEF DiscoverTests, FirstFiles
  <2>2. todo = {}
    BY <1>0, <1>7, <1>c DEF DiscoverTests, LabelInv
  <2> QED
    BY <1>0, <1>7, <1>a, <2>1, <2>2, ProceedLabels DEF DiscoverTests, TypeInv, TypeOK
<1>8. CASE RunRules
  <2>1. /\ pc = "run-rules"
        /\ UNCHANGED <<counters, scope, verdict, expired, gaps>>
    BY <1>8 DEF RunRules
  <2>2. CASE RulesDone
    <3>1. /\ observations' = [observations EXCEPT ![iteration] = Observed(pc, DOMAIN evidence)]
          /\ Proceed /\ UNCHANGED <<facts, todo, trace>>
      BY <2>2 DEF RulesDone
    <3>2. observations' \in Seq([action : Actions, evidence : SUBSET Nat])
      BY <1>0, <1>a, <2>1, <3>1, NamedTyped
    <3>3. LabelInv' /\ pc' \in Actions \union {"start", "loop", "returned", "raised"}
      BY <1>a, <2>1, <2>2, <3>1, ProceedLabels DEF RulesDone
    <3> QED
      BY <1>0, <2>1, <3>1, <3>2, <3>3 DEF TypeInv, TypeOK
  <2>3. CASE \E path \in todo : First(path) /\ RuleOneFile(path)
    <3>1. PICK path \in todo : RuleOneFile(path)
      BY <2>3
    <3>2. path \in Paths /\ todo' \subseteq todo /\ UNCHANGED <<pc, records>>
      BY <1>0, <3>1 DEF RuleOneFile, TypeOK
    <3>3. evidence' \in Seq(EvidenceType) /\ findings' \in Seq(FindingType)
      BY <1>0, <3>1, <3>2, RuleFactsTyped DEF RuleOneFile
    <3> QED
      BY <1>0, <1>c, <2>1, <3>2, <3>3 DEF TypeInv, TypeOK, LabelInv
  <2> QED
    BY <1>8, <2>2, <2>3 DEF RunRules
<1>9. CASE SemanticReview
  <2>1. /\ pc = "semantic-review"
        /\ UNCHANGED <<iteration, toolCalls, scope, records, expired, gaps>>
    BY <1>9 DEF SemanticReview
  <2>2. CASE todo = {} /\ Proceed /\ UNCHANGED <<modelCalls, facts, verdict, todo>>
    BY <1>0, <1>a, <2>1, <2>2, ProceedLabels DEF TypeInv, TypeOK
  <2>3. CASE Stop("BUDGET_EXHAUSTED") /\ UNCHANGED <<modelCalls, facts, gate, todo>>
    BY <1>0, <1>a, <2>1, <2>3 DEF Stop, TypeInv, TypeOK, LabelInv
  <2>4. CASE \E path \in todo : First(path) /\ AskReviewer(path)
    <3>1. PICK path \in todo : AskReviewer(path)
      BY <2>4
    <3>2. /\ path \in Paths /\ todo' \subseteq todo /\ UNCHANGED <<pc, verdict>>
          /\ modelCalls' \in Nat
      BY <1>0, <3>1 DEF AskReviewer, TypeOK
    <3>3. evidence' \in Seq(EvidenceType) /\ findings' \in Seq(FindingType)
      <4>1. PICK issues \in IssueCounts, status \in {"unverified", "partially_verified", "verified"} :
              IF issues = 0 THEN UNCHANGED facts
              ELSE /\ evidence' = Append(evidence,
                                         Evidence("ai_semantic_review", path, "unverified"))
                   /\ findings' = findings \o SemanticFindings(path, issues, status)
        BY <3>1 DEF AskReviewer
      <4>2. issues \in Nat
        BY IssuesTyped
      <4>3. CASE issues = 0
        BY <1>0, <4>1, <4>3 DEF TypeOK
      <4>4. CASE issues # 0
        BY <1>0, <3>2, <4>1, <4>2, <4>4, SemanticFactsTyped
      <4> QED
        BY <4>3, <4>4
    <3> QED
      BY <1>0, <1>c, <2>1, <3>2, <3>3 DEF TypeInv, TypeOK, LabelInv
  <2> QED
    BY <1>9, <2>2, <2>3, <2>4 DEF SemanticReview
<1>10. CASE VerifyAndGate
  <2>1. PICK outcome \in {"ok", "error", "timeout", "skipped"} :
          /\ SearchGaps(outcome)
          /\ findings' = Verified
          /\ \/ Stop("INSUFFICIENT_EVIDENCE") /\ UNCHANGED gate
             \/ /\ reason' = IF outcome = "timeout" THEN "TIMEOUT" ELSE reason
                /\ decision' = IF Blocking THEN "fail" ELSE "pass"
                /\ gate' = GateResult(decision', request.failOn, Len(findings),
                                      IF Blocking THEN "high" ELSE "low")
                /\ pc' = "returned"
    BY <1>10 DEF VerifyAndGate
  <2>2. UNCHANGED <<counters, request, files, records, evidence, expired, todo>>
    BY <1>10 DEF VerifyAndGate
  <2>3. git' \in [diff : {"none", "skipped", "changed", "unchanged", "error", "timeout"},
                  gaps : {"none", "skipped", "ok", "error", "timeout"}] /\ gaps' \in BOOLEAN
    BY <1>0, <2>1 DEF SearchGaps, TypeOK
  <2>4. findings' \in Seq(FindingType)
    BY <1>0, <2>1, VerifiedTyped
  <2>5. /\ decision' \in {"pass", "fail", "incomplete"}
        /\ reason' \in {"COMPLETED", "TIMEOUT", "BUDGET_EXHAUSTED", "INSUFFICIENT_EVIDENCE"}
        /\ pc' = "returned"
    BY <1>0, <2>1 DEF Stop, TypeOK
  <2>6. gate' \in GateType \union {NoGate}
    <3>1. CASE UNCHANGED gate
      BY <1>0, <3>1 DEF TypeOK
    <3>2. CASE gate' = GateResult(decision', request.failOn, Len(findings),
                                  IF Blocking THEN "high" ELSE "low")
               /\ decision' \in {"pass", "fail"}
      BY <1>0, <3>2 DEF GateResult, GateType
    <3> QED
      BY <2>1, <3>1, <3>2
  <2> QED
    BY <1>0, <1>a, <2>2, <2>3, <2>4, <2>5, <2>6 DEF TypeInv, TypeOK, LabelInv
<1>11. CASE Fails
  <2>1. LabelInv'
    BY <1>0, <1>11, <1>a, <1>c DEF Fails, LabelInv
  <2>2. TypeOK'
    BY <1>0, <1>11 DEF Fails, TypeOK
  <2> QED
    BY <2>1, <2>2 DEF TypeInv
<1>12. CASE TimePasses
  BY <1>0, <1>12 DEF TimePasses, TypeInv, TypeOK, LabelInv
<1>13. CASE UNCHANGED vars
  BY <1>0, <1>13 DEF vars, TypeInv, TypeOK, LabelInv
<1> QED
  BY <1>1, <1>2, <1>3, <1>4, <1>5, <1>6, <1>7, <1>8, <1>9, <1>10, <1>11, <1>12, <1>13
  DEF Next, Step

\* Every variable of a review keeps its type.
THEOREM ReviewTyped == Spec => []TypeOK
<1>1. TypeInv => TypeOK
  BY DEF TypeInv
<1> QED
  BY <1>1, InitTyped, NextTyped, PTL DEF Spec, SafetySpec

-----------------------------------------------------------------------------
(* The course of a review.                                                 *)

Running == pc \notin {"returned", "raised"}

\* Nothing is decided before the end, and no git call has failed.
Undecided ==
  Running => /\ decision = "pass" /\ reason = "COMPLETED" /\ gate = NoGate
             /\ git.gaps = "none"
             /\ git.diff \in {"none", "skipped", "changed", "unchanged"}
             /\ pc \in {"discover-tests", "run-rules", "semantic-review", "verify-and-gate"}
                  \/ (pc = "loop" /\ iteration >= 2)
                => git.diff \in {"skipped", "changed", "unchanged"}

\* The trace and the observations are the plan as far as it has come.
OnPlan ==
  Running => /\ Len(trace) = iteration /\ Len(observations) = iteration
             /\ \A i \in 1 .. iteration : /\ trace[i] = Plan(request)[i]
                                          /\ observations[i].action = Plan(request)[i]

\* The calls of the model: none before the semantic review, one for each file
\* that is done during it.
OneCallEach ==
  /\ modelCalls <= request.maxModelCalls
  /\ pc \in {"start", "detect", "inspect-diff", "discover-tests", "run-rules"}
       \/ (pc = "loop" /\ iteration <= 4) => modelCalls = 0
  /\ pc = "semantic-review" => modelCalls + Cardinality(todo) = Cardinality(files)
  /\ request.semantic /\ (pc = "verify-and-gate" \/ (pc = "loop" /\ iteration = 5))
       => modelCalls = Cardinality(files)

CourseInv == TypeInv /\ Undecided /\ OnPlan /\ OneCallEach

\* At the start nothing has happened.
LEMMA InitCourse == Init => CourseInv
<1> SUFFICES ASSUME Init PROVE CourseInv
  OBVIOUS
<1>1. TypeInv
  BY InitTyped
<1>2. Undecided /\ OnPlan
  BY DEF Init, Undecided, OnPlan
<1>3. request.maxModelCalls \in Nat
  BY RequestsTyped DEF Init, RequestType
<1>4. OneCallEach
  BY <1>3 DEF Init, OneCallEach
<1> QED
  BY <1>1, <1>2, <1>4 DEF CourseInv

\* The files and those that are left are finitely many.
LEMMA FilesFinite ==
  ASSUME TypeOK
  PROVE  /\ IsFiniteSet(files) /\ IsFiniteSet(todo)
         /\ Cardinality(files) \in Nat /\ Cardinality(todo) \in Nat
<1>1. files \subseteq Paths /\ todo \subseteq Paths
  BY DEF TypeOK
<1> QED
  BY <1>1, PathsTyped, FS_Subset, FS_CardinalityType

\* The number of an action in the plan.
LEMMA PlaceInPlan ==
  ASSUME TypeInv
  PROVE  /\ pc = "detect" => iteration = 1
         /\ pc = "inspect-diff" => iteration = 2
         /\ pc = "discover-tests" => iteration = 3
         /\ pc = "run-rules" => iteration = 4
         /\ pc = "semantic-review" => iteration = 5 /\ request.semantic
         /\ pc = "verify-and-gate" => iteration = Len(Plan(request))
<1>1. CASE pc \notin Actions
  BY <1>1 DEF Actions, ToolActions, FileActions
<1>2. CASE pc \in Actions
  <2>1. iteration \in 1 .. Len(Plan(request)) /\ pc = Plan(request)[iteration]
    BY <1>2 DEF TypeInv, LabelInv
  <2>2. CASE request.semantic
    BY <2>1, <2>2 DEF Plan
  <2>3. CASE ~ request.semantic
    BY <2>1, <2>3 DEF Plan
  <2> QED
    BY <2>2, <2>3
<1> QED
  BY <1>1, <1>2

\* No step decides and goes on.
LEMMA NextUndecided == CourseInv /\ [Next]_vars => Undecided'
<1> SUFFICES ASSUME CourseInv, [Next]_vars PROVE Undecided'
  OBVIOUS
<1> USE DEF counters, scope, records, facts, verdict, Running
<1>0. TypeOK /\ TypeInv /\ Undecided /\ iteration \in Nat
  BY DEF CourseInv, TypeInv, TypeOK
<1>1. CASE Start
  BY <1>0, <1>1 DEF Start, Stop, Undecided, TypeInv, LabelInv
<1>2. CASE TimeOut \/ ExhaustActions \/ Fails
  BY <1>2 DEF TimeOut, ExhaustActions, Fails, Stop, Undecided
<1>3. CASE Begin
  <2>1. CASE Stop("BUDGET_EXHAUSTED")
    BY <2>1 DEF Stop, Undecided
  <2>2. CASE ~ Stop("BUDGET_EXHAUSTED")
    <3>1. /\ pc = "loop" /\ pc' = Plan(request)[iteration + 1]
          /\ iteration < Len(Plan(request))
          /\ UNCHANGED <<git, gate, decision, reason>>
      BY <1>0, <1>3, <2>2 DEF Begin, TypeInv, LabelInv
    <3>2. pc' \in {"discover-tests", "run-rules", "semantic-review", "verify-and-gate"}
            => iteration >= 2
      <4>1. iteration = 0 => pc' = "detect"
        BY <3>1, PlanShape
      <4>2. iteration = 1 => pc' = "inspect-diff"
        BY <3>1, PlanShape
      <4> QED
        BY <1>0, <4>1, <4>2
    <3>3. pc' # "loop"
      <4>1. iteration + 1 \in 1 .. Len(Plan(request))
        BY <1>0, <3>1, PlanShape
      <4>2. pc' \in Actions
        BY <3>1, <4>1, PlanShape
      <4> QED
        BY <4>2 DEF Actions, ToolActions, FileActions
    <3> QED
      BY <1>0, <3>1, <3>2, <3>3 DEF Undecided
  <2> QED
    BY <2>1, <2>2
<1>4. CASE Detect
  BY <1>0, <1>4, PlaceInPlan DEF Detect, Proceed, Undecided
<1>5. CASE InspectDiff
  <2>1. CASE pc' = "returned"
    BY <2>1 DEF Undecided
  <2>2. CASE pc' # "returned"
    <3>1. PICK outcome \in {"changed", "unchanged", "skipped"} :
            git' = [git EXCEPT !.diff = outcome] /\ Proceed /\ UNCHANGED verdict
      BY <1>5, <2>2 DEF InspectDiff, Stop
    <3>2. git'.diff = outcome /\ git'.gaps = git.gaps
      BY <1>0, <3>1 DEF TypeOK
    <3> QED
      BY <1>0, <1>5, <3>1, <3>2 DEF InspectDiff, Undecided
  <2> QED
    BY <2>1, <2>2
<1>6. CASE DiscoverTests
  BY <1>0, <1>6 DEF DiscoverTests, Proceed, Undecided
<1>7. CASE RunRules
  BY <1>0, <1>7 DEF RunRules, RulesDone, RuleOneFile, Proceed, Undecided
<1>8. CASE SemanticReview
  BY <1>0, <1>8 DEF SemanticReview, AskReviewer, Stop, Proceed, Undecided
<1>9. CASE VerifyAndGate
  BY <1>9 DEF VerifyAndGate, Stop, Undecided
<1>10. CASE TimePasses
  BY <1>0, <1>10 DEF TimePasses, Undecided
<1>11. CASE UNCHANGED vars
  BY <1>0, <1>11 DEF vars, Undecided
<1> QED
  BY <1>1, <1>2, <1>3, <1>4, <1>5, <1>6, <1>7, <1>8, <1>9, <1>10, <1>11 DEF Next, Step

\* Every action adds itself to the trace and to the observations, and no other
\* step adds anything.
LEMMA NextOnPlan == CourseInv /\ [Next]_vars => OnPlan'
<1> SUFFICES ASSUME CourseInv, [Next]_vars PROVE OnPlan'
  OBVIOUS
<1> USE DEF counters, scope, records, facts, verdict, Running
<1>0. TypeOK /\ TypeInv /\ OnPlan /\ iteration \in Nat
  BY DEF CourseInv, TypeInv, TypeOK
<1>1. CASE UNCHANGED <<trace, observations, iteration, request>> /\ Running
  BY <1>0, <1>1 DEF OnPlan
<1>2. CASE pc' \in {"returned", "raised"}
  BY <1>2 DEF OnPlan
<1>3. CASE Begin
  <2>1. CASE pc' # "returned"
    <3> DEFINE action == Plan(request)[iteration + 1]
    <3>1. /\ pc = "loop" /\ iteration' = iteration + 1 /\ request' = request
          /\ trace' = Append(trace, action)
          /\ observations' = Append(observations, Observed(action, {}))
      BY <1>3, <2>1 DEF Begin, Stop
    <3>2. Len(trace) = iteration /\ Len(observations) = iteration
      BY <1>0, <3>1 DEF OnPlan
    <3> HIDE DEF action
    <3>3. /\ Len(trace') = iteration + 1 /\ trace'[iteration + 1] = action
          /\ \A i \in 1 .. iteration : trace'[i] = trace[i]
      BY <1>0, <3>1, <3>2 DEF TypeOK
    <3>4. /\ Len(observations') = iteration + 1
          /\ observations'[iteration + 1] = Observed(action, {})
          /\ \A i \in 1 .. iteration : observations'[i] = observations[i]
      BY <1>0, <3>1, <3>2 DEF TypeOK
    <3>5. observations'[iteration + 1].action = action
      BY <3>4 DEF Observed
    <3>6. \A i \in 1 .. iteration + 1 : i \in 1 .. iteration \/ i = iteration + 1
      BY <1>0
    <3> QED
      BY <1>0, <3>1, <3>3, <3>4, <3>5, <3>6 DEF OnPlan, action
  <2> QED
    BY <1>2, <2>1
<1>4. CASE RulesDone /\ RunRules
  <2> DEFINE named == [observations EXCEPT ![iteration] = Observed(pc, DOMAIN evidence)]
  <2>1. /\ observations' = named /\ pc = "run-rules"
        /\ UNCHANGED <<trace, iteration, request>>
    BY <1>4 DEF RulesDone, RunRules
  <2>2. pc \in Actions /\ pc = Plan(request)[iteration]
    BY <1>0, <2>1 DEF TypeInv, LabelInv, Actions, ToolActions, FileActions
  <2>3. Len(observations') = Len(observations)
    BY <1>0, <2>1, <2>2, NamedTyped
  <2>4. DOMAIN observations = 1 .. iteration
    BY <1>0, <2>1 DEF OnPlan, TypeOK
  <2>5. ASSUME NEW i \in 1 .. iteration PROVE observations'[i].action = Plan(request)[i]
    <3>1. CASE i = iteration
      BY <2>1, <2>2, <2>4, <3>1 DEF Observed
    <3>2. CASE i # iteration
      BY <1>0, <2>1, <2>4, <3>2 DEF OnPlan
    <3> QED
      BY <3>1, <3>2
  <2> QED
    BY <1>0, <2>1, <2>3, <2>5 DEF OnPlan
<1>5. Next => \/ UNCHANGED <<trace, observations, iteration, request>> /\ Running
              \/ pc' \in {"returned", "raised"} \/ Begin \/ (RulesDone /\ RunRules)
              \/ UNCHANGED <<trace, observations, iteration, request, pc>>
  <2>1. Start \/ TimeOut \/ ExhaustActions \/ Detect \/ InspectDiff \/ DiscoverTests
          \/ VerifyAndGate \/ Fails \/ TimePasses
        => \/ UNCHANGED <<trace, observations, iteration, request>> /\ Running
           \/ pc' \in {"returned", "raised"}
           \/ UNCHANGED <<trace, observations, iteration, request, pc>>
    BY DEF Start, TimeOut, ExhaustActions, Detect, InspectDiff, DiscoverTests, VerifyAndGate,
           Fails, TimePasses, Stop
  <2>2. RunRules => \/ UNCHANGED <<trace, observations, iteration, request>> /\ Running
                    \/ RulesDone /\ RunRules
    BY DEF RunRules, RuleOneFile
  <2>3. SemanticReview => UNCHANGED <<trace, observations, iteration, request>> /\ Running
    BY DEF SemanticReview
  <2> QED
    BY <2>1, <2>2, <2>3 DEF Next, Step
<1>6. CASE UNCHANGED <<trace, observations, iteration, request, pc>>
  BY <1>0, <1>6 DEF OnPlan
<1>7. UNCHANGED vars => UNCHANGED <<trace, observations, iteration, request, pc>>
  BY DEF vars
<1> QED
  BY <1>1, <1>2, <1>3, <1>4, <1>5, <1>6, <1>7

\* The reviewer is called once for each file.
LEMMA NextOneCallEach == CourseInv /\ [Next]_vars => OneCallEach'
<1> SUFFICES ASSUME CourseInv, [Next]_vars PROVE OneCallEach'
  OBVIOUS
<1> USE DEF counters, scope, records, facts, verdict
<1>0. /\ TypeOK /\ TypeInv /\ OneCallEach /\ iteration \in Nat /\ modelCalls \in Nat
      /\ request.maxModelCalls \in Nat
  BY RequestsTyped DEF CourseInv, TypeInv, TypeOK, RequestType
<1>1. CASE /\ pc' \in {"returned", "raised"} /\ UNCHANGED request
           /\ modelCalls' = modelCalls \/ (modelCalls < request.maxModelCalls
                                            /\ modelCalls' = modelCalls + 1)
  BY <1>0, <1>1 DEF OneCallEach
<1>2. CASE Start
  BY <1>0, <1>2 DEF Start, Stop, OneCallEach, TypeInv, LabelInv
<1>3. CASE Begin /\ pc' # "returned"
  <2>1. /\ pc = "loop" /\ pc' = Plan(request)[iteration + 1] /\ iteration' = iteration + 1
        /\ todo' = IF pc' \in FileActions THEN files ELSE {}
        /\ iteration < Len(Plan(request))
        /\ UNCHANGED <<request, modelCalls, files>>
    BY <1>0, <1>3 DEF Begin, Stop, TypeInv, LabelInv
  <2>2. CASE iteration <= 3
    <3>1. pc' \in {"detect", "inspect-diff", "discover-tests", "run-rules"}
      <4>1. iteration = 0 \/ iteration = 1 \/ iteration = 2 \/ iteration = 3
        BY <1>0, <2>2
      <4> QED
        BY <2>1, <4>1, PlanShape
    <3> QED
      BY <1>0, <2>1, <2>2, <3>1 DEF OneCallEach
  <2>3. CASE iteration = 4
    <3>1. modelCalls = 0 /\ pc' = IF request.semantic THEN "semantic-review" ELSE "verify-and-gate"
      <4>1. modelCalls = 0
        BY <1>0, <2>1, <2>3 DEF OneCallEach
      <4>2. pc' = Plan(request)[5]
        BY <2>1, <2>3
      <4> QED
        BY <4>1, <4>2, PlanShape
    <3>2. CASE request.semantic
      BY <1>0, <2>1, <3>1, <3>2, FilesFinite DEF OneCallEach, FileActions
    <3>3. CASE ~ request.semantic
      BY <1>0, <2>1, <3>1, <3>3 DEF OneCallEach
    <3> QED
      BY <3>2, <3>3
  <2>4. CASE iteration >= 5
    <3>1. iteration = 5 /\ request.semantic /\ pc' = "verify-and-gate"
      <4>1. Len(Plan(request)) = 6 /\ iteration = 5
        <5>1. Len(Plan(request)) \in 5 .. 6
          BY PlanShape
        <5> QED
          BY <1>0, <2>1, <2>4, <5>1
      <4> QED
        BY <2>1, <4>1, PlanShape
    <3> QED
      BY <1>0, <2>1, <3>1 DEF OneCallEach
  <2> QED
    BY <1>0, <2>2, <2>3, <2>4
<1>4. CASE Detect \/ InspectDiff \/ RunRules
  <2>1. /\ pc \in {"detect", "inspect-diff", "run-rules"} /\ iteration <= 4
        /\ UNCHANGED <<request, modelCalls, iteration>>
        /\ pc' \in {pc, "loop", "returned"}
    BY <1>0, <1>4, PlaceInPlan
    DEF Detect, InspectDiff, RunRules, RulesDone, RuleOneFile, Proceed, Stop
  <2> QED
    BY <1>0, <2>1 DEF OneCallEach
<1>5. CASE DiscoverTests
  BY <1>0, <1>5, PlaceInPlan DEF DiscoverTests, Proceed, OneCallEach
<1>6. CASE SemanticReview
  <2>1. /\ pc = "semantic-review" /\ iteration = 5 /\ request.semantic
        /\ UNCHANGED <<iteration, request, files>>
        /\ modelCalls + Cardinality(todo) = Cardinality(files)
    BY <1>0, <1>6, PlaceInPlan DEF SemanticReview, OneCallEach
  <2>2. CASE todo = {} /\ Proceed /\ UNCHANGED modelCalls
    <3>1. modelCalls = Cardinality(files)
      BY <1>0, <2>1, <2>2, FS_EmptySet
    <3> QED
      BY <1>0, <2>1, <2>2, <3>1 DEF Proceed, OneCallEach
  <2>3. CASE Stop("BUDGET_EXHAUSTED") /\ UNCHANGED modelCalls
    BY <1>0, <2>1, <2>3 DEF Stop, OneCallEach
  <2>4. CASE ModelCallsLeft /\ \E path \in todo : First(path) /\ AskReviewer(path)
    <3>1. PICK path \in todo : AskReviewer(path)
      BY <2>4
    <3>2. modelCalls' = modelCalls + 1 /\ todo' = todo \ {path} /\ UNCHANGED pc
      BY <3>1 DEF AskReviewer
    <3>3. Cardinality(todo') = Cardinality(todo) - 1
      BY <1>0, <3>2, FilesFinite, FS_RemoveElement
    <3>4. modelCalls' + Cardinality(todo') = Cardinality(files')
      BY <1>0, <2>1, <3>2, <3>3, FilesFinite
    <3> QED
      BY <1>0, <2>1, <2>4, <3>2, <3>4 DEF ModelCallsLeft, OneCallEach
  <2> QED
    BY <1>6, <2>2, <2>3, <2>4 DEF SemanticReview
<1>7. CASE UNCHANGED <<pc, request, modelCalls, iteration, todo, files>>
  BY <1>0, <1>7 DEF OneCallEach
<1>8. TimeOut \/ ExhaustActions \/ (Begin /\ pc' = "returned") \/ VerifyAndGate \/ Fails =>
        /\ pc' \in {"returned", "raised"} /\ UNCHANGED request
        /\ modelCalls' = modelCalls \/ (modelCalls < request.maxModelCalls
                                         /\ modelCalls' = modelCalls + 1)
  BY DEF TimeOut, ExhaustActions, Begin, VerifyAndGate, Fails, Stop, ModelCallsLeft
<1>9. TimePasses \/ UNCHANGED vars => UNCHANGED <<pc, request, modelCalls, iteration, todo, files>>
  BY DEF TimePasses, vars
<1> QED
  BY <1>1, <1>2, <1>3, <1>4, <1>5, <1>6, <1>7, <1>8, <1>9 DEF Next, Step

\* Together they are inductive.
LEMMA NextCourse == CourseInv /\ [Next]_vars => CourseInv'
BY NextTyped, NextUndecided, NextOnPlan, NextOneCallEach DEF CourseInv

\* A review keeps to its plan, as far as it has come.
THEOREM CourseHolds == Spec => []CourseInv
BY InitCourse, NextCourse, PTL DEF Spec, SafetySpec

-----------------------------------------------------------------------------
(* What the course gives.                                                  *)

\* Only the last action ends the plan.
LEMMA NoEarlyEnd ==
  ASSUME TypeInv, pc \in Actions \ {"verify-and-gate"}, Proceed
  PROVE  pc' = "loop"
<1>1. iteration # Len(Plan(request))
  <2>1. ASSUME NEW n \in {5, 6}, NEW i \in {1, 2, 3, 4} PROVE i # n
    OBVIOUS
  <2>2. CASE pc = "semantic-review"
    <3>1. iteration = 5 /\ request.semantic
      BY <2>2, PlaceInPlan
    <3>2. Len(Plan(request)) = 6
      BY <3>1, PlanShape
    <3> QED
      BY <3>1, <3>2
  <2>3. CASE pc \in {"detect", "inspect-diff", "discover-tests", "run-rules"}
    <3>1. iteration \in {1, 2, 3, 4}
      BY <2>3, PlaceInPlan
    <3>2. Len(Plan(request)) \in {5, 6}
      <4>1. Len(Plan(request)) \in 5 .. 6
        BY PlanShape
      <4> QED
        BY <4>1
    <3> QED
      BY <2>1, <3>1, <3>2, Zenon
  <2> QED
    BY <2>2, <2>3 DEF Actions, ToolActions, FileActions
<1> QED
  BY <1>1 DEF Proceed

\* How a step can end a review: early, or with the last action.
LEMMA HowItReturns ==
  ASSUME CourseInv, [Next]_vars, Returned'
  PROVE  \/ Returned /\ UNCHANGED <<scope, counters, records, facts, verdict, todo, gaps>>
         \/ Start /\ Stop("INSUFFICIENT_EVIDENCE") /\ gate' = Unknown(request.failOn)
              /\ ~ request.isDir
         \/ TimeOut
         \/ ExhaustActions
         \/ Begin /\ Stop("BUDGET_EXHAUSTED") /\ toolCalls' > request.maxToolCalls
         \/ InspectDiff /\ git'.diff = "timeout" /\ Stop("TIMEOUT") /\ gate' = Unknown({"critical"})
         \/ InspectDiff /\ git'.diff = "error" /\ Stop("INSUFFICIENT_EVIDENCE")
              /\ gate' = Unknown({"critical"})
         \/ /\ SemanticReview /\ Stop("BUDGET_EXHAUSTED") /\ UNCHANGED <<modelCalls, gate, todo>>
            /\ todo # {} /\ modelCalls = request.maxModelCalls
         \/ VerifyAndGate
<1> USE DEF counters, scope, records, facts, verdict, Returned
<1>0. /\ TypeInv /\ TypeOK /\ OneCallEach
      /\ modelCalls \in Nat /\ toolCalls \in Nat
      /\ request.maxModelCalls \in Nat /\ request.maxToolCalls \in Nat
  BY RequestsTyped DEF CourseInv, TypeInv, TypeOK, RequestType
<1>1. CASE Start
  BY <1>1 DEF Start
<1>2. CASE Begin
  <2>1. pc = "loop" /\ pc' = "returned" /\ iteration < Len(Plan(request)) /\ iteration \in Nat
    BY <1>0, <1>2 DEF Begin, TypeInv, TypeOK, LabelInv
  <2>2. iteration + 1 \in 1 .. Len(Plan(request))
    BY <2>1, PlanShape
  <2>3. Plan(request)[iteration + 1] # "returned"
    BY <2>2, PlanShape DEF Actions, ToolActions, FileActions
  <2>4. Stop("BUDGET_EXHAUSTED") /\ ~ ToolsLeft(toolCalls')
    BY <1>2, <2>1, <2>3 DEF Begin
  <2>5. toolCalls' \in Nat
    BY <1>0, <1>2 DEF Begin
  <2> QED
    BY <1>0, <1>2, <2>4, <2>5 DEF ToolsLeft
<1>3. CASE Detect
  BY <1>0, <1>3, NoEarlyEnd DEF Detect, Actions, ToolActions, FileActions
<1>4. CASE InspectDiff
  <2>1. ~ Proceed
    BY <1>0, <1>4, NoEarlyEnd DEF InspectDiff, Actions, ToolActions, FileActions
  <2>2. PICK outcome \in {"changed", "unchanged", "error", "timeout", "skipped"} :
          /\ git' = [git EXCEPT !.diff = outcome]
          /\ \/ outcome = "timeout" /\ Stop("TIMEOUT") /\ gate' = Unknown({"critical"})
             \/ /\ outcome = "error"
                /\ Stop("INSUFFICIENT_EVIDENCE") /\ gate' = Unknown({"critical"})
    BY <1>4, <2>1 DEF InspectDiff
  <2>3. git'.diff = outcome
    BY <1>0, <2>2 DEF TypeOK
  <2> QED
    BY <1>4, <2>2, <2>3
<1>5. CASE DiscoverTests
  BY <1>0, <1>5, NoEarlyEnd DEF DiscoverTests, Actions, ToolActions, FileActions
<1>6. CASE RunRules
  BY <1>0, <1>6, NoEarlyEnd DEF RunRules, RulesDone, RuleOneFile, Actions, ToolActions, FileActions
<1>7. CASE SemanticReview
  <2>1. ~ Proceed /\ pc # "returned"
    BY <1>0, <1>7, NoEarlyEnd DEF SemanticReview, Actions, ToolActions, FileActions
  <2>2. /\ todo # {} /\ ~ ModelCallsLeft /\ Stop("BUDGET_EXHAUSTED")
        /\ UNCHANGED <<modelCalls, gate, todo>>
    BY <1>7, <2>1 DEF SemanticReview, AskReviewer
  <2>3. modelCalls = request.maxModelCalls
    BY <1>0, <2>2 DEF ModelCallsLeft, OneCallEach
  <2> QED
    BY <1>7, <2>2, <2>3
<1>8. CASE Fails
  BY <1>8 DEF Fails
<1>9. CASE TimePasses \/ UNCHANGED vars
  BY <1>9 DEF TimePasses, vars
<1> QED
  BY <1>1, <1>2, <1>3, <1>4, <1>5, <1>6, <1>7, <1>8, <1>9 DEF Next, Step

\* The findings that the gate looks at are those of the result.
LEMMA VerifiedSeverities ==
  ASSUME TypeOK
  PROVE  /\ DOMAIN Verified = DOMAIN findings
         /\ \A n \in DOMAIN findings : Verified[n].severity = findings[n].severity
<1>1. \A n \in DOMAIN findings : findings[n] \in FindingType
  BY DEF TypeOK
<1>2. \A n \in DOMAIN findings :
        [findings[n] EXCEPT !.status = VerificationOf(findings[n])].severity = findings[n].severity
  BY <1>1 DEF FindingType
<1> QED
  BY <1>2 DEF Verified

\* The last action ends the plan with the verdict that the findings give.
LEMMA GateEarnsVerdict == CourseInv /\ VerifyAndGate => VerdictIsEarned'
<1> SUFFICES ASSUME CourseInv, VerifyAndGate, Verdict' PROVE VerdictIsEarned'
  BY DEF VerdictIsEarned
<1> USE DEF counters, scope, records, facts, verdict, Running
<1>0. /\ TypeInv /\ TypeOK /\ LabelInv /\ Undecided /\ OnPlan /\ OneCallEach
      /\ pc = "verify-and-gate" /\ iteration = Len(Plan(request))
  BY PlaceInPlan DEF CourseInv, TypeInv, VerifyAndGate
<1>1. PICK outcome \in {"ok", "error", "timeout", "skipped"} :
        /\ git' = [git EXCEPT !.gaps = outcome]
        /\ decision' = IF Blocking THEN "fail" ELSE "pass"
        /\ gate' = GateResult(decision', request.failOn, Len(findings),
                              IF Blocking THEN "high" ELSE "low")
        /\ findings' = Verified
  BY DEF VerifyAndGate, SearchGaps, Verdict, Stop
<1>2. UNCHANGED <<counters, request, files, records, evidence, expired, todo>>
  BY DEF VerifyAndGate
<1>3. trace = Plan(request)
  <2>1. trace \in Seq(Actions) /\ Plan(request) \in Seq(Actions)
    BY <1>0, PlanShape DEF TypeOK
  <2>2. Len(trace) = Len(Plan(request)) /\ \A i \in 1 .. Len(trace) : trace[i] = Plan(request)[i]
    BY <1>0 DEF OnPlan
  <2> QED
    BY <2>1, <2>2, SeqEqual
<1>4. Len(observations) = Len(Plan(request)) /\ git.diff \in {"skipped", "changed", "unchanged"}
  BY <1>0 DEF OnPlan, Undecided
<1>5. git'.diff = git.diff
  BY <1>0, <1>1 DEF TypeOK
<1>6. todo = {} /\ (request.semantic => modelCalls = Cardinality(files))
  BY <1>0 DEF LabelInv, OneCallEach, FileActions
<1>7. (\E n \in DOMAIN findings' : findings'[n].severity \in request.failOn) <=> Blocking
  BY <1>0, <1>1, VerifiedSeverities DEF Blocking
<1>8. Len(findings') = Len(findings)
  BY <1>0, <1>1, VerifiedTyped
<1>9. /\ gate'.decision = decision' /\ gate'.count = Len(findings)
      /\ gate'.failOn = request.failOn /\ gate'.risk = IF Blocking THEN "high" ELSE "low"
  BY <1>1 DEF GateResult
<1> QED
  BY <1>1, <1>2, <1>3, <1>4, <1>5, <1>6, <1>7, <1>8, <1>9 DEF VerdictIsEarned

\* No other step gives a verdict.
LEMMA NextEarned == CourseInv /\ VerdictIsEarned /\ [Next]_vars => VerdictIsEarned'
<1> SUFFICES ASSUME CourseInv, VerdictIsEarned, [Next]_vars, Verdict' PROVE VerdictIsEarned'
  BY DEF VerdictIsEarned
<1>1. CASE Returned /\ UNCHANGED <<scope, counters, records, facts, verdict, todo, gaps>>
  BY <1>1 DEF VerdictIsEarned, Verdict, Returned, scope, counters, records, facts, verdict
<1>2. CASE VerifyAndGate
  BY <1>2, GateEarnsVerdict
<1>3. Returned' /\ decision' # "incomplete"
  BY DEF Verdict, Returned
<1>4. TimeOut \/ ExhaustActions => decision' = "incomplete"
  BY DEF TimeOut, ExhaustActions, Stop
<1> QED
  BY <1>1, <1>2, <1>3, <1>4, HowItReturns DEF Stop

\* A pass or a fail of a review is earned: the whole plan ran, every file was
\* seen, the diff was read, and decision and gate are those of the findings.
THEOREM VerdictsAreEarned == Spec => []VerdictIsEarned
<1>1. Init => VerdictIsEarned
  BY DEF Init, VerdictIsEarned, Verdict, Returned
<1> QED
  BY <1>1, InitCourse, NextCourse, NextEarned, PTL DEF Spec, SafetySpec

\* While nothing is decided there is no gate, and an early return writes none or
\* one that says "incomplete".
LEMMA NextNoVerdict ==
  CourseInv /\ IncompleteHasNoVerdict /\ [Next]_vars => IncompleteHasNoVerdict'
<1> SUFFICES ASSUME CourseInv, IncompleteHasNoVerdict, [Next]_vars,
                    Returned', decision' = "incomplete"
             PROVE  reason' # "COMPLETED" /\ gate'.decision \in {"none", "incomplete"}
  BY DEF IncompleteHasNoVerdict, Returned
<1>0. Undecided
  BY DEF CourseInv
<1>a. /\ NoGate.decision = "none"
      /\ \A f : Unknown(f).decision = "incomplete"
  BY DEF NoGate, Unknown, GateResult
<1>1. CASE Returned /\ UNCHANGED <<scope, counters, records, facts, verdict, todo, gaps>>
  BY <1>1 DEF IncompleteHasNoVerdict, Returned, verdict
<1>2. CASE TimeOut \/ ExhaustActions
  BY <1>0, <1>2, <1>a DEF TimeOut, ExhaustActions, Stop, Undecided, Running
<1>3. CASE Begin /\ Stop("BUDGET_EXHAUSTED")
  BY <1>0, <1>3, <1>a DEF Begin, Stop, Undecided, Running
<1>4. CASE \E f, why : gate' = Unknown(f) /\ why # "COMPLETED" /\ Stop(why)
  BY <1>4, <1>a DEF Stop
<1>5. CASE SemanticReview /\ Stop("BUDGET_EXHAUSTED") /\ UNCHANGED gate
  BY <1>0, <1>5, <1>a DEF SemanticReview, Stop, Undecided, Running
<1>6. CASE VerifyAndGate
  <2>1. Stop("INSUFFICIENT_EVIDENCE") /\ UNCHANGED gate /\ pc = "verify-and-gate"
    BY <1>6 DEF VerifyAndGate
  <2> QED
    BY <1>0, <1>a, <2>1 DEF Stop, Undecided, Running
<1> QED
  BY <1>1, <1>2, <1>3, <1>4, <1>5, <1>6, HowItReturns

\* A review that is cut short says so, and carries no pass or fail.
THEOREM CutShortDecidesNothing == Spec => []IncompleteHasNoVerdict
<1>1. Init => IncompleteHasNoVerdict
  BY DEF Init, IncompleteHasNoVerdict, Returned
<1> QED
  BY <1>1, InitCourse, NextCourse, NextNoVerdict, PTL DEF Spec, SafetySpec

\* Whatever ends a review gives its own reason.
LEMMA NextReal == CourseInv /\ ReasonHasCause /\ [Next]_vars => ReasonHasCause'
<1> SUFFICES ASSUME CourseInv, ReasonHasCause, [Next]_vars, Returned' PROVE ReasonHasCause'
  BY DEF ReasonHasCause
<1> USE DEF counters, scope, records, facts, verdict
<1>0. Undecided /\ TypeOK
  BY DEF CourseInv, TypeInv
<1>a. Running => /\ reason = "COMPLETED" /\ git.gaps = "none"
                 /\ git.diff \notin {"error", "timeout"}
  BY <1>0 DEF Undecided
<1>1. CASE Returned /\ UNCHANGED <<scope, counters, records, facts, verdict, todo, gaps>>
  <2>1. expired => expired'
    BY <1>1 DEF Next, Step, TimePasses, vars, Start, TimeOut, ExhaustActions, Begin, Detect,
       InspectDiff, DiscoverTests, RunRules, SemanticReview, VerifyAndGate, Fails, Returned
  <2>2. Sufficient' = Sufficient
    BY <1>1 DEF Sufficient
  <2> QED
    BY <1>1, <2>1, <2>2 DEF ReasonHasCause, Returned
<1>2. CASE Start /\ Stop("INSUFFICIENT_EVIDENCE") /\ ~ request.isDir
  BY <1>a, <1>2 DEF Start, Stop, ReasonHasCause, Running
<1>3. CASE TimeOut
  BY <1>a, <1>3 DEF TimeOut, Stop, ReasonHasCause, Running
<1>4. CASE ExhaustActions
  <2>1. iteration' > request'.maxActions /\ reason' = "BUDGET_EXHAUSTED"
        /\ git' = git /\ Running
    BY <1>4 DEF ExhaustActions, Stop, Running
  <2> QED
    BY <1>a, <2>1 DEF ReasonHasCause
<1>5. CASE Begin /\ Stop("BUDGET_EXHAUSTED") /\ toolCalls' > request.maxToolCalls
  BY <1>a, <1>5 DEF Begin, Stop, ReasonHasCause, Running
<1>6. CASE InspectDiff /\ Stop("TIMEOUT") /\ git'.diff = "timeout"
  <2>1. reason' = "TIMEOUT" /\ Running
    BY <1>6 DEF Stop, InspectDiff, Running
  <2> QED
    BY <1>6, <2>1 DEF ReasonHasCause
<1>7. CASE InspectDiff /\ Stop("INSUFFICIENT_EVIDENCE") /\ git'.diff = "error"
  <2>1. reason' = "INSUFFICIENT_EVIDENCE" /\ git'.gaps = git.gaps /\ Running
    BY <1>0, <1>7 DEF Stop, InspectDiff, Running, TypeOK
  <2> QED
    BY <1>a, <1>7, <2>1 DEF ReasonHasCause
<1>8. CASE /\ SemanticReview /\ Stop("BUDGET_EXHAUSTED") /\ UNCHANGED <<modelCalls, todo>>
           /\ todo # {} /\ modelCalls = request.maxModelCalls
  BY <1>a, <1>8 DEF SemanticReview, Stop, ReasonHasCause, Running
<1>9. CASE VerifyAndGate
  <2>1. PICK outcome \in {"ok", "error", "timeout", "skipped"} :
          /\ git' = [git EXCEPT !.gaps = outcome]
          /\ \/ ~ Sufficient /\ reason' = "INSUFFICIENT_EVIDENCE"
             \/ reason' = IF outcome = "timeout" THEN "TIMEOUT" ELSE reason
          /\ findings' = Verified
    BY <1>9 DEF VerifyAndGate, SearchGaps, Stop
  <2>2. git'.gaps = outcome /\ git'.diff = git.diff /\ Running /\ evidence' = evidence
    BY <1>0, <1>9, <2>1 DEF TypeOK, VerifyAndGate, Running
  <2>3. Len(findings') = Len(findings) /\ findings' \in Seq(FindingType)
        /\ findings \in Seq(FindingType)
    BY <1>0, <2>1, VerifiedTyped DEF TypeOK
  <2>4. findings' = <<>> <=> findings = <<>>
    BY <2>3, EmptySeq
  <2>5. Sufficient' <=> Sufficient
    BY <2>2, <2>3, <2>4 DEF Sufficient
  <2> QED
    BY <1>a, <2>1, <2>2, <2>5 DEF ReasonHasCause
<1> QED
  BY <1>1, <1>2, <1>3, <1>4, <1>5, <1>6, <1>7, <1>8, <1>9, HowItReturns

\* The reason of a review names what happened.
THEOREM ReviewReasonsAreReal == Spec => []ReasonHasCause
<1>1. Init => ReasonHasCause
  BY DEF Init, ReasonHasCause, Returned
<1> QED
  BY <1>1, InitCourse, NextCourse, NextReal, PTL DEF Spec, SafetySpec

\* The tool calls that were counted and not refused are those of the observations.
ToolsCounted ==
  /\ Len(trace) <= request.maxActions
  /\ toolCalls <= request.maxToolCalls + 1
  /\ Cardinality(ToolObservations) <= request.maxToolCalls
  /\ Running => /\ toolCalls <= request.maxToolCalls
                /\ Cardinality(ToolObservations) = toolCalls

\* The budgets of a request are numbers, and its lists are finite.
LEMMA BudgetsTyped ==
  ASSUME TypeOK
  PROVE  /\ request.maxActions \in Nat /\ request.maxToolCalls \in Nat
         /\ IsFiniteSet(ToolObservations) /\ Cardinality(ToolObservations) \in Nat
         /\ ToolObservations \subseteq 1 .. Len(observations) /\ Len(observations) \in Nat
<1>1. request \in RequestType
  BY RequestsTyped DEF TypeOK
<1>2. Len(observations) \in Nat /\ DOMAIN observations = 1 .. Len(observations)
  BY DEF TypeOK
<1>3. ToolObservations \subseteq 1 .. Len(observations)
  BY <1>2 DEF ToolObservations
<1>4. IsFiniteSet(ToolObservations) /\ Cardinality(ToolObservations) \in Nat
  <2>1. IsFiniteSet(1 .. Len(observations))
    BY <1>2, FS_Interval
  <2>2. IsFiniteSet(ToolObservations)
    BY <1>3, <2>1, FS_Subset
  <2> QED
    BY <2>2, FS_CardinalityType
<1> QED
  BY <1>1, <1>2, <1>3, <1>4 DEF RequestType

\* Beginning an action counts it before it is observed.
LEMMA BeginCounts == CourseInv /\ ToolsCounted /\ Begin => ToolsCounted'
<1> SUFFICES ASSUME CourseInv, ToolsCounted, Begin PROVE ToolsCounted'
  OBVIOUS
<1> USE DEF counters, scope, records, facts, verdict, Running
<1> DEFINE action == Plan(request)[iteration + 1]
<1>0. /\ TypeOK /\ TypeInv' /\ pc = "loop" /\ iteration \in Nat /\ toolCalls \in Nat
      /\ Len(trace) = iteration /\ Len(observations) = iteration
      /\ request.maxActions \in Nat /\ request.maxToolCalls \in Nat
  <2>1. TypeInv'
    BY NextTyped DEF CourseInv, Next, Step
  <2>2. TypeOK /\ OnPlan /\ pc = "loop"
    BY DEF CourseInv, TypeInv, Begin
  <2> QED
    BY <2>1, <2>2, BudgetsTyped DEF OnPlan, TypeOK
<1>1. /\ trace' = Append(trace, action) /\ request' = request
      /\ toolCalls' = IF action \in ToolActions THEN toolCalls + 1 ELSE toolCalls
      /\ iteration + 1 <= request.maxActions
  BY DEF Begin
<1>2. Len(trace') <= request'.maxActions
  <2>1. Len(trace') = iteration + 1
    BY <1>0, <1>1 DEF TypeOK
  <2> QED
    BY <1>1, <2>1
<1>3. Cardinality(ToolObservations) = toolCalls /\ toolCalls <= request.maxToolCalls
  BY <1>0 DEF ToolsCounted
<1>4. CASE pc' = "returned" /\ UNCHANGED observations
  <2>1. ToolObservations' = ToolObservations
    BY <1>4 DEF ToolObservations
  <2> QED
    BY <1>0, <1>1, <1>2, <1>3, <1>4, <2>1 DEF ToolsCounted
<1>5. CASE /\ observations' = Append(observations, Observed(action, {}))
           /\ action \in ToolActions => ToolsLeft(toolCalls')
  <2>1. /\ observations \in Seq([action : Actions, evidence : SUBSET Nat])
        /\ DOMAIN observations = 1 .. iteration /\ DOMAIN observations' = 1 .. iteration + 1
        /\ observations'[iteration + 1] = Observed(action, {})
        /\ \A i \in 1 .. iteration : observations'[i] = observations[i]
    BY <1>0, <1>5 DEF TypeOK
  <2>2. observations'[iteration + 1].action = action
    BY <2>1 DEF Observed
  <2> HIDE DEF action
  <2>3. CASE action \in ToolActions
    <3>1. ToolObservations' = ToolObservations \union {iteration + 1}
      <4>1. 1 .. iteration + 1 = (1 .. iteration) \union {iteration + 1}
        BY <1>0
      <4> QED
        BY <2>1, <2>2, <2>3, <4>1 DEF ToolObservations
    <3>2. iteration + 1 \notin ToolObservations
      BY <1>0, BudgetsTyped
    <3>3. Cardinality(ToolObservations') = Cardinality(ToolObservations) + 1
      BY <1>0, <3>1, <3>2, BudgetsTyped, FS_AddElement
    <3>4. toolCalls' = toolCalls + 1 /\ toolCalls' <= request.maxToolCalls
      BY <1>1, <1>5, <2>3 DEF ToolsLeft, action
    <3> QED
      BY <1>0, <1>1, <1>2, <1>3, <3>3, <3>4 DEF ToolsCounted
  <2>4. CASE action \notin ToolActions
    <3>1. ToolObservations' = ToolObservations
      <4>1. 1 .. iteration + 1 = (1 .. iteration) \union {iteration + 1}
        BY <1>0
      <4> QED
        BY <2>1, <2>2, <2>4, <4>1 DEF ToolObservations
    <3>2. toolCalls' = toolCalls
      BY <1>1, <2>4 DEF action
    <3> QED
      BY <1>0, <1>1, <1>2, <1>3, <3>1, <3>2 DEF ToolsCounted
  <2> QED
    BY <2>3, <2>4
<1>6. \/ pc' = "returned" /\ UNCHANGED observations
      \/ /\ observations' = Append(observations, Observed(action, {}))
         /\ action \in ToolActions => ToolsLeft(toolCalls')
  BY DEF Begin, Stop
<1> QED
  BY <1>4, <1>5, <1>6

\* No other step counts or observes a tool call.
LEMMA NextCounted == CourseInv /\ ToolsCounted /\ [Next]_vars => ToolsCounted'
<1> SUFFICES ASSUME CourseInv, ToolsCounted, [Next]_vars PROVE ToolsCounted'
  OBVIOUS
<1> USE DEF counters, scope, records, facts, verdict, Running
<1>0. TypeOK /\ TypeInv /\ OnPlan
  BY DEF CourseInv, TypeInv
<1>1. CASE Begin
  BY <1>1, BeginCounts
<1>2. CASE /\ UNCHANGED <<trace, toolCalls, request>> /\ ToolObservations' = ToolObservations
           /\ Running' => Running
  BY <1>2 DEF ToolsCounted
<1>3. UNCHANGED observations => ToolObservations' = ToolObservations
  BY DEF ToolObservations
<1>4. CASE Start \/ TimeOut \/ ExhaustActions \/ Detect \/ InspectDiff \/ DiscoverTests
             \/ SemanticReview \/ VerifyAndGate \/ Fails \/ TimePasses \/ UNCHANGED vars
  <2>1. /\ UNCHANGED <<trace, toolCalls, request, observations>>
        /\ Running' => Running
    BY <1>4 DEF Start, TimeOut, ExhaustActions, Detect, InspectDiff, DiscoverTests,
       SemanticReview, VerifyAndGate, Fails, TimePasses, vars, Stop
  <2> QED
    BY <1>2, <1>3, <2>1
<1>5. CASE RunRules
  <2>1. CASE UNCHANGED observations
    BY <1>2, <1>3, <1>5, <2>1 DEF RunRules, RulesDone, RuleOneFile
  <2>2. CASE observations' = [observations EXCEPT ![iteration] = Observed(pc, DOMAIN evidence)]
    <3>1. pc = "run-rules" /\ pc = Plan(request)[iteration] /\ iteration \in Nat
          /\ UNCHANGED <<trace, toolCalls, request>>
      BY <1>0, <1>5 DEF RunRules, RulesDone, RuleOneFile, TypeInv, TypeOK, LabelInv,
         Actions, ToolActions, FileActions
    <3>2. DOMAIN observations = 1 .. iteration /\ DOMAIN observations' = DOMAIN observations
      BY <1>0, <2>2, <3>1 DEF OnPlan, TypeOK
    <3>3. ASSUME NEW i \in 1 .. iteration PROVE observations'[i].action = observations[i].action
      <4>1. CASE i = iteration
        BY <1>0, <2>2, <3>1, <3>2, <4>1 DEF OnPlan, Observed
      <4>2. CASE i # iteration
        BY <2>2, <3>2, <4>2
      <4> QED
        BY <4>1, <4>2
    <3>4. ToolObservations' = ToolObservations
      BY <3>2, <3>3 DEF ToolObservations
    <3> QED
      BY <1>2, <3>1, <3>4
  <2> QED
    BY <1>5, <2>1, <2>2 DEF RunRules, RulesDone, RuleOneFile
<1> QED
  BY <1>1, <1>4, <1>5 DEF Next, Step

\* No review runs more actions, tool calls or model calls than the request allows.
THEOREM ReviewLimitsHold == Spec => []LimitsHold
<1>1. Init => ToolsCounted
  <2> SUFFICES ASSUME Init PROVE ToolsCounted
    OBVIOUS
  <2>1. ToolObservations = {} /\ Len(trace) = 0 /\ toolCalls = 0
    BY DEF Init, ToolObservations
  <2>2. request.maxActions \in Nat /\ request.maxToolCalls \in Nat
    BY RequestsTyped DEF Init, RequestType
  <2> QED
    BY <2>1, <2>2, FS_EmptySet DEF ToolsCounted
<1>2. CourseInv /\ ToolsCounted => LimitsHold
  BY DEF CourseInv, ToolsCounted, OneCallEach, LimitsHold
<1> QED
  BY <1>1, <1>2, InitCourse, NextCourse, NextCounted, PTL DEF Spec, SafetySpec

-----------------------------------------------------------------------------
(***************************************************************************)
(* The Evidence of the findings.                                           *)
(***************************************************************************)

\* What FindingsRestOnEvidence says of one finding.
Rests(f) ==
  /\ f.path \in files
  /\ f.evidence \in DOMAIN evidence
  /\ evidence[f.evidence].path = f.path
  /\ f.source = "static-rule" =>
       f.status = "verified" /\ evidence[f.evidence].kind = "static_rule_match"
  /\ f.source = "semantic-reviewer" =>
       evidence[f.evidence] = Evidence("ai_semantic_review", f.path, "unverified")

OneToOne ==
  /\ \A m, n \in RuleFindingNumbers : findings[m].evidence = findings[n].evidence => m = n
  /\ \A e \in RuleEvidenceNumbers : \E n \in RuleFindingNumbers : findings[n].evidence = e

\* Nothing is found before the files are known.
NotYetFound ==
  pc \in {"start", "detect", "inspect-diff", "discover-tests"} \/ (pc = "loop" /\ iteration <= 3) =>
    findings = <<>>

RestInv == (\A n \in DOMAIN findings : Rests(findings[n])) /\ OneToOne /\ NotYetFound

\* The numbers of a longer list are the old ones and those of what was added.
LEMMA GrownNumbers ==
  ASSUME NEW S, NEW s \in Seq(S), NEW t \in Seq(S)
  PROVE  /\ DOMAIN s = 1 .. Len(s) /\ Len(s) \in Nat
         /\ \A i \in DOMAIN s : i \in DOMAIN (s \o t) /\ (s \o t)[i] = s[i]
         /\ \A i \in 1 .. Len(t) : Len(s) + i \in DOMAIN (s \o t) /\ (s \o t)[Len(s) + i] = t[i]
         /\ \A i \in DOMAIN (s \o t) :
              i \in DOMAIN s \/ (i - Len(s) \in 1 .. Len(t) /\ i = Len(s) + (i - Len(s)))
<1>1. /\ s \o t \in Seq(S) /\ Len(s \o t) = Len(s) + Len(t)
      /\ \A i \in 1 .. Len(s) + Len(t) : (s \o t)[i] = IF i <= Len(s) THEN s[i] ELSE t[i - Len(s)]
  BY ConcatProperties
<1>2. Len(s) \in Nat /\ Len(t) \in Nat /\ DOMAIN s = 1 .. Len(s)
  OBVIOUS
<1>3. DOMAIN (s \o t) = 1 .. (Len(s) + Len(t))
  BY <1>1
<1>4. ASSUME NEW i \in DOMAIN (s \o t), i \notin DOMAIN s
      PROVE  i - Len(s) \in 1 .. Len(t) /\ i = Len(s) + (i - Len(s))
  BY <1>2, <1>3, <1>4
<1>5. ASSUME NEW i \in 1 .. Len(t)
      PROVE  Len(s) + i \in DOMAIN (s \o t) /\ (s \o t)[Len(s) + i] = t[i]
  BY <1>1, <1>2, <1>3
<1> QED
  BY <1>1, <1>2, <1>3, <1>4, <1>5

\* As long as nothing changes, everything rests as it did.
LEMMA RestStays ==
  ASSUME RestInv, UNCHANGED <<facts, files>>, NotYetFound'
  PROVE  RestInv'
BY DEF RestInv, Rests, OneToOne, RuleFindingNumbers, RuleEvidenceNumbers, facts

\* Every match of a rule brings its own Evidence.
LEMMA RulesRest ==
  ASSUME RestInv, TypeOK, NEW path \in todo, RuleOneFile(path), pc = "run-rules", UNCHANGED files
  PROVE  RestInv'
<1>1. PICK matches \in MatchLists :
        /\ evidence' = evidence \o RuleEvidence(path, matches)
        /\ findings' = findings \o RuleFindings(path, matches)
  BY DEF RuleOneFile
<1> DEFINE ev == RuleEvidence(path, matches)
           fi == RuleFindings(path, matches)
<1>2. /\ Len(matches) \in Nat /\ Len(evidence) \in Nat /\ Len(findings) \in Nat
      /\ path \in Paths /\ path \in files
      /\ evidence \in Seq(EvidenceType) /\ findings \in Seq(FindingType)
  BY MatchesTyped DEF TypeOK
<1>3. PICK n \in Nat, L \in Nat, F \in Nat :
        n = Len(matches) /\ L = Len(evidence) /\ F = Len(findings)
  BY <1>2
<1>4. ev \in [1 .. n -> EvidenceType] /\ fi \in [1 .. n -> FindingType]
  <2>1. \A k \in 1 .. n : matches[k] \in Severities /\ L + k \in Nat \ {0}
    BY <1>2, <1>3, MatchesTyped
  <2>2. \A k \in 1 .. n : Finding("static-rule", matches[k], path, L + k, "verified") \in FindingType
    BY <1>2, <2>1 DEF Finding, FindingType
  <2>3. Evidence("static_rule_match", path, "verified") \in EvidenceType
    BY <1>2 DEF Evidence, EvidenceType
  <2> QED
    BY <1>3, <2>2, <2>3 DEF RuleFindings, RuleEvidence
<1>5. ASSUME NEW k \in 1 .. n
      PROVE  /\ fi[k].source = "static-rule" /\ fi[k].path = path
             /\ fi[k].evidence = L + k /\ fi[k].status = "verified"
             /\ ev[k].kind = "static_rule_match" /\ ev[k].path = path
  <2>1. fi[k] = Finding("static-rule", matches[k], path, L + k, "verified")
    BY <1>3 DEF RuleFindings
  <2>2. ev[k] = Evidence("static_rule_match", path, "verified")
    BY <1>3 DEF RuleEvidence
  <2> QED
    BY <2>1, <2>2 DEF Finding, Evidence
<1>a. evidence' = evidence \o ev /\ findings' = findings \o fi
  BY <1>1
<1> HIDE DEF ev, fi
<1>b. ev \in Seq(EvidenceType) /\ Len(ev) = n /\ fi \in Seq(FindingType) /\ Len(fi) = n
  BY <1>3, <1>4, MappingIsList
<1>6. /\ \A i \in DOMAIN evidence : i \in DOMAIN evidence' /\ evidence'[i] = evidence[i]
      /\ \A k \in 1 .. n : L + k \in DOMAIN evidence' /\ evidence'[L + k] = ev[k]
      /\ \A i \in DOMAIN evidence' : i \in DOMAIN evidence \/ \E k \in 1 .. n : i = L + k
      /\ DOMAIN evidence = 1 .. L
  <2>1. \A i \in DOMAIN evidence : i \in DOMAIN evidence' /\ evidence'[i] = evidence[i]
    BY <1>2, <1>a, <1>b, GrownNumbers
  <2>2. ASSUME NEW k \in 1 .. n
        PROVE  L + k \in DOMAIN evidence' /\ evidence'[L + k] = ev[k]
    <3>1. k \in 1 .. Len(ev) /\ L = Len(evidence) /\ evidence' = evidence \o ev
      BY <1>3, <1>a, <1>b
    <3>2. evidence \in Seq(EvidenceType) /\ ev \in Seq(EvidenceType)
      BY <1>2, <1>b
    <3> QED
      BY <3>1, <3>2, GrownNumbers
  <2>3. ASSUME NEW i \in DOMAIN evidence'
        PROVE  i \in DOMAIN evidence \/ \E k \in 1 .. n : i = L + k
    <3>1. Len(ev) = n /\ L = Len(evidence) /\ evidence' = evidence \o ev
      BY <1>3, <1>a, <1>b
    <3>2. evidence \in Seq(EvidenceType) /\ ev \in Seq(EvidenceType)
      BY <1>2, <1>b
    <3>3. i \in DOMAIN evidence \/ (i - L \in 1 .. n /\ i = L + (i - L))
      BY <3>1, <3>2, GrownNumbers
    <3> QED
      BY <3>3
  <2>4. DOMAIN evidence = 1 .. L
    BY <1>2, <1>3, GrownNumbers
  <2> QED
    BY <2>1, <2>2, <2>3, <2>4
<1>7. /\ \A i \in DOMAIN findings : i \in DOMAIN findings' /\ findings'[i] = findings[i]
      /\ \A k \in 1 .. n : F + k \in DOMAIN findings' /\ findings'[F + k] = fi[k]
      /\ \A i \in DOMAIN findings' : i \in DOMAIN findings \/ \E k \in 1 .. n : i = F + k
      /\ DOMAIN findings = 1 .. F
  <2>1. \A i \in DOMAIN findings : i \in DOMAIN findings' /\ findings'[i] = findings[i]
    BY <1>2, <1>a, <1>b, GrownNumbers
  <2>2. ASSUME NEW k \in 1 .. n
        PROVE  F + k \in DOMAIN findings' /\ findings'[F + k] = fi[k]
    <3>1. k \in 1 .. Len(fi) /\ F = Len(findings) /\ findings' = findings \o fi
      BY <1>3, <1>a, <1>b
    <3>2. findings \in Seq(FindingType) /\ fi \in Seq(FindingType)
      BY <1>2, <1>b
    <3> QED
      BY <3>1, <3>2, GrownNumbers
  <2>3. ASSUME NEW i \in DOMAIN findings'
        PROVE  i \in DOMAIN findings \/ \E k \in 1 .. n : i = F + k
    <3>1. Len(fi) = n /\ F = Len(findings) /\ findings' = findings \o fi
      BY <1>3, <1>a, <1>b
    <3>2. findings \in Seq(FindingType) /\ fi \in Seq(FindingType)
      BY <1>2, <1>b
    <3>3. i \in DOMAIN findings \/ (i - F \in 1 .. n /\ i = F + (i - F))
      BY <3>1, <3>2, GrownNumbers
    <3> QED
      BY <3>3
  <2>4. DOMAIN findings = 1 .. F
    BY <1>2, <1>3, GrownNumbers
  <2> QED
    BY <2>1, <2>2, <2>3, <2>4
<1>8. /\ \A k \in 1 .. n : F + k \in RuleFindingNumbers' /\ findings'[F + k].evidence = L + k
      /\ \A m \in RuleFindingNumbers' :
           \/ m \in RuleFindingNumbers /\ findings'[m].evidence = findings[m].evidence
                /\ findings[m].evidence \in 1 .. L
           \/ \E k \in 1 .. n : m = F + k /\ findings'[m].evidence = L + k
  <2>1. \A k \in 1 .. n : F + k \in RuleFindingNumbers' /\ findings'[F + k].evidence = L + k
    BY <1>5, <1>7 DEF RuleFindingNumbers
  <2>2. ASSUME NEW m \in RuleFindingNumbers', m \in DOMAIN findings
        PROVE  m \in RuleFindingNumbers /\ findings'[m].evidence = findings[m].evidence
                 /\ findings[m].evidence \in 1 .. L
    BY <1>6, <1>7, <2>2 DEF RuleFindingNumbers, RestInv, Rests
  <2> QED
    BY <1>7, <2>1, <2>2 DEF RuleFindingNumbers
<1>9. ASSUME NEW i \in DOMAIN findings' PROVE Rests(findings[i])'
  <2>1. CASE i \in DOMAIN findings
    BY <1>6, <1>7, <2>1 DEF RestInv, Rests
  <2>2. CASE \E k \in 1 .. n : i = F + k
    <3>1. PICK k \in 1 .. n : i = F + k
      BY <2>2
    <3>2. findings'[i] = fi[k] /\ L + k \in DOMAIN evidence' /\ evidence'[L + k] = ev[k]
      BY <1>6, <1>7, <3>1
    <3> QED
      BY <1>2, <1>5, <3>2 DEF Rests
  <2> QED
    BY <1>7, <2>1, <2>2
<1>10. OneToOne'
  <2>1. ASSUME NEW i \in RuleFindingNumbers', NEW j \in RuleFindingNumbers',
               findings'[i].evidence = findings'[j].evidence
        PROVE  i = j
    <3>1. CASE i \in RuleFindingNumbers /\ j \in RuleFindingNumbers
      BY <2>1, <1>7, <3>1 DEF RestInv, OneToOne, RuleFindingNumbers
    <3>2. ASSUME NEW m \in RuleFindingNumbers', NEW k \in 1 .. n,
                 m = F + k, findings'[m].evidence = L + k,
                 NEW o \in RuleFindingNumbers', findings'[o].evidence = findings'[m].evidence
          PROVE  o = m
      <4>1. CASE findings'[o].evidence = findings[o].evidence /\ findings[o].evidence \in 1 .. L
        BY <3>2, <4>1
      <4>2. CASE \E l \in 1 .. n : o = F + l /\ findings'[o].evidence = L + l
        BY <3>2, <4>2
      <4> QED
        BY <1>8, <4>1, <4>2
    <3> QED
      BY <1>8, <2>1, <3>1, <3>2
  <2>2. ASSUME NEW e \in RuleEvidenceNumbers'
        PROVE  \E m \in RuleFindingNumbers' : findings'[m].evidence = e
    <3>1. CASE e \in DOMAIN evidence
      <4>1. e \in RuleEvidenceNumbers
        BY <1>6, <3>1 DEF RuleEvidenceNumbers
      <4>2. PICK m \in RuleFindingNumbers : findings[m].evidence = e
        BY <4>1 DEF RestInv, OneToOne
      <4> QED
        BY <1>7, <4>2 DEF RuleFindingNumbers
    <3>2. CASE \E k \in 1 .. n : e = L + k
      <4>1. PICK k \in 1 .. n : e = L + k
        BY <3>2
      <4>2. F + k \in RuleFindingNumbers' /\ findings'[F + k].evidence = e
        BY <1>8, <4>1
      <4> QED
        BY <4>2
    <3> QED
      BY <1>6, <3>1, <3>2 DEF RuleEvidenceNumbers
  <2> QED
    BY <2>1, <2>2 DEF OneToOne
<1>11. NotYetFound'
  BY DEF NotYetFound, RuleOneFile
<1> QED
  BY <1>9, <1>10, <1>11 DEF RestInv

\* The Evidence that no rule gives leaves that of the rules alone.
LEMMA OtherEvidenceRests ==
  ASSUME RestInv, TypeOK, NEW e \in EvidenceType, e.kind # "static_rule_match",
         evidence' = Append(evidence, e),
         NEW issues \in Nat, NEW new \in [1 .. issues -> FindingType],
         findings' = findings \o new,
         \A k \in 1 .. issues : /\ new[k].source = "semantic-reviewer"
                                /\ new[k].path = e.path /\ e.path \in files
                                /\ new[k].evidence = Len(evidence) + 1
                                /\ e = Evidence("ai_semantic_review", e.path, "unverified"),
         UNCHANGED files, NotYetFound'
  PROVE  RestInv'
<1>1. PICK L \in Nat, F \in Nat : L = Len(evidence) /\ F = Len(findings)
  BY DEF TypeOK
<1>2. /\ \A i \in DOMAIN evidence : i \in DOMAIN evidence' /\ evidence'[i] = evidence[i]
      /\ L + 1 \in DOMAIN evidence' /\ evidence'[L + 1] = e
      /\ \A i \in DOMAIN evidence' : i \in DOMAIN evidence \/ i = L + 1
      /\ DOMAIN evidence = 1 .. L
  BY <1>1, AppendProperties DEF TypeOK
<1>3. /\ \A i \in DOMAIN findings : i \in DOMAIN findings' /\ findings'[i] = findings[i]
      /\ \A k \in 1 .. issues : F + k \in DOMAIN findings' /\ findings'[F + k] = new[k]
      /\ \A i \in DOMAIN findings' : i \in DOMAIN findings \/ \E k \in 1 .. issues : i = F + k
  <2>1. findings \in Seq(FindingType) /\ new \in Seq(FindingType) /\ Len(new) = issues
    BY MappingIsList DEF TypeOK
  <2>2. \A i \in DOMAIN findings : i \in DOMAIN findings' /\ findings'[i] = findings[i]
    BY <2>1, GrownNumbers
  <2>3. ASSUME NEW k \in 1 .. issues
        PROVE  F + k \in DOMAIN findings' /\ findings'[F + k] = new[k]
    <3>1. k \in 1 .. Len(new) /\ F = Len(findings) /\ findings' = findings \o new
      BY <1>1, <2>1
    <3> QED
      BY <2>1, <3>1, GrownNumbers
  <2>4. ASSUME NEW i \in DOMAIN findings'
        PROVE  i \in DOMAIN findings \/ \E k \in 1 .. issues : i = F + k
    <3>1. Len(new) = issues /\ F = Len(findings) /\ findings' = findings \o new
      BY <1>1, <2>1
    <3>2. i \in DOMAIN findings \/ (i - F \in 1 .. issues /\ i = F + (i - F))
      BY <2>1, <3>1, GrownNumbers
    <3> QED
      BY <3>2
  <2> QED
    BY <2>2, <2>3, <2>4
<1>4. ASSUME NEW i \in DOMAIN findings' PROVE Rests(findings[i])'
  <2>1. CASE i \in DOMAIN findings
    BY <1>2, <1>3, <2>1 DEF RestInv, Rests
  <2>2. CASE \E k \in 1 .. issues : i = F + k
    <3>1. PICK k \in 1 .. issues : i = F + k /\ findings'[i] = new[k]
      BY <1>3, <2>2
    <3> QED
      BY <1>1, <1>2, <3>1 DEF Rests
  <2> QED
    BY <1>3, <2>1, <2>2
<1>5. RuleFindingNumbers' = RuleFindingNumbers /\ RuleEvidenceNumbers' = RuleEvidenceNumbers
  BY <1>2, <1>3 DEF RuleFindingNumbers, RuleEvidenceNumbers
<1>6. OneToOne'
  BY <1>3, <1>5 DEF RestInv, OneToOne, RuleFindingNumbers
<1> QED
  BY <1>4, <1>6 DEF RestInv

\* Verifying keeps what the findings rest on.
LEMMA VerifiedRest ==
  ASSUME RestInv, TypeOK, findings' = Verified, UNCHANGED <<evidence, files>>, NotYetFound'
  PROVE  RestInv'
<1>1. \A n \in DOMAIN findings : findings[n] \in FindingType
  BY DEF TypeOK
<1>2. DOMAIN findings' = DOMAIN findings
  BY DEF Verified
<1>3. ASSUME NEW n \in DOMAIN findings
      PROVE  /\ findings'[n].source = findings[n].source /\ findings'[n].path = findings[n].path
             /\ findings'[n].evidence = findings[n].evidence
             /\ findings[n].source = "static-rule" => findings'[n].status = "verified"
  <2>1. findings'[n] = [findings[n] EXCEPT !.status = VerificationOf(findings[n])]
    BY DEF Verified
  <2>2. findings[n].source = "static-rule" => VerificationOf(findings[n]) = "verified"
    BY DEF VerificationOf, RestInv, Rests
  <2> QED
    BY <1>1, <2>1, <2>2 DEF FindingType
<1>4. \A n \in DOMAIN findings' : Rests(findings[n])'
  BY <1>2, <1>3 DEF RestInv, Rests
<1>5. RuleFindingNumbers' = RuleFindingNumbers /\ RuleEvidenceNumbers' = RuleEvidenceNumbers
  BY <1>2, <1>3 DEF RuleFindingNumbers, RuleEvidenceNumbers
<1>6. OneToOne'
  BY <1>3, <1>5 DEF RestInv, OneToOne, RuleFindingNumbers
<1> QED
  BY <1>4, <1>6 DEF RestInv

\* At the start nothing is found.
LEMMA InitRest == Init => RestInv
BY DEF Init, RestInv, Rests, OneToOne, NotYetFound, RuleFindingNumbers, RuleEvidenceNumbers

\* No step in front of the rules finds anything.
LEMMA NextNotYet ==
  CourseInv /\ RestInv /\ [Next]_vars /\ (pc \in {"run-rules", "semantic-review", "verify-and-gate"}
                                            \/ findings' = findings)
    => NotYetFound'
<1> SUFFICES ASSUME CourseInv, RestInv, [Next]_vars,
                    pc \in {"run-rules", "semantic-review", "verify-and-gate"}
                      \/ findings' = findings
             PROVE  NotYetFound'
  OBVIOUS
<1> USE DEF counters, scope, records, facts, verdict
<1>0. TypeInv /\ LabelInv /\ NotYetFound /\ iteration \in Nat
  BY DEF CourseInv, TypeInv, TypeOK, RestInv
<1>1. CASE pc' = "returned" \/ pc' = "raised"
  BY <1>1 DEF NotYetFound
<1>2. CASE UNCHANGED <<pc, iteration, findings>>
  BY <1>0, <1>2 DEF NotYetFound
<1>3. CASE Begin /\ pc' # "returned"
  <2>1. /\ pc = "loop" /\ pc' = Plan(request)[iteration + 1] /\ iteration < Len(Plan(request))
        /\ UNCHANGED findings
    BY <1>0, <1>3 DEF Begin, Stop, LabelInv
  <2>2. CASE iteration <= 3
    <3>1. findings = <<>>
      BY <1>0, <2>1, <2>2 DEF NotYetFound
    <3> QED
      BY <2>1, <3>1 DEF NotYetFound
  <2>3. CASE iteration >= 4
    <3>1. iteration = 4 \/ (iteration = 5 /\ Len(Plan(request)) = 6)
      <4>1. PICK n \in 5 .. 6 : n = Len(Plan(request))
        BY PlanShape
      <4>2. iteration < n
        BY <2>1, <4>1
      <4>3. ASSUME NEW i \in Nat, i >= 4, NEW m \in {5, 6}, i < m
            PROVE  i = 4 \/ (i = 5 /\ m = 6)
        BY <4>3
      <4>4. n \in {5, 6}
        BY <4>1
      <4>5. iteration = 4 \/ (iteration = 5 /\ n = 6)
        BY <1>0, <2>3, <4>2, <4>3, <4>4
      <4> QED
        BY <4>1, <4>5
    <3>2. iteration = 4 => pc' = Plan(request)[5]
      BY <2>1
    <3>3. iteration = 5 => pc' = Plan(request)[6]
      BY <2>1
    <3>4. /\ Plan(request)[5] \in {"semantic-review", "verify-and-gate"}
          /\ Len(Plan(request)) = 6 => Plan(request)[6] = "verify-and-gate"
      <4>1. CASE request.semantic
        BY <4>1, PlanShape
      <4>2. CASE ~ request.semantic
        BY <4>2, PlanShape
      <4> QED
        BY <4>1, <4>2
    <3>5. pc' \in {"semantic-review", "verify-and-gate"}
      BY <3>1, <3>2, <3>3, <3>4
    <3> QED
      BY <3>5 DEF NotYetFound
  <2> QED
    BY <1>0, <2>2, <2>3
<1>4. CASE pc \in {"run-rules", "semantic-review", "verify-and-gate"} /\ UNCHANGED iteration
           /\ (pc' = pc \/ pc' = "loop")
  <2>1. iteration >= 4
    <3>1. PICK n \in 5 .. 6 : n = Len(Plan(request))
      BY PlanShape
    <3>2. iteration = 4 \/ iteration = 5 \/ iteration = n
      BY <1>0, <1>4, <3>1, PlaceInPlan
    <3> QED
      BY <3>1, <3>2
  <2> QED
    BY <1>0, <1>4, <2>1 DEF NotYetFound
<1>5. CASE Start
  BY <1>0, <1>5 DEF Start, Stop, NotYetFound
<1>6. CASE Detect \/ InspectDiff \/ DiscoverTests
  <2>1. /\ pc \in {"detect", "inspect-diff", "discover-tests"} /\ UNCHANGED findings
        /\ pc' \in {"loop", "returned"}
    BY <1>6 DEF Detect, InspectDiff, DiscoverTests, Proceed, Stop
  <2> QED
    BY <1>0, <2>1 DEF NotYetFound
<1>7. CASE RunRules
  BY <1>1, <1>4, <1>7 DEF RunRules, RulesDone, RuleOneFile, Proceed
<1>8. CASE SemanticReview
  BY <1>1, <1>4, <1>8 DEF SemanticReview, AskReviewer, Proceed, Stop
<1>9. CASE TimeOut \/ ExhaustActions \/ VerifyAndGate \/ Fails
  BY <1>1, <1>9 DEF TimeOut, ExhaustActions, VerifyAndGate, Fails, Stop
<1>10. TimePasses \/ UNCHANGED vars => UNCHANGED <<pc, iteration, findings>>
  BY DEF TimePasses, vars
<1> QED
  BY <1>1, <1>2, <1>3, <1>5, <1>6, <1>7, <1>8, <1>9, <1>10 DEF Next, Step

\* The reviewer's Evidence is that of all its findings in the file.
LEMMA ReviewerRests ==
  ASSUME CourseInv, RestInv, SemanticReview, NEW path \in todo, AskReviewer(path), NotYetFound'
  PROVE  RestInv'
<1> USE DEF scope, facts
<1>1. PICK issues \in IssueCounts, status \in {"unverified", "partially_verified", "verified"} :
        IF issues = 0 THEN UNCHANGED facts
        ELSE /\ evidence' = Append(evidence, Evidence("ai_semantic_review", path, "unverified"))
             /\ findings' = findings \o SemanticFindings(path, issues, status)
  BY DEF AskReviewer
<1>2. issues \in Nat /\ TypeOK /\ UNCHANGED files /\ path \in Paths /\ path \in files
  BY IssuesTyped DEF CourseInv, TypeInv, TypeOK, SemanticReview
<1>3. CASE issues = 0
  BY <1>1, <1>2, <1>3, RestStays
<1>4. CASE issues # 0
  <2> DEFINE e == Evidence("ai_semantic_review", path, "unverified")
             new == SemanticFindings(path, issues, status)
  <2>1. e \in EvidenceType /\ e.kind = "ai_semantic_review" /\ e.path = path
    BY <1>2 DEF Evidence, EvidenceType
  <2>2. Len(evidence) + 1 \in Nat \ {0}
    BY <1>2 DEF TypeOK
  <2>3. new \in [1 .. issues -> FindingType]
    BY <1>2, <2>2 DEF SemanticFindings, Finding, FindingType, Severities
  <2>4. \A k \in 1 .. issues : /\ new[k].source = "semantic-reviewer" /\ new[k].path = path
                               /\ new[k].evidence = Len(evidence) + 1
    BY DEF SemanticFindings, Finding
  <2>5. evidence' = Append(evidence, e) /\ findings' = findings \o new
    BY <1>1, <1>4
  <2>6. e = Evidence("ai_semantic_review", e.path, "unverified")
    BY <2>1
  <2> HIDE DEF e, new
  <2> QED
    BY <1>2, <2>1, <2>3, <2>4, <2>5, <2>6, OtherEvidenceRests
<1> QED
  BY <1>3, <1>4

\* No step takes from a finding what it rests on.
LEMMA NextRest == CourseInv /\ RestInv /\ [Next]_vars => RestInv'
<1> SUFFICES ASSUME CourseInv, RestInv, [Next]_vars PROVE RestInv'
  OBVIOUS
<1> USE DEF counters, scope, records, facts, verdict
<1>0. TypeInv /\ TypeOK
  BY DEF CourseInv, TypeInv
<1>1. CASE UNCHANGED <<facts, files>>
  <2>1. NotYetFound'
    BY <1>1, NextNotYet
  <2> QED
    BY <1>1, <2>1, RestStays
<1>2. CASE InspectDiff
  <2>1. NotYetFound'
    BY <1>2, NextNotYet DEF InspectDiff
  <2>2. CASE UNCHANGED evidence
    BY <1>1, <1>2, <2>2 DEF InspectDiff
  <2>3. CASE evidence' = Append(evidence, Evidence("git_diff", Root, "verified"))
    <3> DEFINE e == Evidence("git_diff", Root, "verified")
    <3>1. e \in EvidenceType /\ e.kind # "static_rule_match"
      BY DEF Evidence, EvidenceType
    <3>2. <<>> \in [1 .. 0 -> FindingType] /\ 0 \in Nat
      OBVIOUS
    <3>3. findings' = findings \o <<>> /\ UNCHANGED files
      BY <1>0, <1>2 DEF InspectDiff, TypeOK
    <3>4. evidence' = Append(evidence, e)
      BY <2>3
    <3>5. \A k \in 1 .. 0 : FALSE
      OBVIOUS
    <3> HIDE DEF e
    <3> QED
      BY <1>0, <2>1, <3>1, <3>2, <3>3, <3>4, <3>5, OtherEvidenceRests
  <2> QED
    BY <1>2, <2>2, <2>3 DEF InspectDiff
<1>3. CASE DiscoverTests
  <2>1. findings = <<>> /\ UNCHANGED facts
    BY <1>3 DEF DiscoverTests, RestInv, NotYetFound
  <2>2. NotYetFound'
    BY <2>1, NextNotYet
  <2> QED
    BY <2>1, <2>2 DEF RestInv, Rests, OneToOne, RuleFindingNumbers, RuleEvidenceNumbers
<1>4. CASE RunRules
  <2>1. CASE UNCHANGED facts
    BY <1>1, <1>4, <2>1 DEF RunRules
  <2>2. CASE \E path \in todo : RuleOneFile(path)
    BY <1>0, <1>4, <2>2, RulesRest DEF RunRules
  <2> QED
    BY <1>4, <2>1, <2>2 DEF RunRules, RulesDone
<1>5. CASE SemanticReview
  <2>1. CASE UNCHANGED facts
    BY <1>1, <1>5, <2>1 DEF SemanticReview
  <2>2. CASE \E path \in todo : AskReviewer(path)
    <3>1. NotYetFound'
      BY <1>5, NextNotYet DEF SemanticReview
    <3> QED
      BY <1>5, <2>2, <3>1, ReviewerRests
  <2> QED
    BY <1>5, <2>1, <2>2 DEF SemanticReview
<1>6. CASE VerifyAndGate
  <2>1. NotYetFound'
    BY <1>6, NextNotYet DEF VerifyAndGate
  <2> QED
    BY <1>0, <1>6, <2>1, VerifiedRest DEF VerifyAndGate
<1>7. Start \/ TimeOut \/ ExhaustActions \/ Begin \/ Detect \/ Fails \/ TimePasses
        \/ UNCHANGED vars => UNCHANGED <<facts, files>>
  BY DEF Start, TimeOut, ExhaustActions, Begin, Detect, Fails, TimePasses, vars
<1> QED
  BY <1>1, <1>2, <1>3, <1>4, <1>5, <1>6, <1>7 DEF Next, Step

\* Every finding rests on Evidence of its own file and origin; no two findings of
\* rules share Evidence, and no Evidence of a rule is without its finding.
THEOREM FindingsAreBacked == Spec => []FindingsRestOnEvidence
<1>1. RestInv => FindingsRestOnEvidence
  BY DEF RestInv, Rests, OneToOne, FindingsRestOnEvidence
<1> QED
  BY <1>1, InitCourse, NextCourse, InitRest, NextRest, PTL DEF Spec, SafetySpec

-----------------------------------------------------------------------------
(***************************************************************************)
(* The trace and the observations.                                         *)
(***************************************************************************)

\* Once the rules are done, their observation names all of their Evidence.
RulesNamed ==
  Running /\ pc # "run-rules" /\ iteration >= 4 =>
    RuleEvidenceNumbers \subseteq observations[4].evidence

EndedTells == ~ Running => TraceTellsTheReview

\* Evidence of another kind does not count as that of a rule.
LEMMA OtherKindAdded ==
  ASSUME TypeOK, NEW e, e.kind # "static_rule_match", evidence' = Append(evidence, e)
  PROVE  RuleEvidenceNumbers' = RuleEvidenceNumbers
<1>1. evidence \in Seq(EvidenceType) /\ Len(evidence) \in Nat
  BY DEF TypeOK
<1>2. /\ DOMAIN evidence = 1 .. Len(evidence)
      /\ DOMAIN evidence' = 1 .. Len(evidence) + 1
      /\ evidence'[Len(evidence) + 1] = e
      /\ \A i \in 1 .. Len(evidence) : evidence'[i] = evidence[i]
  BY <1>1
<1>3. \A i \in 1 .. Len(evidence) + 1 : i \in 1 .. Len(evidence) \/ i = Len(evidence) + 1
  BY <1>1
<1>4. 1 .. Len(evidence) \subseteq 1 .. Len(evidence) + 1
  BY <1>1
<1> QED
  BY <1>2, <1>3, <1>4 DEF RuleEvidenceNumbers

\* While a review runs, the plan and the names tell all.
LEMMA RunningTells == CourseInv /\ RulesNamed /\ Running => TraceTellsTheReview
<1> SUFFICES ASSUME CourseInv, RulesNamed, Running PROVE TraceTellsTheReview
  OBVIOUS
<1>1. /\ TypeInv /\ iteration \in Nat /\ observations \in Seq([action : Actions, evidence : SUBSET Nat])
      /\ Len(trace) = iteration /\ Len(observations) = iteration
      /\ \A i \in 1 .. iteration : /\ trace[i] = Plan(request)[i]
                                   /\ observations[i].action = Plan(request)[i]
  BY DEF CourseInv, TypeInv, TypeOK, OnPlan
<1>2. DOMAIN observations = 1 .. iteration
  BY <1>1
<1>3. ASSUME NEW i \in 1 .. Len(observations) - 1, observations[i].action = "run-rules"
      PROVE  RuleEvidenceNumbers \subseteq observations[i].evidence
  <2>1. i \in 1 .. iteration /\ i < iteration
    BY <1>1
  <2>2. iteration <= Len(Plan(request))
    <3>1. CASE pc = "start"
      BY <1>1, <2>1, <3>1 DEF TypeInv, LabelInv
    <3>2. CASE pc = "loop"
      BY <1>1, <3>2, PlanShape DEF TypeInv, LabelInv
    <3>3. CASE pc \in Actions
      BY <1>1, <3>3, PlanShape DEF TypeInv, LabelInv
    <3> QED
      BY <1>1, <3>1, <3>2, <3>3 DEF TypeInv, TypeOK, Running
  <2>3. Plan(request)[i] = "run-rules" /\ i \in 1 .. Len(Plan(request))
    <3>1. PICK n \in 5 .. 6 : n = Len(Plan(request))
      BY PlanShape
    <3> QED
      BY <1>1, <1>3, <2>1, <2>2, <3>1
  <2>4. i = 4
    <3>1. CASE request.semantic
      BY <2>3, <3>1 DEF Plan
    <3>2. CASE ~ request.semantic
      BY <2>3, <3>2 DEF Plan
    <3> QED
      BY <3>1, <3>2
  <2>5. pc # "run-rules"
    BY <1>1, <2>1, <2>4, PlaceInPlan
  <2> QED
    BY <1>1, <2>1, <2>4, <2>5 DEF RulesNamed
<1> QED
  BY <1>1, <1>2, <1>3 DEF TraceTellsTheReview, RuleEvidenceNumbers

\* No step takes a name away, and the rules' last one gives them all.
LEMMA NextNamed == CourseInv /\ RulesNamed /\ [Next]_vars => RulesNamed'
<1> SUFFICES ASSUME CourseInv, RulesNamed, [Next]_vars,
                    Running', pc' # "run-rules", iteration' >= 4
             PROVE  RuleEvidenceNumbers' \subseteq observations'[4].evidence
  BY DEF RulesNamed
<1> USE DEF counters, scope, records, facts, verdict, Running
<1>0. TypeInv /\ TypeOK /\ LabelInv /\ OnPlan /\ iteration \in Nat
  BY DEF CourseInv, TypeInv, TypeOK
<1>1. CASE UNCHANGED <<observations, iteration>> /\ RuleEvidenceNumbers' = RuleEvidenceNumbers
           /\ Running /\ pc # "run-rules"
  BY <1>1 DEF RulesNamed
<1>2. UNCHANGED evidence => RuleEvidenceNumbers' = RuleEvidenceNumbers
  BY DEF RuleEvidenceNumbers
<1>3. CASE Begin
  <2>1. /\ pc = "loop" /\ iteration' = iteration + 1 /\ UNCHANGED evidence
        /\ pc' = Plan(request)[iteration + 1]
        /\ \E o : observations' = Append(observations, o)
    BY <1>3 DEF Begin, Stop
  <2>2. iteration # 3
    BY <2>1, PlanShape
  <2>3. iteration >= 4
    BY <1>0, <2>1, <2>2
  <2>4. Len(observations) = iteration
        /\ observations \in Seq([action : Actions, evidence : SUBSET Nat])
    BY <1>0, <2>1 DEF OnPlan, TypeOK
  <2>5. observations'[4] = observations[4]
    <3>1. PICK o : observations' = Append(observations, o)
      BY <2>1
    <3>2. 4 \in 1 .. Len(observations)
      BY <1>0, <2>3, <2>4
    <3> QED
      BY <2>4, <3>1, <3>2
  <2> QED
    BY <1>2, <2>1, <2>3, <2>5 DEF RulesNamed
<1>4. CASE Start \/ Detect \/ InspectDiff \/ DiscoverTests
  <2>1. iteration' \in {0, 1, 2, 3}
    BY <1>0, <1>4, PlaceInPlan DEF Start, Detect, InspectDiff, DiscoverTests, LabelInv
  <2> QED
    BY <2>1
<1>5. CASE RunRules
  <2>1. RulesDone /\ UNCHANGED iteration /\ pc = "run-rules" /\ iteration = 4
    BY <1>0, <1>5, PlaceInPlan DEF RunRules, RuleOneFile
  <2>2. observations' = [observations EXCEPT ![4] = Observed(pc, DOMAIN evidence)]
        /\ UNCHANGED evidence
    BY <2>1 DEF RulesDone
  <2>3. 4 \in DOMAIN observations
    BY <1>0, <2>1 DEF OnPlan, TypeOK
  <2>4. observations'[4].evidence = DOMAIN evidence
    BY <2>2, <2>3 DEF Observed
  <2> QED
    BY <2>2, <2>4 DEF RuleEvidenceNumbers
<1>6. CASE SemanticReview
  <2>1. UNCHANGED <<observations, iteration>> /\ Running /\ pc # "run-rules"
    BY <1>6 DEF SemanticReview
  <2>2. CASE UNCHANGED evidence
    BY <1>1, <1>2, <2>1, <2>2
  <2>3. CASE \E path : evidence' = Append(evidence, Evidence("ai_semantic_review", path, "unverified"))
    <3>1. PICK path : evidence' = Append(evidence, Evidence("ai_semantic_review", path, "unverified"))
      BY <2>3
    <3>2. Evidence("ai_semantic_review", path, "unverified").kind # "static_rule_match"
      BY DEF Evidence
    <3>3. RuleEvidenceNumbers' = RuleEvidenceNumbers
      BY <1>0, <3>1, <3>2, OtherKindAdded
    <3> QED
      BY <1>1, <2>1, <3>3
  <2> QED
    BY <1>6, <2>2, <2>3 DEF SemanticReview, AskReviewer
<1>7. TimeOut \/ ExhaustActions \/ VerifyAndGate \/ Fails => pc' \in {"returned", "raised"}
  BY DEF TimeOut, ExhaustActions, VerifyAndGate, Fails, Stop
<1>8. TimePasses \/ UNCHANGED vars => UNCHANGED <<observations, iteration, evidence, pc>>
  BY DEF TimePasses, vars
<1>9. CASE UNCHANGED <<observations, iteration, evidence, pc>>
  BY <1>1, <1>2, <1>9
<1> QED
  BY <1>3, <1>4, <1>5, <1>6, <1>7, <1>8, <1>9 DEF Next, Step

\* The step that ends a review observes nothing and matches no rule.
LEMMA EndingObservesNothing ==
  ASSUME CourseInv, [Next]_vars, Running, ~ Running'
  PROVE  /\ UNCHANGED observations /\ RuleEvidenceNumbers' = RuleEvidenceNumbers
         /\ UNCHANGED trace \/ (Begin /\ reason' = "BUDGET_EXHAUSTED")
<1> USE DEF counters, scope, records, facts, verdict, Running, Returned
<1>0. TypeOK
  BY DEF CourseInv, TypeInv
<1>1. UNCHANGED evidence => RuleEvidenceNumbers' = RuleEvidenceNumbers
  BY DEF RuleEvidenceNumbers
<1>2. CASE UNCHANGED <<observations, evidence, trace>>
  BY <1>1, <1>2
<1>3. CASE InspectDiff
  <2>1. UNCHANGED <<observations, trace>>
    BY <1>3 DEF InspectDiff
  <2>2. CASE evidence' = Append(evidence, Evidence("git_diff", Root, "verified"))
    <3>1. Evidence("git_diff", Root, "verified").kind # "static_rule_match"
      BY DEF Evidence
    <3> QED
      BY <1>0, <2>1, <2>2, <3>1, OtherKindAdded
  <2> QED
    BY <1>2, <1>3, <2>1, <2>2 DEF InspectDiff
<1>4. CASE Begin /\ Stop("BUDGET_EXHAUSTED")
  <2>1. pc' = "returned" /\ reason' = "BUDGET_EXHAUSTED" /\ UNCHANGED evidence
    BY <1>4 DEF Begin, Stop
  <2>2. iteration + 1 \in 1 .. Len(Plan(request))
    BY <1>4, PlanShape DEF Begin, CourseInv, TypeInv, TypeOK, LabelInv
  <2>3. Plan(request)[iteration + 1] # "returned"
    BY <2>2, PlanShape DEF Actions, ToolActions, FileActions
  <2>4. UNCHANGED observations
    BY <1>4, <2>1, <2>3 DEF Begin
  <2> QED
    BY <1>1, <1>4, <2>1, <2>4
<1>5. CASE SemanticReview /\ Stop("BUDGET_EXHAUSTED")
  <2>1. pc' = "returned" /\ pc = "semantic-review"
    BY <1>5 DEF Stop, SemanticReview
  <2>2. UNCHANGED facts
    BY <1>5, <2>1 DEF SemanticReview, AskReviewer
  <2> QED
    BY <1>2, <1>5, <2>2 DEF SemanticReview
<1>6. Start \/ TimeOut \/ ExhaustActions \/ VerifyAndGate \/ Fails
        => UNCHANGED <<observations, evidence, trace>>
  BY DEF Start, TimeOut, ExhaustActions, VerifyAndGate, Fails
<1>7. pc' = "raised" => Fails
  <2>1. ASSUME Begin PROVE pc' # "raised"
    <3>1. iteration + 1 \in 1 .. Len(Plan(request))
      BY <2>1, PlanShape DEF Begin, CourseInv, TypeInv, TypeOK, LabelInv
    <3>2. Plan(request)[iteration + 1] # "raised"
      BY <3>1, PlanShape DEF Actions, ToolActions, FileActions
    <3> QED
      BY <2>1, <3>2 DEF Begin, Stop
  <2>2. Proceed => pc' # "raised"
    BY DEF Proceed
  <2>3. \A why : Stop(why) => pc' # "raised"
    BY DEF Stop
  <2>4. Start \/ TimeOut \/ ExhaustActions \/ Detect \/ DiscoverTests \/ InspectDiff
          => pc' # "raised"
    BY <2>2, <2>3 DEF Start, TimeOut, ExhaustActions, Detect, DiscoverTests, InspectDiff
  <2>5. RunRules \/ SemanticReview \/ TimePasses \/ UNCHANGED vars => pc' # "raised"
    BY <2>2, <2>3 DEF RunRules, RulesDone, RuleOneFile, SemanticReview, AskReviewer, TimePasses,
       vars
  <2>6. VerifyAndGate => pc' # "raised"
    BY <2>3 DEF VerifyAndGate
  <2> QED
    BY <2>1, <2>4, <2>5, <2>6 DEF Next, Step
<1> QED
  BY <1>2, <1>3, <1>4, <1>5, <1>6, <1>7, HowItReturns

\* What is told at the end was told before, or is the refused action.
LEMMA NextEndedTells ==
  CourseInv /\ RulesNamed /\ EndedTells /\ [Next]_vars => EndedTells'
<1> SUFFICES ASSUME CourseInv, RulesNamed, EndedTells, [Next]_vars, ~ Running'
             PROVE  TraceTellsTheReview'
  BY DEF EndedTells
<1> USE DEF counters, scope, records, facts, verdict
<1>1. TraceTellsTheReview
  BY RunningTells DEF EndedTells
<1>2. CASE ~ Running
  <2>1. UNCHANGED <<trace, observations, evidence, reason>>
    BY <1>2 DEF Running, Next, Step, Start, TimeOut, ExhaustActions, Begin, Detect, InspectDiff,
       DiscoverTests, RunRules, SemanticReview, VerifyAndGate, Fails, TimePasses, vars
  <2> QED
    BY <1>1, <2>1 DEF TraceTellsTheReview
<1>3. CASE Running
  <2>1. /\ UNCHANGED observations /\ RuleEvidenceNumbers' = RuleEvidenceNumbers
        /\ UNCHANGED trace \/ (Begin /\ reason' = "BUDGET_EXHAUSTED")
    BY <1>3, EndingObservesNothing
  <2>2. /\ Len(trace) = iteration /\ Len(observations) = iteration /\ iteration \in Nat
        /\ trace \in Seq(Actions) /\ DOMAIN observations = 1 .. iteration
    BY <1>3 DEF CourseInv, TypeInv, TypeOK, OnPlan
  <2>3. \A i \in 1 .. Len(observations') - 1 : observations'[i].action = "run-rules" =>
          \A n \in DOMAIN evidence' :
            evidence'[n].kind = "static_rule_match" => n \in observations'[i].evidence
    BY <1>1, <2>1 DEF TraceTellsTheReview, RuleEvidenceNumbers
  <2>4. CASE UNCHANGED trace
    BY <1>1, <2>1, <2>2, <2>3, <2>4 DEF TraceTellsTheReview
  <2>5. CASE Begin /\ reason' = "BUDGET_EXHAUSTED"
    <3>1. trace' = Append(trace, Plan(request)[iteration + 1])
      BY <2>5 DEF Begin
    <3>2. Len(trace') = Len(trace) + 1 /\ \A i \in 1 .. iteration : trace'[i] = trace[i]
      BY <2>2, <3>1
    <3> QED
      BY <1>1, <2>1, <2>2, <2>3, <2>5, <3>2 DEF TraceTellsTheReview
  <2> QED
    BY <2>1, <2>4, <2>5
<1> QED
  BY <1>2, <1>3

\* The trace of a review is that of its observations but for a refused action,
\* and the rules' observation names all the Evidence of rules.
THEOREM TraceIsTold == Spec => []TraceTellsTheReview
<1>1. Init => RulesNamed /\ EndedTells
  BY DEF Init, RulesNamed, EndedTells, Running
<1>2. CourseInv /\ RulesNamed /\ EndedTells => TraceTellsTheReview
  BY RunningTells DEF EndedTells
<1> QED
  BY <1>1, <1>2, InitCourse, NextCourse, NextNamed, NextEndedTells, PTL DEF Spec, SafetySpec

=============================================================================
