------------------------- MODULE EffectivenessProofs -------------------------
(***************************************************************************)
(* Machine-checked theorems about one call of assess, for every universe   *)
(* of mutants and tests, every set of requests and reports and any number  *)
(* of concurrent edits.                                                    *)
(***************************************************************************)
EXTENDS EffectivenessProperties, FiniteSetTheorems, TLAPS

-----------------------------------------------------------------------------
(***************************************************************************)
(* Lemmas about the operators the model is built from.                     *)
(***************************************************************************)

\* The names that the actions record are the eight phases.
LEMMA PhaseNames ==
  {"UNDERSTAND", "SELECT", "MUTATE", "OBSERVE", "MAP", "EVALUATE", "VERIFY", "GATE"}
    = {Phases[i] : i \in 1 .. 8}
BY DEF Phases

\* An entry of the loop trace has its type.
LEMMA TraceTyped ==
  ASSUME NEW f \in {Phases[i] : i \in 1 .. 8}, NEW s \in {"completed", "terminated"},
         NEW p \in PermissionActions \union {"none"}
  PROVE  Trace(f, s, p) \in TraceType
BY DEF Trace, TraceType

\* Every outcome that parse accepts is one the score counts, and an accepted
\* report gives a typed result that is not NoResult.
LEMMA ParseTyped ==
  ASSUME NEW r \in ReportType
  PROVE  ParseReport(r) \in ResultType /\ ParseReport(r).process # "none"
BY DEF ReportType, ResultType, ParseReport, Result, ReportProcess, ProcessStatuses,
       ObservationStatuses

\* What mutmut's observations are normalized to is a typed result as well.
LEMMA MutmutTyped ==
  ASSUME NEW r \in MutmutResults
  PROVE  r \in ResultType /\ r.process # "none"
<1>0. PICK S \in SUBSET Mutants :
        \E clean \in BOOLEAN, o \in [S -> [status : MutmutStatuses, tests : SUBSET Tests]] :
          r = MutmutResult(clean, o)
  BY DEF MutmutResults
<1>1. PICK clean \in BOOLEAN, o \in [S -> [status : MutmutStatuses, tests : SUBSET Tests]] :
        r = MutmutResult(clean, o)
  BY <1>0
<1>2. \A m \in S : MutmutEntry(o[m]) \in [outcome : Outcomes \union {"absent"}, tests : SUBSET Tests]
  <2>1. SUFFICES ASSUME NEW m \in S
        PROVE MutmutEntry(o[m]) \in [outcome : Outcomes \union {"absent"}, tests : SUBSET Tests]
    OBVIOUS
  <2>2. o[m].tests \in SUBSET Tests
    OBVIOUS
  <2>3. MutmutOutcome(o[m]) \in Outcomes
    BY DEF MutmutOutcome, Outcomes, Eligible
  <2>4. QED
    BY <2>2, <2>3 DEF MutmutEntry
<1>3. DEFINE entries == [m \in Mutants |-> IF m \in DOMAIN o THEN MutmutEntry(o[m]) ELSE Absent]
<1>4. entries \in [Mutants -> [outcome : Outcomes \union {"absent"}, tests : SUBSET Tests]]
  BY <1>2 DEF Absent
<1>5. MutmutProcess(clean, OutcomesOf(entries)) \in ProcessStatuses
  BY DEF MutmutProcess, ProcessStatuses
<1> HIDE DEF entries
<1>6. MutmutResult(clean, o) =
        Result(MutmutProcess(clean, OutcomesOf(entries)),
               IF MutmutProcess(clean, OutcomesOf(entries)) = "completed" THEN "complete" ELSE "partial",
               entries, {}, TRUE)
  BY DEF MutmutResult, entries
<1>7. QED
  BY <1>1, <1>4, <1>5, <1>6 DEF Result, ResultType, ObservationStatuses, ProcessStatuses

\* A backend's result is typed, whichever backend gave it.
LEMMA BackendTyped ==
  ASSUME NEW r \in BackendResults
  PROVE  r \in ResultType /\ r.process # "none"
BY MutmutTyped, InjectedTyped DEF BackendResults

\* A survivor's link has a mapping status, an eligible mutant's has none.
LEMMA LinkTyped == SurvivorLinks \in [Mutants -> MappingStatuses \union {"none"}]
<1>1. \A m \in Mutants : SurvivorLink(m) \in {"verified", "unverified", "unmapped", "none"}
  BY DEF SurvivorLink
<1>2. QED
  BY <1>1 DEF SurvivorLinks, MappingStatuses

\* The deterministic signals have their type.
LEMMA SignalTyped ==
  ASSUME NEW linkOf PROVE SignalsOf(linkOf) \subseteq SignalType
<1>1. \A v \in BOOLEAN : Signal("oracle_missing", "high", v) \in SignalType
                       /\ Signal("mutation_survivor", "medium", v) \in SignalType
  BY DEF Signal, SignalType, Severities
<1>2. \A m : (linkOf[m] = "verified") \in BOOLEAN
  OBVIOUS
<1>3. QED
  BY <1>1, <1>2 DEF SignalsOf

\* The gate gives one of its four decisions, and any other than "incomplete"
\* only for complete inputs.
LEMMA DecisionTyped ==
  ASSUME NEW g
  PROVE  Decision(g) \in Decisions /\ (Decision(g) # "incomplete" => InputComplete(g))
BY Zenon DEF Decision, Decisions, QualityFailure, CleanPass

\* Recording a phase and terminating the last one keep the type of the trace.
LEMMA RecordTyped ==
  ASSUME traces \in Seq(TraceType), NEW f \in {Phases[i] : i \in 1 .. 8},
         NEW p \in PermissionActions \union {"none"}, Record(f, p)
  PROVE  traces' \in Seq(TraceType)
BY TraceTyped DEF Record

\* Turning the last trace into a terminated one keeps the list.
LEMMA TerminateTyped ==
  ASSUME traces \in Seq(TraceType), TerminateLast
  PROVE  traces' \in Seq(TraceType) /\ Len(traces') = Len(traces)
<1>1. DEFINE last == Len(traces)
<1>2. \A i \in 1 .. Len(traces) :
        [traces[i] EXCEPT !.status = "terminated"] \in TraceType
  <2>1. \A t \in TraceType : [t EXCEPT !.status = "terminated"] \in TraceType
    BY DEF TraceType
  <2>2. QED
    BY <2>1
<1>3. traces \in [1 .. Len(traces) -> TraceType] /\ Len(traces) \in Nat
  OBVIOUS
<1>4. traces' \in [1 .. Len(traces) -> TraceType]
  BY <1>2, <1>3 DEF TerminateLast
<1>5. QED
  BY <1>3, <1>4

-----------------------------------------------------------------------------
(***************************************************************************)
(* Type correctness.                                                       *)
(***************************************************************************)

\* The variables of a call keep their types: the enumerations of
\* effectiveness.py, a trace of known phases, counters that are numbers.
THEOREM TypeCorrect == SafetySpec => []TypeOK
<1>1. Init => TypeOK
  <2>1. NoResult \in ResultType
    BY DEF NoResult, Result, ResultType, Absent
  <2>2. NoAssessment \in AssessmentType
    BY DEF NoAssessment, AssessmentType
  <2>3. Init => links \in [Mutants -> MappingStatuses \union {"none"}]
    BY DEF Init
  <2>4. Init => edits \in 0 .. MaxEdits
    BY EditsBounded DEF Init
  <2>5. Init => traces \in Seq(TraceType)
    BY DEF Init
  <2>6. Init => toolCalls \in Nat /\ modelCalls \in Nat /\ mapperCalls \in Nat
    BY DEF Init
  <2>7. Init => expired \in BOOLEAN /\ providerSaved \in BOOLEAN /\ runBuilt \in BOOLEAN
                /\ rows \in BOOLEAN
    BY DEF Init
  <2>8. Init => request \in Requests /\ head \in Revisions /\ reportFile \in Reports
                /\ pc \in Labels /\ agentEvidence \subseteq PermissionActions
                /\ signals \subseteq SignalType
    BY DEF Init, Labels
  <2>9. Init => idReport = "none" /\ revision = "none" /\ runReport = "none"
                /\ reason = "none" /\ provider \in ResultType /\ assessment \in AssessmentType
    BY <2>1, <2>2 DEF Init
  <2>10. QED
    BY <2>3, <2>4, <2>5, <2>6, <2>7, <2>8, <2>9 DEF TypeOK
<1>2. TypeOK /\ [Next]_vars => TypeOK'
  <2> SUFFICES ASSUME TypeOK, [Next]_vars PROVE TypeOK'
    OBVIOUS
  <2> USE DEF TypeOK, Goto, Stop, env, loop, data, found
  <2>1. CASE RaiseFromName
    BY <2>1 DEF RaiseFromName, Labels
  <2>2. CASE RejectBudget
    BY <2>2 DEF RejectBudget, NameAssessment, ReturnIncomplete, Assessment, AssessmentType,
                Labels, Reasons, FinishReasons, Decisions
  <2>3. CASE Understand
    <3>0. Trace("UNDERSTAND", "terminated", "none") \in TraceType
      BY PhaseNames, TraceTyped
    <3>1. CASE ~ CanRecord
      <4>1. pc' = "returned" /\ assessment' = Assessment("BUDGET_EXHAUSTED", "incomplete", FALSE)
            /\ UNCHANGED <<reason, rows, traces>>
        BY <2>3, <3>1 DEF Understand, ReturnIncomplete
      <4>2. assessment' \in AssessmentType
        BY <4>1 DEF Assessment, AssessmentType, Reasons, FinishReasons, Decisions
      <4>3. QED
        BY <2>3, <4>1, <4>2 DEF Understand, NameAssessment, Labels
    <3>2. CASE CanRecord /\ ~ InputsUsable
      <4>0. \A t \in TraceType : <<t>> \in Seq(TraceType)
        OBVIOUS
      <4>1. traces' \in Seq(TraceType)
        BY <2>3, <3>0, <3>2, <4>0 DEF Understand
      <4>2. QED
        BY <2>3, <3>2, <4>1 DEF Understand, NameAssessment, Labels, Reasons, FinishReasons
    <3>3. CASE CanRecord /\ InputsUsable
      <4>1. traces' \in Seq(TraceType)
        BY <2>3, <3>3, PhaseNames, RecordTyped DEF Understand
      <4>2. QED
        BY <2>3, <3>3, <4>1 DEF Understand, NameAssessment, Labels
    <3>4. QED
      BY <3>1, <3>2, <3>3
  <2>4. CASE Select
    <3>1. traces' \in Seq(TraceType)
      BY <2>4, PhaseNames, RecordTyped DEF Select, Permitted, PermissionActions
    <3>2. toolCalls' \in Nat /\ agentEvidence' \subseteq PermissionActions
      BY <2>4 DEF Select, Permitted, PermissionActions
    <3>3. QED
      BY <2>4, <3>1, <3>2 DEF Select, Labels, Reasons, FinishReasons
  <2>5. CASE Mutate
    <3>1. traces' \in Seq(TraceType)
      BY <2>5, PhaseNames, RecordTyped DEF Mutate, Permitted, PermissionActions
    <3>2. toolCalls' \in Nat /\ agentEvidence' \subseteq PermissionActions
      BY <2>5 DEF Mutate, Permitted, PermissionActions
    <3>3. QED
      BY <2>5, <3>1, <3>2 DEF Mutate, Labels, Reasons, FinishReasons
  <2>6. CASE Resolve
    <3>1. traces' \in Seq(TraceType)
      BY <2>6, TerminateTyped DEF Resolve, Fail
    <3>2. QED
      BY <2>6, <3>1 DEF Resolve, Fail, Labels, Reasons, FinishReasons
  <2>7. CASE AcquireReport
    <3>1. traces' \in Seq(TraceType)
      BY <2>7, TerminateTyped DEF AcquireReport, Fail, Provide
    <3>2. provider' \in ResultType
      BY <2>7, ParseTyped, ReportsTyped DEF AcquireReport, Provide, NoProvider
    <3>3. toolCalls' \in Nat
      BY <2>7 DEF AcquireReport
    <3>4. runReport' \in Reports \union {"none"} /\ providerSaved' \in BOOLEAN
      BY <2>7 DEF AcquireReport, Provide, NoProvider
    <3>5. /\ pc' \in Labels /\ reason' \in Reasons \union {"none"}
          /\ rows' \in BOOLEAN /\ assessment' = assessment
      BY <2>7 DEF AcquireReport, Provide, Fail, Labels, Reasons, FinishReasons
    <3>6. QED
      BY <2>7, <3>1, <3>2, <3>3, <3>4, <3>5 DEF AcquireReport
  <2>8. CASE AcquireBackend
    <3>1. traces' \in Seq(TraceType)
      BY <2>8, TerminateTyped DEF AcquireBackend, Fail, Provide
    <3>2. provider' \in ResultType
      BY <2>8, BackendTyped DEF AcquireBackend, Provide, NoProvider
    <3>3. toolCalls' \in Nat
      BY <2>8 DEF AcquireBackend
    <3>4. runReport' \in Reports \union {"none"} /\ providerSaved' \in BOOLEAN
      BY <2>8 DEF AcquireBackend, Provide, NoProvider
    <3>5. /\ pc' \in Labels /\ reason' \in Reasons \union {"none"}
          /\ rows' \in BOOLEAN /\ assessment' = assessment
      BY <2>8 DEF AcquireBackend, Provide, Fail, Labels, Reasons, FinishReasons
    <3>6. QED
      BY <2>8, <3>1, <3>2, <3>3, <3>4, <3>5 DEF AcquireBackend
  <2>9. CASE Observe
    <3>1. traces' \in Seq(TraceType)
      BY <2>9, PhaseNames, RecordTyped DEF Observe
    <3>2. QED
      BY <2>9, <3>1 DEF Observe, Labels, Reasons, FinishReasons
  <2>10. CASE RaiseFromObserve
    <3>1. traces' \in Seq(TraceType)
      BY <2>10, PhaseNames, RecordTyped DEF RaiseFromObserve
    <3>2. QED
      BY <2>10, <3>1 DEF RaiseFromObserve, Labels
  <2>11. CASE Map
    <3>1. traces' \in Seq(TraceType)
      BY <2>11, PhaseNames, RecordTyped DEF Map
    <3>2. QED
      BY <2>11, <3>1, LinkTyped DEF Map, Labels, Reasons, FinishReasons
  <2>12. CASE SkipModel
    BY <2>12 DEF SkipModel, Labels
  <2>13. CASE ModelContextTooLarge
    BY <2>13 DEF ModelContextTooLarge, Labels
  <2>14. CASE AskModel
    BY <2>14 DEF AskModel, Merged, MappingStatuses, PermissionActions, Labels
  <2>15. CASE Evaluate
    <3>1. traces' \in Seq(TraceType)
      BY <2>15, PhaseNames, RecordTyped DEF Evaluate
    <3>2. QED
      BY <2>15, <3>1, SignalTyped DEF Evaluate, Labels, Reasons, FinishReasons
  <2>16. CASE Verify
    <3>1. traces' \in Seq(TraceType)
      BY <2>16, PhaseNames, RecordTyped DEF Verify
    <3>2. QED
      BY <2>16, <3>1 DEF Verify, Labels, Reasons, FinishReasons
  <2>17. CASE Gate
    <3>1. traces' \in Seq(TraceType)
      BY <2>17, PhaseNames, RecordTyped DEF Gate
    <3>2. QED
      BY <2>17, <3>1 DEF Gate, Labels, Reasons, FinishReasons
  <2>18. CASE Finish
    BY <2>18, DecisionTyped DEF Finish, Assessment, AssessmentType, Labels
  <2>19. CASE RaiseFromFinish
    BY <2>19 DEF RaiseFromFinish, Labels
  <2>20. CASE World
    <3>1. CASE DeadlinePasses
      BY <3>1 DEF DeadlinePasses, Internal
    <3>2. CASE EditRepository
      BY <3>2, EditsBounded DEF EditRepository, Internal
    <3>3. CASE ReplaceReport
      BY <3>3, EditsBounded DEF ReplaceReport, Internal
    <3>4. QED
      BY <2>20, <3>1, <3>2, <3>3 DEF World
  <2>21. CASE UNCHANGED vars
    BY <2>21 DEF vars
  <2>22. QED
    BY <2>1, <2>2, <2>3, <2>4, <2>5, <2>6, <2>7, <2>8, <2>9, <2>10, <2>11, <2>12, <2>13,
       <2>14, <2>15, <2>16, <2>17, <2>18, <2>19, <2>20, <2>21 DEF Next, Step
<1>3. QED
  BY <1>1, <1>2, PTL DEF SafetySpec

-----------------------------------------------------------------------------
(***************************************************************************)
(* The loop.                                                               *)
(***************************************************************************)

\* The entries of the whole loop, and how many of them a label asks for.
LEMMA LoopEntries ==
  /\ Trace("UNDERSTAND", "completed", "none")           = WholeLoop[1]
  /\ Trace("SELECT", "completed", "READ")               = WholeLoop[2]
  /\ Trace("MUTATE", "completed", "EXECUTE_MUTATION")   = WholeLoop[3]
  /\ Trace("OBSERVE", "completed", "none")              = WholeLoop[4]
  /\ Trace("MAP", "completed", "none")                  = WholeLoop[5]
  /\ Trace("EVALUATE", "completed", "none")             = WholeLoop[6]
  /\ Trace("VERIFY", "completed", "none")               = WholeLoop[7]
  /\ Trace("GATE", "completed", "none")                 = WholeLoop[8]
<1>1. /\ PermissionOf("UNDERSTAND") = "none" /\ PermissionOf("SELECT") = "READ"
      /\ PermissionOf("MUTATE") = "EXECUTE_MUTATION" /\ PermissionOf("OBSERVE") = "none"
      /\ PermissionOf("MAP") = "none" /\ PermissionOf("EVALUATE") = "none"
      /\ PermissionOf("VERIFY") = "none" /\ PermissionOf("GATE") = "none"
  BY DEF PermissionOf
<1>2. \A i \in 1 .. 8 : WholeLoop[i] = Trace(Phases[i], "completed", PermissionOf(Phases[i]))
  BY DEF WholeLoop
<1>3. /\ Phases[1] = "UNDERSTAND" /\ Phases[2] = "SELECT" /\ Phases[3] = "MUTATE"
      /\ Phases[4] = "OBSERVE" /\ Phases[5] = "MAP" /\ Phases[6] = "EVALUATE"
      /\ Phases[7] = "VERIFY" /\ Phases[8] = "GATE"
  BY DEF Phases
<1>4. QED
  BY <1>1, <1>2, <1>3

\* How many phases are recorded at each label.
LEMMA RecordedValues ==
  /\ Running <=> pc \in {"start", "select", "mutate", "resolve", "acquire", "observe",
                         "map", "model", "evaluate", "verify", "gate"}
  /\ Recorded["start"] = 0 /\ Recorded["select"] = 1 /\ Recorded["mutate"] = 2
  /\ Recorded["resolve"] = 3 /\ Recorded["acquire"] = 3 /\ Recorded["observe"] = 3
  /\ Recorded["map"] = 4 /\ Recorded["model"] = 5 /\ Recorded["evaluate"] = 5
  /\ Recorded["verify"] = 6 /\ Recorded["gate"] = 7
BY DEF Recorded, Running

\* A budget is a number.
LEMMA BudgetTyped ==
  ASSUME TypeOK
  PROVE  request.budget.iterations \in Nat /\ request.budget.tools \in Nat
         /\ request.budget.models \in Nat
BY RequestsTyped DEF TypeOK, RequestType

\* Recording the next phase keeps the loop on course, within the budget.
LEMMA NextPhase ==
  ASSUME TypeOK, NEW n \in 0 .. 7, OnCourse(n), CanRecord, NEW f, NEW p,
         Record(f, p), Trace(f, "completed", p) = WholeLoop[n + 1]
  PROVE  OnCourse(n + 1)' /\ n + 1 <= request.budget.iterations
<1>1. traces \in Seq(TraceType) /\ Len(traces) = n
  BY DEF TypeOK, OnCourse
<1>2. Len(traces') = n + 1 /\ traces'[n + 1] = WholeLoop[n + 1]
  BY <1>1 DEF Record
<1>3. \A i \in 1 .. n : traces'[i] = WholeLoop[i]
  BY <1>1 DEF Record, OnCourse
<1>4. \A i \in 1 .. n + 1 : traces'[i] = WholeLoop[i]
  BY <1>2, <1>3
<1>5. n + 1 <= request.budget.iterations
  BY <1>1, BudgetTyped DEF CanRecord
<1>6. WholeLoop' = WholeLoop
  BY DEF WholeLoop
<1>7. QED
  BY <1>2, <1>4, <1>5, <1>6 DEF OnCourse

\* A step that stays in the loop.
LEMMA StayOnCourse ==
  ASSUME TypeOK, LoopInv, Running, Running', OnCourse(Recorded[pc])',
         Recorded[pc'] <= request.budget.iterations,
         UNCHANGED <<request, reason, assessment>>,
         PermissionsPrecede', ProviderInOrder'
  PROVE  LoopInv'
<1>1. Recorded[pc'] \in 0 .. 8
  BY RecordedValues DEF Running, Recorded
<1>2. PhasesArePrefix'
  BY <1>1 DEF OnCourse, PhasesArePrefix
<1>3. RunningIsOnCourse'
  BY DEF LoopInv, RunningIsOnCourse, Running, Recorded
<1>4. DecidedLast'
  BY DEF LoopInv, RunningIsOnCourse, DecidedLast, Verdict, NoAssessment, Running, Recorded
<1>5. QED
  BY <1>2, <1>3, <1>4 DEF LoopInv

\* A step that leaves the loop before its end.
LEMMA LeaveEarly ==
  ASSUME TypeOK, LoopInv, Running, pc' \in {"finish", "returned", "raised"},
         UNCHANGED request, reason' # "EVIDENCE_SUFFICIENT",
         assessment' # assessment => pc' # "finish" /\ assessment'.decision = "incomplete",
         PhasesArePrefix', PermissionsPrecede'
  PROVE  LoopInv'
<1>1. ~ Running'
  BY DEF Running, Recorded
<1>2. RunningIsOnCourse' /\ ProviderInOrder'
  BY <1>1 DEF RunningIsOnCourse, ProviderInOrder, Running, Recorded
<1>3. assessment = NoAssessment
  BY DEF LoopInv, DecidedLast
<1>4. DecidedLast'
  BY <1>1, <1>3 DEF DecidedLast, Verdict, NoAssessment
<1>5. QED
  BY <1>2, <1>4 DEF LoopInv

\* The three ways in which a step leaves the recorded phases.
LEMMA PrefixKept ==
  ASSUME LoopInv, Running, UNCHANGED <<request, traces>>
  PROVE  PhasesArePrefix'
BY DEF LoopInv, PhasesArePrefix, RunningIsOnCourse, OnCourse

\* A list on its course is a prefix of the phases.
LEMMA PrefixOnCourse ==
  ASSUME NEW n \in 0 .. 8, OnCourse(n)', n <= request.budget.iterations, UNCHANGED request
  PROVE  PhasesArePrefix'
BY DEF OnCourse, PhasesArePrefix

\* So is one whose last phase was terminated.
LEMMA PrefixTerminated ==
  ASSUME TypeOK, LoopInv, Running, ~ Running', UNCHANGED request, TerminateLast
  PROVE  PhasesArePrefix'
<1>1. DEFINE n == Len(traces)
<1>a. traces \in Seq(TraceType)
  BY DEF TypeOK
<1>b. n \in Nat /\ n <= 8 /\ n <= request.budget.iterations
  BY <1>a DEF LoopInv, PhasesArePrefix
<1>c. \A i \in 1 .. n : traces[i] = WholeLoop[i]
  BY DEF LoopInv, RunningIsOnCourse, OnCourse
<1>2. n \in Nat /\ n <= 8 /\ n <= request.budget.iterations
      /\ \A i \in 1 .. n : traces[i] = WholeLoop[i]
  BY <1>b, <1>c
<1>3. Len(traces') = n
  BY TerminateTyped DEF TypeOK
<1>4. traces \in [1 .. n -> TraceType]
  BY DEF TypeOK
<1>5. \A i \in 1 .. n : traces'[i] = IF i = n THEN [traces[i] EXCEPT !.status = "terminated"]
                                     ELSE traces[i]
  BY <1>2, <1>4 DEF TerminateLast
<1> HIDE DEF n
<1>6. QED
  BY <1>2, <1>3, <1>5 DEF PhasesArePrefix

\* The prefix of the whole loop that a label stands for.
LEMMA AtLabel ==
  ASSUME LoopInv
  PROVE  /\ pc = "start" => OnCourse(0)
         /\ pc = "select" => OnCourse(1)
         /\ pc = "mutate" => OnCourse(2)
         /\ pc \in {"resolve", "acquire", "observe"} => OnCourse(3)
         /\ pc = "map" => OnCourse(4)
         /\ pc \in {"model", "evaluate"} => OnCourse(5)
         /\ pc = "verify" => OnCourse(6)
         /\ pc = "gate" => OnCourse(7)
         /\ Running => reason = "none" /\ assessment = NoAssessment
BY RecordedValues DEF LoopInv, RunningIsOnCourse, DecidedLast

\* The permissions on record are of the phases on record.
LEMMA PermissionsKept ==
  ASSUME LoopInv, agentEvidence \subseteq agentEvidence', Len(traces') = Len(traces)
  PROVE  PermissionsPrecede'
BY DEF LoopInv, PermissionsPrecede

\* An exception inside the try block leaves the loop.
LEMMA FailLeaves ==
  ASSUME TypeOK, LoopInv, Running, UNCHANGED <<request, agentEvidence>>,
         NEW why \in {"INSUFFICIENT_EVIDENCE", "ERROR"}, Fail(why)
  PROVE  LoopInv'
<1>1. /\ TerminateLast /\ pc' = "finish" /\ reason' # "EVIDENCE_SUFFICIENT"
      /\ assessment' = assessment
  BY DEF Fail, Stop
<1>2. ~ Running'
  BY <1>1 DEF Running, Recorded
<1>3. Len(traces') = Len(traces)
  BY <1>1, TerminateTyped DEF TypeOK
<1>4. PhasesArePrefix' /\ PermissionsPrecede'
  BY <1>1, <1>2, <1>3, PrefixTerminated, PermissionsKept
<1>5. QED
  BY <1>1, <1>4, LeaveEarly

\* A result of the provider is taken on course.
LEMMA ProvideStays ==
  ASSUME TypeOK, LoopInv, pc = "acquire", UNCHANGED <<request, agentEvidence>>,
         NEW r, NEW from, Provide(r, from), r.process # "none"
  PROVE  LoopInv'
<1>1. Running /\ Running' /\ OnCourse(3) /\ 3 <= request.budget.iterations
  BY AtLabel, RecordedValues
     DEF Provide, Goto, LoopInv, PhasesArePrefix, OnCourse, Running, Recorded
<1>2. pc' = "observe" /\ UNCHANGED <<traces, reason, assessment>> /\ provider' = r
  BY DEF Provide, Goto
<1>3. OnCourse(3)'
  BY <1>1, <1>2 DEF OnCourse, WholeLoop
<1>4. ProviderInOrder'
  BY <1>2 DEF ProviderInOrder
<1>5. QED
  BY <1>1, <1>2, <1>3, <1>4, PermissionsKept, StayOnCourse, RecordedValues

\* A sequence with the entries of the whole loop is the whole loop.
LEMMA WholeSeq ==
  ASSUME traces' \in Seq(TraceType), OnCourse(8)'
  PROVE  traces' = WholeLoop'
<1>1. Len(traces') = 8 /\ \A i \in 1 .. 8 : traces'[i] = WholeLoop'[i]
  BY DEF OnCourse
<1>2. traces' = [i \in 1 .. 8 |-> traces'[i]]
  BY <1>1
<1>3. WholeLoop' = [i \in 1 .. 8 |-> WholeLoop'[i]]
  BY DEF WholeLoop
<1>4. QED
  BY <1>1, <1>2, <1>3

\* Recorded phases, permissions, the provider's turn and the reason keep their
\* order: the loop's invariant is inductive.
THEOREM LoopInvariant == SafetySpec => []LoopInv
<1>1. Init => LoopInv
  <2> SUFFICES ASSUME Init PROVE LoopInv
    OBVIOUS
  <2>1. traces = <<>> /\ Len(traces) = 0 /\ pc = "start" /\ assessment = NoAssessment
    BY DEF Init
  <2>2. request.budget.iterations \in Nat
    BY RequestsTyped DEF Init, RequestType
  <2>3. PhasesArePrefix /\ PermissionsPrecede
    BY <2>1, <2>2 DEF PhasesArePrefix, PermissionsPrecede
  <2>4. RunningIsOnCourse
    BY <2>1, RecordedValues DEF Init, RunningIsOnCourse, OnCourse
  <2>5. ProviderInOrder
    BY DEF Init, ProviderInOrder
  <2>6. DecidedLast
    BY <2>1 DEF Init, DecidedLast, Verdict, NoAssessment
  <2>7. QED
    BY <2>3, <2>4, <2>5, <2>6 DEF LoopInv
<1>2. TypeOK /\ TypeOK' /\ LoopInv /\ [Next]_vars => LoopInv'
  <2> SUFFICES ASSUME TypeOK, TypeOK', LoopInv, [Next]_vars PROVE LoopInv'
    OBVIOUS
  <2> USE DEF Goto, Stop, env, loop, data, found
  <2>0. /\ Running <=> pc \in DOMAIN Recorded
        /\ Running' <=> pc' \in {"start", "select", "mutate", "resolve", "acquire", "observe",
                                 "map", "model", "evaluate", "verify", "gate"}
    BY DEF Running, Recorded
  <2>1. CASE RaiseFromName
    <3>1. Running /\ Running' = FALSE /\ UNCHANGED <<request, traces, agentEvidence, reason, assessment>>
      BY <2>1, <2>0, RecordedValues DEF RaiseFromName
    <3>2. PhasesArePrefix' /\ PermissionsPrecede' /\ reason' # "EVIDENCE_SUFFICIENT"
      BY <3>1, PrefixKept, PermissionsKept, AtLabel
    <3>3. QED
      BY <2>1, <3>1, <3>2, LeaveEarly DEF RaiseFromName
  <2>2. CASE RejectBudget
    <3>1. Running /\ UNCHANGED <<request, traces, agentEvidence, reason>>
          /\ pc' = "returned" /\ assessment'.decision = "incomplete"
      BY <2>2, RecordedValues DEF RejectBudget, ReturnIncomplete, Assessment
    <3>2. PhasesArePrefix' /\ PermissionsPrecede' /\ reason' # "EVIDENCE_SUFFICIENT"
      BY <3>1, PrefixKept, PermissionsKept, AtLabel
    <3>3. QED
      BY <3>1, <3>2, LeaveEarly
  <2>3. CASE Understand
    <3>1. Running /\ OnCourse(0) /\ UNCHANGED <<request, agentEvidence, toolCalls, provider>>
          /\ reason = "none" /\ pc = "start"
      BY <2>3, RecordedValues, AtLabel DEF Understand
    <3>2. CASE ~ CanRecord
      <4>1. UNCHANGED <<traces, reason>> /\ pc' = "returned" /\ assessment'.decision = "incomplete"
        BY <2>3, <3>2 DEF Understand, ReturnIncomplete, Assessment
      <4>2. PhasesArePrefix' /\ PermissionsPrecede'
        BY <3>1, <4>1, PrefixKept, PermissionsKept
      <4>3. QED
        BY <3>1, <4>1, <4>2, LeaveEarly
    <3>3. CASE CanRecord /\ ~ InputsUsable
      <4>1. /\ traces' = <<Trace("UNDERSTAND", "terminated", "none")>>
            /\ pc' = "finish" /\ reason' = "INSUFFICIENT_EVIDENCE" /\ assessment' = assessment
        BY <2>3, <3>3 DEF Understand
      <4>2. 1 <= request.budget.iterations
        BY <3>1, <3>3, BudgetTyped DEF OnCourse, CanRecord
      <4>3. WholeLoop'[1] = Trace("UNDERSTAND", "completed", "none")
        BY LoopEntries DEF WholeLoop
      <4>4. traces'[1] = [WholeLoop'[1] EXCEPT !.status = "terminated"] /\ Len(traces') = 1
        BY <4>1, <4>3 DEF Trace
      <4>5. PhasesArePrefix'
        BY <2>0, <3>1, <4>1, <4>2, <4>4 DEF PhasesArePrefix
      <4>6. PermissionsPrecede'
        BY <4>4 DEF PermissionsPrecede
      <4>7. QED
        BY <3>1, <4>1, <4>5, <4>6, LeaveEarly
    <3>4. CASE CanRecord /\ InputsUsable
      <4>1. Record("UNDERSTAND", "none") /\ pc' = "select" /\ UNCHANGED <<reason, assessment>>
        BY <2>3, <3>4 DEF Understand
      <4>2. OnCourse(1)' /\ 1 <= request.budget.iterations
        BY <3>1, <3>4, <4>1, NextPhase, LoopEntries
      <4>3. PermissionsPrecede'
        BY <4>2 DEF PermissionsPrecede, OnCourse
      <4>4. ProviderInOrder'
        BY <3>1, <4>1 DEF LoopInv, ProviderInOrder
      <4>5. QED
        BY <2>0, <3>1, <4>1, <4>2, <4>3, <4>4, StayOnCourse, RecordedValues
    <3>5. QED
      BY <3>2, <3>3, <3>4
  <2>4. CASE Select
    <3>1. /\ Running /\ OnCourse(1) /\ reason = "none" /\ pc = "select"
          /\ UNCHANGED <<request, provider, assessment>>
          /\ Permitted("READ", "SELECT")
      BY <2>4, RecordedValues, AtLabel DEF Select
    <3>2. agentEvidence \subseteq agentEvidence' /\ "READ" \in agentEvidence'
      BY <3>1 DEF Permitted
    <3>3. CASE ~ (CanUseTool /\ CanRecord)
      <4>1. traces' = traces /\ pc' = "finish" /\ reason' = "BUDGET_EXHAUSTED"
        BY <2>4, <3>3 DEF Select, Permitted
      <4>2. PhasesArePrefix' /\ PermissionsPrecede'
        BY <3>1, <3>2, <4>1, PrefixKept, PermissionsKept
      <4>3. QED
        BY <3>1, <4>1, <4>2, LeaveEarly
    <3>4. CASE CanUseTool /\ CanRecord
      <4>1. OnCourse(2)' /\ 2 <= request.budget.iterations
        <5>1. Record("SELECT", "READ")
          BY <3>1, <3>4 DEF Permitted
        <5>2. QED
          BY <3>1, <3>4, <5>1, NextPhase, LoopEntries
      <4>2. PermissionsPrecede'
        BY <3>1, <3>2, <4>1 DEF LoopInv, PermissionsPrecede, OnCourse
      <4>3. CASE expired
        <5>1. pc' = "finish" /\ reason' = "TIMEOUT"
          BY <2>4, <3>4, <4>3 DEF Select
        <5>2. PhasesArePrefix'
          BY <3>1, <4>1, PrefixOnCourse
        <5>3. QED
          BY <3>1, <4>2, <5>1, <5>2, LeaveEarly
      <4>4. CASE ~ expired
        <5>1. pc' = "mutate" /\ reason' = reason
          BY <2>4, <3>4, <4>4 DEF Select
        <5>2. ProviderInOrder'
          BY <3>1, <3>4, <5>1 DEF LoopInv, ProviderInOrder, Permitted
        <5>3. QED
          BY <2>0, <3>1, <4>1, <4>2, <5>1, <5>2, StayOnCourse, RecordedValues
      <4>5. QED
        BY <4>3, <4>4
    <3>5. QED
      BY <3>3, <3>4
  <2>5. CASE Mutate
    <3>1. /\ Running /\ OnCourse(2) /\ reason = "none" /\ pc = "mutate"
          /\ UNCHANGED <<request, provider, assessment>>
          /\ Permitted("EXECUTE_MUTATION", "MUTATE")
      BY <2>5, RecordedValues, AtLabel DEF Mutate
    <3>2. agentEvidence \subseteq agentEvidence' /\ "EXECUTE_MUTATION" \in agentEvidence'
      BY <3>1 DEF Permitted
    <3>3. CASE ~ (CanUseTool /\ CanRecord)
      <4>1. traces' = traces /\ pc' = "finish" /\ reason' = "BUDGET_EXHAUSTED"
        BY <2>5, <3>3 DEF Mutate, Permitted
      <4>2. PhasesArePrefix' /\ PermissionsPrecede'
        BY <3>1, <3>2, <4>1, PrefixKept, PermissionsKept
      <4>3. QED
        BY <3>1, <4>1, <4>2, LeaveEarly
    <3>4. CASE CanUseTool /\ CanRecord
      <4>1. OnCourse(3)' /\ 3 <= request.budget.iterations
        <5>1. Record("MUTATE", "EXECUTE_MUTATION")
          BY <3>1, <3>4 DEF Permitted
        <5>2. QED
          BY <3>1, <3>4, <5>1, NextPhase, LoopEntries
      <4>2. PermissionsPrecede'
        BY <3>1, <3>2, <4>1 DEF LoopInv, PermissionsPrecede, OnCourse
      <4>3. pc' = "resolve" /\ reason' = reason
        BY <2>5, <3>4 DEF Mutate
      <4>4. ProviderInOrder'
        BY <3>1, <3>4, <4>3 DEF LoopInv, ProviderInOrder, Permitted
      <4>5. QED
        BY <2>0, <3>1, <4>1, <4>2, <4>3, <4>4, StayOnCourse, RecordedValues
    <3>5. QED
      BY <3>3, <3>4
  <2>6. CASE Resolve
    <3>1. /\ Running /\ OnCourse(3) /\ 3 <= request.budget.iterations
          /\ reason = "none" /\ pc = "resolve"
          /\ UNCHANGED <<request, provider, agentEvidence, toolCalls, assessment>>
      BY <2>6, RecordedValues, AtLabel DEF Resolve, Fail, LoopInv, PhasesArePrefix, OnCourse
    <3>2. CASE \E why \in {"INSUFFICIENT_EVIDENCE", "ERROR"} : Fail(why)
      BY <2>0, <3>1, <3>2, FailLeaves DEF Fail
    <3>3. CASE revision' = head /\ UNCHANGED traces /\ pc' = "finish" /\ reason' = "TIMEOUT"
      BY <2>0, <3>1, <3>3, PrefixKept, PermissionsKept, LeaveEarly
    <3>4. CASE revision' = head /\ UNCHANGED traces /\ pc' = "acquire" /\ reason' = reason
      <4>1. revision' # "none"
        BY <3>4, NoneIsNoReport DEF TypeOK
      <4>2. ProviderInOrder'
        BY <3>1, <3>4, <4>1 DEF LoopInv, ProviderInOrder
      <4>3. OnCourse(3)'
        BY <3>1, <3>4 DEF OnCourse, WholeLoop
      <4>4. QED
        BY <2>0, <3>1, <3>4, <4>2, <4>3, PermissionsKept, StayOnCourse, RecordedValues
    <3>5. QED
      BY <2>6, <3>2, <3>3, <3>4 DEF Resolve
  <2>7. CASE AcquireReport
    <3>1. /\ Running /\ OnCourse(3) /\ 3 <= request.budget.iterations
          /\ reason = "none" /\ pc = "acquire" /\ UNCHANGED <<request, agentEvidence>>
      BY <2>7, RecordedValues, AtLabel DEF AcquireReport, LoopInv, PhasesArePrefix, OnCourse
    <3>2. CASE \E why \in {"INSUFFICIENT_EVIDENCE", "ERROR"} : Fail(why)
      BY <3>1, <3>2, FailLeaves
    <3>3. CASE UNCHANGED traces /\ pc' = "finish" /\ reason' = "BUDGET_EXHAUSTED"
               /\ assessment' = assessment
      BY <2>0, <3>1, <3>3, PrefixKept, PermissionsKept, LeaveEarly
    <3>4. CASE \E r : Provide(r, reportFile) /\ r.process # "none"
      BY <2>0, <3>1, <3>4, ProvideStays
    <3>5. ParseReport(ReportContent[reportFile]).process # "none"
      BY ParseTyped, ReportsTyped DEF TypeOK
    <3>6. QED
      BY <2>7, <3>2, <3>3, <3>4, <3>5 DEF AcquireReport
  <2>8. CASE AcquireBackend
    <3>1. /\ Running /\ OnCourse(3) /\ 3 <= request.budget.iterations
          /\ reason = "none" /\ pc = "acquire" /\ UNCHANGED <<request, agentEvidence>>
      BY <2>8, RecordedValues, AtLabel DEF AcquireBackend, LoopInv, PhasesArePrefix, OnCourse
    <3>2. CASE \E why \in {"INSUFFICIENT_EVIDENCE", "ERROR"} : Fail(why)
      BY <3>1, <3>2, FailLeaves
    <3>3. CASE /\ UNCHANGED traces /\ pc' = "finish" /\ assessment' = assessment
               /\ reason' \in {"BUDGET_EXHAUSTED", "INSUFFICIENT_EVIDENCE"}
      BY <2>0, <3>1, <3>3, PrefixKept, PermissionsKept, LeaveEarly
    <3>4. CASE \E r : Provide(r, "none") /\ r.process # "none"
      BY <2>0, <3>1, <3>4, ProvideStays
    <3>5. QED
      BY <2>8, <3>2, <3>3, <3>4, BackendTyped DEF AcquireBackend
  <2>9. CASE Observe
    <3>1. /\ Running /\ OnCourse(3) /\ reason = "none" /\ pc = "observe"
          /\ UNCHANGED <<request, agentEvidence, provider, assessment>>
      BY <2>9, RecordedValues, AtLabel DEF Observe
    <3>2. CASE UNCHANGED traces /\ pc' = "finish" /\ reason' \in {"TIMEOUT", "BUDGET_EXHAUSTED"}
      BY <2>0, <3>1, <3>2, PrefixKept, PermissionsKept, LeaveEarly
    <3>3. CASE ~ expired /\ CanRecord /\ Record("OBSERVE", "none")
      <4>1. OnCourse(4)' /\ 4 <= request.budget.iterations
        BY <3>1, <3>3, NextPhase, LoopEntries
      <4>2. PermissionsPrecede'
        BY <3>1, <4>1 DEF LoopInv, PermissionsPrecede, OnCourse
      <4>3. CASE pc' = "finish" /\ reason' = "INSUFFICIENT_EVIDENCE"
        BY <3>1, <4>1, <4>2, <4>3, PrefixOnCourse, LeaveEarly
      <4>4. CASE pc' = "map" /\ reason' = reason /\ runBuilt' = TRUE
        <5>1. ProviderInOrder'
          BY <3>1, <4>4 DEF LoopInv, ProviderInOrder
        <5>2. QED
          BY <2>0, <3>1, <4>1, <4>2, <4>4, <5>1, StayOnCourse, RecordedValues
      <4>5. QED
        BY <2>9, <3>3, <4>3, <4>4 DEF Observe
    <3>4. QED
      BY <2>9, <3>2, <3>3 DEF Observe
  <2>10. CASE RaiseFromObserve
    <3>1. /\ Running /\ OnCourse(3) /\ reason = "none" /\ pc = "observe" /\ pc' = "raised"
          /\ UNCHANGED <<request, agentEvidence, assessment, reason>>
      BY <2>10, RecordedValues, AtLabel DEF RaiseFromObserve
    <3>2. OnCourse(4)' /\ 4 <= request.budget.iterations
      BY <2>10, <3>1, NextPhase, LoopEntries DEF RaiseFromObserve
    <3>3. PermissionsPrecede'
      BY <3>1, <3>2 DEF LoopInv, PermissionsPrecede, OnCourse
    <3>4. QED
      BY <3>1, <3>2, <3>3, PrefixOnCourse, LeaveEarly
  <2>11. CASE Map
    <3>1. /\ Running /\ OnCourse(4) /\ reason = "none" /\ pc = "map"
          /\ UNCHANGED <<request, agentEvidence, provider, runBuilt, assessment>>
      BY <2>11, RecordedValues, AtLabel DEF Map
    <3>2. CASE UNCHANGED traces /\ pc' = "finish" /\ reason' = "BUDGET_EXHAUSTED"
      BY <2>0, <3>1, <3>2, PrefixKept, PermissionsKept, LeaveEarly
    <3>3. CASE CanRecord /\ Record("MAP", "none")
      <4>1. OnCourse(5)' /\ 5 <= request.budget.iterations
        BY <3>1, <3>3, NextPhase, LoopEntries
      <4>2. PermissionsPrecede'
        BY <3>1, <4>1 DEF LoopInv, PermissionsPrecede, OnCourse
      <4>3. CASE pc' = "finish" /\ reason' = "TIMEOUT"
        BY <3>1, <4>1, <4>2, <4>3, PrefixOnCourse, LeaveEarly
      <4>4. CASE pc' = "model" /\ reason' = reason
        <5>1. ProviderInOrder'
          BY <3>1, <4>4 DEF LoopInv, ProviderInOrder
        <5>2. QED
          BY <2>0, <3>1, <4>1, <4>2, <4>4, <5>1, StayOnCourse, RecordedValues
      <4>5. QED
        BY <2>11, <3>3, <4>3, <4>4 DEF Map
    <3>4. QED
      BY <2>11, <3>2, <3>3 DEF Map
  <2>12. CASE SkipModel \/ ModelContextTooLarge \/ AskModel
    <3>1. /\ Running /\ OnCourse(5) /\ pc = "model" /\ pc' = "evaluate"
          /\ UNCHANGED <<request, traces, provider, runBuilt, reason, assessment>>
          /\ agentEvidence \subseteq agentEvidence'
      BY <2>12, RecordedValues, AtLabel DEF SkipModel, ModelContextTooLarge, AskModel
    <3>2. OnCourse(5)' /\ 5 <= request.budget.iterations
      BY <3>1 DEF OnCourse, WholeLoop, LoopInv, PhasesArePrefix
    <3>3. ProviderInOrder'
      BY <3>1 DEF LoopInv, ProviderInOrder
    <3>4. QED
      BY <2>0, <3>1, <3>2, <3>3, PermissionsKept, StayOnCourse, RecordedValues
  <2>13. CASE Evaluate
    <3>1. /\ Running /\ OnCourse(5) /\ reason = "none" /\ pc = "evaluate"
          /\ UNCHANGED <<request, agentEvidence, provider, runBuilt, assessment>>
      BY <2>13, RecordedValues, AtLabel DEF Evaluate
    <3>2. CASE UNCHANGED traces /\ pc' = "finish" /\ reason' \in {"TIMEOUT", "BUDGET_EXHAUSTED"}
      BY <2>0, <3>1, <3>2, PrefixKept, PermissionsKept, LeaveEarly
    <3>3. CASE CanRecord /\ Record("EVALUATE", "none") /\ pc' = "verify" /\ reason' = reason
      <4>1. OnCourse(6)' /\ 6 <= request.budget.iterations
        BY <3>1, <3>3, NextPhase, LoopEntries
      <4>2. PermissionsPrecede' /\ ProviderInOrder'
        BY <3>1, <3>3, <4>1 DEF LoopInv, PermissionsPrecede, OnCourse, ProviderInOrder
      <4>3. QED
        BY <2>0, <3>1, <3>3, <4>1, <4>2, StayOnCourse, RecordedValues
    <3>4. QED
      BY <2>13, <3>2, <3>3 DEF Evaluate
  <2>14. CASE Verify
    <3>1. /\ Running /\ OnCourse(6) /\ reason = "none" /\ pc = "verify"
          /\ UNCHANGED <<request, agentEvidence, provider, runBuilt, assessment>>
      BY <2>14, RecordedValues, AtLabel DEF Verify
    <3>2. CASE UNCHANGED traces /\ pc' = "finish" /\ reason' = "BUDGET_EXHAUSTED"
      BY <2>0, <3>1, <3>2, PrefixKept, PermissionsKept, LeaveEarly
    <3>3. CASE CanRecord /\ Record("VERIFY", "none") /\ pc' = "gate" /\ reason' = reason
      <4>1. OnCourse(7)' /\ 7 <= request.budget.iterations
        BY <3>1, <3>3, NextPhase, LoopEntries
      <4>2. PermissionsPrecede' /\ ProviderInOrder'
        BY <3>1, <3>3, <4>1 DEF LoopInv, PermissionsPrecede, OnCourse, ProviderInOrder
      <4>3. QED
        BY <2>0, <3>1, <3>3, <4>1, <4>2, StayOnCourse, RecordedValues
    <3>4. QED
      BY <2>14, <3>2, <3>3 DEF Verify
  <2>15. CASE Gate
    <3>1. /\ Running /\ OnCourse(7) /\ reason = "none" /\ pc = "gate" /\ pc' = "finish"
          /\ UNCHANGED <<request, agentEvidence, provider, runBuilt, assessment>>
          /\ ~ Running'
      BY <2>0, <2>15, RecordedValues, AtLabel DEF Gate
    <3>2. CASE UNCHANGED traces /\ reason' = "BUDGET_EXHAUSTED"
      BY <2>0, <3>1, <3>2, PrefixKept, PermissionsKept, LeaveEarly
    <3>3. CASE CanRecord /\ Record("GATE", "none") /\ rows' = TRUE
      <4>1. OnCourse(8)' /\ 8 <= request.budget.iterations
        BY <3>1, <3>3, NextPhase, LoopEntries
      <4>2. PermissionsPrecede' /\ PhasesArePrefix'
        BY <3>1, <4>1, PrefixOnCourse DEF LoopInv, PermissionsPrecede, OnCourse
      <4>3. traces' = WholeLoop'
        BY <4>1, WholeSeq DEF TypeOK
      <4>4. provider'.process # "none" /\ runBuilt' = TRUE
        BY <3>1 DEF TypeOK, LoopInv, ProviderInOrder
      <4>5. assessment' = NoAssessment
        BY <3>1, AtLabel
      <4>6. DecidedLast'
        BY <3>1, <3>3, <4>3, <4>4, <4>5 DEF DecidedLast, Verdict, NoAssessment
      <4>7. RunningIsOnCourse' /\ ProviderInOrder'
        BY <3>1 DEF RunningIsOnCourse, ProviderInOrder
      <4>8. QED
        BY <4>2, <4>6, <4>7 DEF LoopInv
    <3>4. QED
      BY <2>15, <3>2, <3>3 DEF Gate
  <2>16. CASE Finish
    <3>1. /\ ~ Running /\ ~ Running' /\ pc = "finish" /\ pc' = "returned"
          /\ UNCHANGED <<request, traces, agentEvidence, provider, runBuilt, reason, rows>>
          /\ assessment' = Assessment(reason, Decision(GateInput(links, signals)), rows)
      BY <2>0, <2>16, RecordedValues DEF Finish
    <3>2. Verdict' => reason = "EVIDENCE_SUFFICIENT"
      BY <3>1, DecisionTyped DEF Verdict, Assessment, GateInput, InputComplete
    <3>3. DecidedLast'
      BY <3>1, <3>2 DEF DecidedLast, LoopInv, Assessment, WholeLoop
    <3>4. QED
      BY <3>1, <3>3 DEF LoopInv, PhasesArePrefix, RunningIsOnCourse, PermissionsPrecede,
                        ProviderInOrder
  <2>17. CASE RaiseFromFinish
    <3>1. /\ ~ Running /\ ~ Running' /\ pc = "finish" /\ pc' = "raised"
          /\ UNCHANGED <<request, traces, agentEvidence, provider, runBuilt, reason, rows,
                         assessment>>
      BY <2>0, <2>17, RecordedValues DEF RaiseFromFinish
    <3>2. QED
      BY <3>1 DEF LoopInv, PhasesArePrefix, RunningIsOnCourse, PermissionsPrecede,
                  ProviderInOrder, DecidedLast, Verdict, WholeLoop
  <2>18. CASE World \/ UNCHANGED vars
    <3>1. UNCHANGED <<request, pc, traces, toolCalls, agentEvidence, revision, provider,
                      runBuilt, reason, rows, assessment>>
      BY <2>18 DEF World, DeadlinePasses, EditRepository, ReplaceReport, Internal, vars
    <3>2. QED
      BY <3>1 DEF LoopInv, PhasesArePrefix, RunningIsOnCourse, OnCourse, PermissionsPrecede,
                  ProviderInOrder, DecidedLast, Verdict, WholeLoop, Running
  <2>19. QED
    BY <2>1, <2>2, <2>3, <2>4, <2>5, <2>6, <2>7, <2>8, <2>9, <2>10, <2>11, <2>12, <2>13,
       <2>14, <2>15, <2>16, <2>17, <2>18 DEF Next, Step
<1>3. QED
  BY <1>1, <1>2, TypeCorrect, PTL DEF SafetySpec

\* A verdict has the whole loop behind it: every early exit, exhausted budget
\* or exception gives "incomplete" or nothing.
THEOREM VerdictIsLast == SafetySpec => []VerdictNeedsWholeLoop
<1>1. LoopInv => VerdictNeedsWholeLoop
  <2> SUFFICES ASSUME LoopInv, Verdict PROVE VerdictNeedsWholeLoop
    BY DEF VerdictNeedsWholeLoop
  <2>1. /\ traces = WholeLoop /\ assessment.reason = "EVIDENCE_SUFFICIENT"
        /\ runBuilt /\ rows /\ assessment.hasRun = runBuilt /\ assessment.rows = rows
    BY DEF LoopInv, DecidedLast
  <2>2. Len(traces) = 8
    BY <2>1 DEF WholeLoop
  <2>3. "READ" \in agentEvidence /\ "EXECUTE_MUTATION" \in agentEvidence
    BY <2>2 DEF LoopInv, PermissionsPrecede
  <2>4. QED
    BY <2>1, <2>3 DEF VerdictNeedsWholeLoop
<1>2. QED
  BY <1>1, LoopInvariant, PTL

\* Only the two acquiring steps change the provider's result.
LEMMA ProviderChanges ==
  ASSUME [Next]_vars, provider' # provider
  PROVE  \/ AcquireReport /\ CanUseTool /\ toolCalls' = toolCalls + 1
         \/ AcquireBackend /\ CanUseTool /\ toolCalls' = toolCalls + 1
<1>1. AcquireReport \/ AcquireBackend
  BY DEF Next, Step, World, vars, data, RaiseFromName, RejectBudget, Understand, Select,
         Mutate, Resolve, Observe, RaiseFromObserve, Map, SkipModel, ModelContextTooLarge,
         AskModel, Evaluate, Verify, Gate, Finish, RaiseFromFinish, DeadlinePasses,
         EditRepository, ReplaceReport, Internal
<1>2. QED
  BY <1>1 DEF AcquireReport, AcquireBackend, NoProvider

\* The provider is asked once, by a call that recorded MUTATE with its
\* permission, paid for it and knows the revision.
THEOREM ProviderIsPermitted == SafetySpec => ProviderNeedsPermission
<1> DEFINE A == provider' # provider =>
       /\ provider = NoResult
       /\ Len(traces) = 3 /\ traces[3] = Trace("MUTATE", "completed", "EXECUTE_MUTATION")
       /\ "EXECUTE_MUTATION" \in agentEvidence
       /\ toolCalls' = 3 /\ revision # "none"
<1>1. LoopInv /\ [Next]_vars => [A]_vars
  <2> SUFFICES ASSUME LoopInv, [Next]_vars, provider' # provider PROVE A
    OBVIOUS
  <2>1. pc = "acquire" /\ toolCalls' = toolCalls + 1
    BY ProviderChanges DEF AcquireReport, AcquireBackend
  <2>2. OnCourse(3) /\ toolCalls = 2 /\ revision # "none" /\ provider = NoResult
    BY <2>1, AtLabel DEF LoopInv, ProviderInOrder
  <2>3. Len(traces) = 3 /\ traces[3] = WholeLoop[3]
    BY <2>2 DEF OnCourse
  <2>4. "EXECUTE_MUTATION" \in agentEvidence
    BY <2>3 DEF LoopInv, PermissionsPrecede
  <2>5. QED
    BY <2>1, <2>2, <2>3, <2>4, LoopEntries
<1>2. QED
  BY <1>1, LoopInvariant, PTL DEF SafetySpec, ProviderNeedsPermission

-----------------------------------------------------------------------------
(***************************************************************************)
(* Budgets.                                                                *)
(***************************************************************************)

\* What BudgetsHold needs besides LoopInv: the mapper is not invoked before
\* its turn, and only within its budget.
BudgetInv ==
  /\ toolCalls <= request.budget.tools
  /\ Running /\ pc \notin {"evaluate", "verify", "gate"} => mapperCalls = 0
  /\ mapperCalls <= 1 /\ mapperCalls <= request.budget.models

\* A step leaves the tool calls alone or pays for one within the budget.
LEMMA ToolsCounted ==
  ASSUME TypeOK, [Next]_vars
  PROVE  toolCalls' = toolCalls \/ (CanUseTool /\ toolCalls' = toolCalls + 1)
<1>1. CASE Understand \/ RejectBudget \/ RaiseFromName
  BY <1>1 DEF Understand, RejectBudget, RaiseFromName, loop
<1>2. CASE Select \/ Mutate
  BY <1>2 DEF Select, Mutate, Permitted
<1>3. CASE Resolve
  BY <1>3 DEF Resolve
<1>4. CASE AcquireReport \/ AcquireBackend
  BY <1>4 DEF AcquireReport, AcquireBackend
<1>5. CASE Observe \/ RaiseFromObserve \/ Map
  BY <1>5 DEF Observe, RaiseFromObserve, Map
<1>6. CASE SkipModel \/ ModelContextTooLarge \/ AskModel
  BY <1>6 DEF SkipModel, ModelContextTooLarge, AskModel, loop
<1>7. CASE Evaluate \/ Verify \/ Gate
  BY <1>7 DEF Evaluate, Verify, Gate
<1>8. CASE Finish \/ RaiseFromFinish
  BY <1>8 DEF Finish, RaiseFromFinish, loop
<1>9. CASE World \/ UNCHANGED vars
  BY <1>9 DEF World, DeadlinePasses, EditRepository, ReplaceReport, Internal, vars, loop
<1>10. QED
  BY <1>1, <1>2, <1>3, <1>4, <1>5, <1>6, <1>7, <1>8, <1>9 DEF Next, Step

\* A step invokes the mapper at the label "model" only, once, within its budget.
LEMMA MapperCounted ==
  ASSUME TypeOK, [Next]_vars
  PROVE  \/ mapperCalls' = mapperCalls
         \/ AskModel /\ mapperCalls' = mapperCalls + 1 /\ modelCalls < request.budget.models
<1>1. CASE Understand \/ RejectBudget \/ RaiseFromName
  BY <1>1 DEF Understand, RejectBudget, RaiseFromName, loop
<1>2. CASE Select \/ Mutate \/ Resolve
  BY <1>2 DEF Select, Mutate, Resolve
<1>4. CASE AcquireReport \/ AcquireBackend
  BY <1>4 DEF AcquireReport, AcquireBackend
<1>5. CASE Observe \/ RaiseFromObserve \/ Map
  BY <1>5 DEF Observe, RaiseFromObserve, Map
<1>6. CASE SkipModel \/ ModelContextTooLarge \/ AskModel
  BY <1>6 DEF SkipModel, ModelContextTooLarge, AskModel, ModelWanted, loop
<1>7. CASE Evaluate \/ Verify \/ Gate
  BY <1>7 DEF Evaluate, Verify, Gate
<1>8. CASE Finish \/ RaiseFromFinish
  BY <1>8 DEF Finish, RaiseFromFinish, loop
<1>9. CASE World \/ UNCHANGED vars
  BY <1>9 DEF World, DeadlinePasses, EditRepository, ReplaceReport, Internal, vars, loop
<1>10. QED
  BY <1>1, <1>2, <1>4, <1>5, <1>6, <1>7, <1>8, <1>9 DEF Next, Step

\* The request is that of the call.
LEMMA RequestFixed ==
  ASSUME [Next]_vars
  PROVE  request' = request
<1>1. CASE Step
  BY <1>1 DEF Step, env, RaiseFromName, RejectBudget, Understand, Select,
         Mutate, Resolve, AcquireReport, AcquireBackend, Observe, RaiseFromObserve, Map,
         SkipModel, ModelContextTooLarge, AskModel, Evaluate, Verify, Gate, Finish,
         RaiseFromFinish
<1>2. CASE World \/ UNCHANGED vars
  BY <1>2 DEF World, DeadlinePasses, EditRepository, ReplaceReport, vars, env
<1>3. QED
  BY <1>1, <1>2 DEF Next

\* The labels that a step leads to.
LEMMA LabelOrder ==
  ASSUME TypeOK, [Next]_vars
  PROVE  \/ pc' = pc
         \/ /\ Running
            /\ pc' \in {"finish", "returned", "raised", "evaluate", "verify", "gate"}
         \/ /\ pc \in {"start", "select", "mutate", "resolve", "acquire", "observe", "map"}
            /\ pc' \in {"select", "mutate", "resolve", "acquire", "observe", "map", "model"}
         \/ pc = "finish" /\ pc' \in {"returned", "raised"}
<1> USE RecordedValues DEF Goto, Stop
<1>1. CASE Understand \/ RejectBudget \/ RaiseFromName
  BY <1>1 DEF Understand, RejectBudget, RaiseFromName, ReturnIncomplete
<1>2. CASE Select \/ Mutate
  BY <1>2 DEF Select, Mutate
<1>3. CASE Resolve
  BY <1>3 DEF Resolve, Fail
<1>4. CASE AcquireReport \/ AcquireBackend
  BY <1>4 DEF AcquireReport, AcquireBackend, Fail, Provide
<1>5. CASE Observe \/ RaiseFromObserve \/ Map
  BY <1>5 DEF Observe, RaiseFromObserve, Map
<1>6. CASE SkipModel \/ ModelContextTooLarge \/ AskModel
  BY <1>6 DEF SkipModel, ModelContextTooLarge, AskModel
<1>7. CASE Evaluate \/ Verify \/ Gate
  BY <1>7 DEF Evaluate, Verify, Gate
<1>8. CASE Finish \/ RaiseFromFinish
  BY <1>8 DEF Finish, RaiseFromFinish
<1>9. CASE World \/ UNCHANGED vars
  BY <1>9 DEF World, DeadlinePasses, EditRepository, ReplaceReport, Internal, vars
<1>10. QED
  BY <1>1, <1>2, <1>3, <1>4, <1>5, <1>6, <1>7, <1>8, <1>9 DEF Next, Step

\* No counter passes its limit: phases, tool calls and model invocations stay
\* within the budget, and the mapper is invoked at most once.
THEOREM BudgetsAreKept == SafetySpec => []BudgetsHold
<1>1. Init => BudgetInv
  <2> SUFFICES ASSUME Init PROVE BudgetInv
    OBVIOUS
  <2>1. request.budget.tools \in Nat /\ request.budget.models \in Nat
    BY RequestsTyped DEF Init, RequestType
  <2>2. QED
    BY <2>1 DEF Init, BudgetInv
<1>2. TypeOK /\ BudgetInv /\ [Next]_vars => BudgetInv'
  <2> SUFFICES ASSUME TypeOK, BudgetInv, [Next]_vars PROVE BudgetInv'
    OBVIOUS
  <2>1. toolCalls' <= request'.budget.tools
    BY ToolsCounted, RequestFixed, BudgetTyped DEF BudgetInv, CanUseTool, TypeOK
  <2>2. CASE mapperCalls' = mapperCalls
    <3>1. (Running /\ pc \notin {"evaluate", "verify", "gate"})'
            => Running /\ pc \notin {"evaluate", "verify", "gate"}
      BY LabelOrder, RecordedValues DEF Running, Recorded
    <3>2. QED
      BY <2>1, <2>2, <3>1, RequestFixed DEF BudgetInv
  <2>3. CASE AskModel /\ mapperCalls' = mapperCalls + 1 /\ modelCalls < request.budget.models
    <3>1. pc = "model" /\ pc' = "evaluate" /\ mapperCalls = 0
      BY <2>3, RecordedValues DEF AskModel, Goto, BudgetInv
    <3>2. QED
      BY <2>1, <2>3, <3>1, RequestFixed, BudgetTyped DEF BudgetInv, TypeOK
  <2>4. QED
    BY <2>2, <2>3, MapperCounted
<1>3. LoopInv /\ BudgetInv => BudgetsHold
  BY DEF LoopInv, PhasesArePrefix, BudgetInv, BudgetsHold
<1>4. QED
  BY <1>1, <1>2, <1>3, TypeCorrect, LoopInvariant, PTL DEF SafetySpec

-----------------------------------------------------------------------------
(***************************************************************************)
(* Recorded phases and reasons.                                            *)
(***************************************************************************)

\* What a step may do to the trace: nothing, append an entry, or terminate the
\* last one and leave the loop.  The provider's result comes without an entry.
LEMMA TracesGrow ==
  ASSUME TypeOK, LoopInv, [Next]_vars
  PROVE  \/ traces' = traces
         \/ /\ Running /\ provider' = provider
            /\ \E t : traces' = Append(traces, t)
         \/ /\ pc = "resolve" \/ pc = "acquire"
            /\ TerminateLast /\ pc' = "finish" /\ provider' = provider
<1> USE RecordedValues DEF Goto, Stop, loop, data, Record
<1>1. CASE Understand
  <2>1. traces = <<>> /\ pc = "start" /\ provider' = provider
    BY <1>1, AtLabel DEF Understand, OnCourse, TypeOK
  <2>2. \A t : <<t>> = Append(<<>>, t)
    OBVIOUS
  <2>3. QED
    BY <1>1, <2>1, <2>2 DEF Understand
<1>2. CASE Select \/ Mutate
  BY <1>2 DEF Select, Mutate, Permitted
<1>3. CASE Resolve
  BY <1>3 DEF Resolve, Fail
<1>4. CASE AcquireReport
  BY <1>4 DEF AcquireReport, Fail, Provide, NoProvider
<1>5. CASE AcquireBackend
  BY <1>5 DEF AcquireBackend, Fail, Provide, NoProvider
<1>6. CASE Observe \/ RaiseFromObserve \/ Map
  BY <1>6 DEF Observe, RaiseFromObserve, Map
<1>7. CASE RaiseFromName \/ RejectBudget \/ SkipModel \/ ModelContextTooLarge \/ AskModel
  BY <1>7 DEF RaiseFromName, RejectBudget, SkipModel, ModelContextTooLarge, AskModel
<1>8. CASE Evaluate \/ Verify \/ Gate
  BY <1>8 DEF Evaluate, Verify, Gate
<1>9. CASE Finish \/ RaiseFromFinish
  BY <1>9 DEF Finish, RaiseFromFinish
<1>10. CASE World \/ UNCHANGED vars
  BY <1>10 DEF World, DeadlinePasses, EditRepository, ReplaceReport, Internal, vars
<1>11. QED
  BY <1>1, <1>2, <1>3, <1>4, <1>5, <1>6, <1>7, <1>8, <1>9, <1>10 DEF Next, Step

\* A recorded phase stands.
THEOREM PhasesStand == SafetySpec => RecordedPhasesStand
<1>1. TypeOK /\ LoopInv /\ [Next]_vars =>
        [LET n == Len(traces) IN
         \/ traces' = traces
         \/ /\ Len(traces') = n + 1
            /\ \A i \in 1 .. n : traces'[i] = traces[i] /\ traces[i].status = "completed"
         \/ /\ Len(traces') = n /\ pc' = "finish"
            /\ \A i \in 1 .. n - 1 : traces'[i] = traces[i]
            /\ traces'[n] = [traces[n] EXCEPT !.status = "terminated"]]_vars
  <2> SUFFICES ASSUME TypeOK, LoopInv, [Next]_vars, traces' # traces
      PROVE \/ /\ Len(traces') = Len(traces) + 1
               /\ \A i \in 1 .. Len(traces) :
                    traces'[i] = traces[i] /\ traces[i].status = "completed"
            \/ /\ Len(traces') = Len(traces) /\ pc' = "finish"
               /\ \A i \in 1 .. Len(traces) - 1 : traces'[i] = traces[i]
               /\ traces'[Len(traces)] = [traces[Len(traces)] EXCEPT !.status = "terminated"]
    OBVIOUS
  <2>1. traces \in Seq(TraceType)
    BY DEF TypeOK
  <2>2. CASE Running /\ \E t : traces' = Append(traces, t)
    <3>1. \A i \in 1 .. Len(traces) : traces[i] = WholeLoop[i]
      BY <2>2 DEF LoopInv, RunningIsOnCourse, OnCourse
    <3>2. \A i \in 1 .. 8 : WholeLoop[i].status = "completed"
      BY DEF WholeLoop, Trace
    <3>3. Len(traces) <= 8
      BY DEF LoopInv, PhasesArePrefix
    <3>4. \A i \in 1 .. Len(traces) : traces[i].status = "completed"
      BY <2>1, <3>1, <3>2, <3>3
    <3>5. QED
      BY <2>1, <2>2, <3>4
  <2>3. CASE (pc = "resolve" \/ pc = "acquire") /\ TerminateLast /\ pc' = "finish"
    <3>1. Len(traces) = 3
      BY <2>3, AtLabel DEF OnCourse
    <3>2. Len(traces') = 3
      BY <2>1, <2>3, <3>1, TerminateTyped
    <3>3. QED
      BY <2>1, <2>3, <3>1, <3>2 DEF TerminateLast
  <2>4. QED
    BY <2>2, <2>3, TracesGrow
<1>2. QED
  BY <1>1, TypeCorrect, LoopInvariant, PTL DEF SafetySpec, RecordedPhasesStand

\* ReasonIsReal, and the label at which a reason is there.
ReasonInv == ReasonIsReal /\ (pc = "finish" => reason \in Reasons)

\* A step that gives a reason gives a true one.
LEMMA ReasonsGiven ==
  ASSUME TypeOK, LoopInv, Step, Running
  PROVE  /\ \/ reason' # "BUDGET_EXHAUSTED"
            \/ ~ CanRecord /\ UNCHANGED traces
            \/ ~ CanUseTool /\ UNCHANGED toolCalls
         /\ reason' = "TIMEOUT" => expired' /\ expired
         /\ pc' = "finish" => reason' \in Reasons
         /\ pc' # "returned" => UNCHANGED assessment
         /\ pc' = "returned" => /\ UNCHANGED <<reason, traces>>
                                /\ assessment'.decision = "incomplete"
                                /\ \/ assessment'.reason = "ERROR"
                                   \/ assessment'.reason = "BUDGET_EXHAUSTED" /\ ~ CanRecord
<1> USE RecordedValues, AtLabel DEF Goto, Stop, loop, data, found, Reasons, FinishReasons
<1>1. CASE RaiseFromName
  BY <1>1 DEF RaiseFromName
<1>2. CASE RejectBudget
  BY <1>2 DEF RejectBudget, ReturnIncomplete, Assessment
<1>3. CASE Understand
  BY <1>3 DEF Understand, ReturnIncomplete, Assessment
<1>4. CASE Select \/ Mutate
  BY <1>4 DEF Select, Mutate, Permitted
<1>5. CASE Resolve
  BY <1>5 DEF Resolve, Fail
<1>6. CASE AcquireReport
  BY <1>6 DEF AcquireReport, Fail, Provide
<1>7. CASE AcquireBackend
  BY <1>7 DEF AcquireBackend, Fail, Provide
<1>8. CASE Observe \/ RaiseFromObserve
  BY <1>8 DEF Observe, RaiseFromObserve
<1>9. CASE Map
  BY <1>9 DEF Map
<1>10. CASE SkipModel \/ ModelContextTooLarge \/ AskModel
  BY <1>10 DEF SkipModel, ModelContextTooLarge, AskModel
<1>11. CASE Evaluate \/ Verify \/ Gate
  BY <1>11 DEF Evaluate, Verify, Gate
<1>12. CASE Finish \/ RaiseFromFinish
  BY <1>12 DEF Finish, RaiseFromFinish
<1>13. QED
  BY <1>1, <1>2, <1>3, <1>4, <1>5, <1>6, <1>7, <1>8, <1>9, <1>10, <1>11, <1>12 DEF Step

\* Outside the loop a call takes the steps of _finish, and none once it is done.
LEMMA StepsAfterLoop ==
  ASSUME Step, ~ Running
  PROVE  Finish \/ RaiseFromFinish
BY RecordedValues
   DEF Step, RaiseFromName, RejectBudget, Understand, Select, Mutate, Resolve,
       AcquireReport, AcquireBackend, Observe, RaiseFromObserve, Map, SkipModel,
       ModelContextTooLarge, AskModel, Evaluate, Verify, Gate

\* The invariant behind the next theorem.
THEOREM ReasonInvariant == SafetySpec => []ReasonInv
<1>1. Init => ReasonInv
  BY DEF Init, ReasonInv, ReasonIsReal, NoAssessment
<1>2. TypeOK /\ TypeOK' /\ LoopInv /\ BudgetsHold /\ ReasonInv /\ [Next]_vars => ReasonInv'
  <2> SUFFICES ASSUME TypeOK, TypeOK', LoopInv, BudgetsHold, ReasonInv, [Next]_vars
      PROVE ReasonInv'
    OBVIOUS
  <2>1. CASE Running /\ Step
    <3>1. ~ CanRecord => Len(traces) = request.budget.iterations
      BY BudgetTyped DEF CanRecord, BudgetsHold, TypeOK
    <3>2. ~ CanUseTool => toolCalls = request.budget.tools
      BY BudgetTyped DEF CanUseTool, BudgetsHold, TypeOK
    <3>3. request' = request /\ reason = "none" /\ assessment = NoAssessment
      BY <2>1, RequestFixed, AtLabel
    <3>4. assessment.reason = "none"
      BY <3>3 DEF NoAssessment
    <3>5. reason' = "BUDGET_EXHAUSTED" \/ assessment'.reason = "BUDGET_EXHAUSTED"
            => \/ Len(traces') = request'.budget.iterations
               \/ toolCalls' = request'.budget.tools
      BY <2>1, <3>1, <3>2, <3>3, <3>4, ReasonsGiven
    <3>6. reason' = "TIMEOUT" \/ assessment'.reason = "TIMEOUT" => expired'
      BY <2>1, <3>3, <3>4, ReasonsGiven
    <3>7. pc' = "finish" => reason' \in Reasons
      BY <2>1, ReasonsGiven
    <3>8. QED
      BY <3>5, <3>6, <3>7 DEF ReasonInv, ReasonIsReal
  <2>2. CASE ~ Running /\ Step
    <3>1. Finish \/ RaiseFromFinish
      BY <2>2, StepsAfterLoop
    <3>2. /\ UNCHANGED <<request, traces, toolCalls, expired, reason>> /\ pc' # "finish"
          /\ assessment' = assessment \/ assessment'.reason = reason
      BY <3>1 DEF Finish, RaiseFromFinish, Assessment, env, loop
    <3>3. QED
      BY <3>2 DEF ReasonInv, ReasonIsReal
  <2>3. CASE World \/ UNCHANGED vars
    <3>1. /\ UNCHANGED <<request, traces, toolCalls, reason, assessment, pc>>
          /\ expired => expired'
      BY <2>3 DEF World, DeadlinePasses, EditRepository, ReplaceReport, Internal, vars, env, loop
    <3>2. QED
      BY <3>1 DEF ReasonInv, ReasonIsReal
  <2>4. QED
    BY <2>1, <2>2, <2>3 DEF Next
<1>3. QED
  BY <1>1, <1>2, TypeCorrect, LoopInvariant, BudgetsAreKept, PTL DEF SafetySpec

\* TIMEOUT is given only past the deadline, BUDGET_EXHAUSTED only when a
\* counter stands at its limit.
THEOREM ReasonsAreReal == SafetySpec => []ReasonIsReal
<1>1. ReasonInv => ReasonIsReal
  BY DEF ReasonInv
<1>2. QED
  BY <1>1, ReasonInvariant, PTL

-----------------------------------------------------------------------------
(***************************************************************************)
(* Refinement.                                                             *)
(***************************************************************************)

\* Every call is a controlled loop: its initial states are, and each of its
\* steps is one of Advance, Observe, Conclude and Raise, or a stutter.
THEOREM LoopIsControlled == SafetySpec => Loop!SafetySpec
<1>1. Init => Loop!Init
  BY DEF Init, Loop!Init, NoResult, Result, NoAssessment, Done
<1>2. TypeOK /\ TypeOK' /\ LoopInv /\ LoopInv' /\ ReasonInv /\ [Next]_vars
        => [Loop!Next]_(Loop!vars)
  <2> SUFFICES ASSUME TypeOK, TypeOK', LoopInv, LoopInv', ReasonInv, [Next]_vars
      PROVE [Loop!Next]_(Loop!vars)
    OBVIOUS
  <2>0. Step \/ pc' = pc
    BY DEF Next, World, DeadlinePasses, EditRepository, ReplaceReport, Internal, vars
  <2>1. request' = request /\ traces \in Seq(TraceType)
    BY RequestFixed DEF TypeOK
  <2>2. /\ ~ Done => assessment = NoAssessment
        /\ ~ Done' => assessment' = NoAssessment
    <3>1. Done \/ Running \/ pc = "finish"
      BY RecordedValues DEF TypeOK, Labels, Done
    <3>2. Done' \/ Running' \/ pc' = "finish"
      BY DEF TypeOK, Labels, Done, Running, Recorded
    <3>3. QED
      BY <3>1, <3>2 DEF LoopInv, DecidedLast, NoAssessment
  <2>3. provider' # provider
          => pc' = "observe" /\ provider = NoResult /\ traces' = traces /\ provider'.process # "none"
    BY ProviderChanges
       DEF AcquireReport, AcquireBackend, Provide, NoProvider, Goto, LoopInv, ProviderInOrder
  <2>4. Len(traces') <= 8 /\ Len(traces') <= request.budget.iterations
    BY <2>1 DEF LoopInv, PhasesArePrefix
  <2>5. CASE Done
    <3>1. UNCHANGED vars
      BY <2>5, StepsAfterLoop, RecordedValues
         DEF Done, Next, World, Finish, RaiseFromFinish, DeadlinePasses, EditRepository,
             ReplaceReport
    <3>2. QED
      BY <3>1 DEF Loop!vars, vars, env, loop, data, Done
  <2>6. CASE ~ Done /\ ~ Done'
    <3>1. assessment' = assessment
      BY <2>2, <2>6
    <3>2. CASE provider' # provider
      <4>1. pc = "acquire"
        BY <3>2, ProviderChanges DEF AcquireReport, AcquireBackend
      <4>2. Len(traces) = 3 /\ traces' = traces
        BY <2>3, <3>2, <4>1, AtLabel DEF OnCourse
      <4>3. provider.process = "none" /\ provider'.process # "none"
        BY <2>3, <3>2 DEF NoResult, Result
      <4>4. QED
        BY <2>1, <2>6, <3>1, <4>2, <4>3 DEF Loop!Next, Loop!Observe
    <3>3. CASE provider' = provider /\ Len(traces') = Len(traces)
      BY <2>1, <2>6, <3>1, <3>3 DEF Loop!vars
    <3>4. CASE provider' = provider /\ Len(traces') = Len(traces) + 1
      BY <2>1, <2>4, <2>6, <3>1, <3>4, BudgetTyped DEF Loop!Next, Loop!Advance
    <3>5. Len(traces') = Len(traces) \/ Len(traces') = Len(traces) + 1
      BY <2>1, TracesGrow, TerminateTyped
    <3>6. QED
      BY <3>2, <3>3, <3>4, <3>5
  <2>7. CASE ~ Done /\ pc' = "returned"
    <3>1. Done' /\ provider' = provider
      BY <2>3, <2>7 DEF Done
    <3>2. /\ traces' = traces /\ assessment'.reason \in Reasons
          /\ assessment'.decision \in Decisions
      <4>1. CASE Running /\ Step
        BY <2>7, <4>1, ReasonsGiven DEF Reasons, FinishReasons, Decisions
      <4>2. CASE Finish
        BY <4>2, DecisionTyped DEF Finish, Assessment, ReasonInv, loop
      <4>3. (Running /\ Step) \/ Finish
        BY <2>0, <2>7, StepsAfterLoop DEF RaiseFromFinish, Done
      <4>4. QED
        BY <4>1, <4>2, <4>3
    <3>3. assessment'.decision # "incomplete" => Verdict'
      BY <3>2 DEF Verdict, Decisions
    <3>4. assessment'.decision # "incomplete"
            => /\ Len(traces') = 8 /\ provider'.process # "none"
               /\ assessment'.reason = "EVIDENCE_SUFFICIENT"
      <4>1. Len(WholeLoop') = 8
        BY DEF WholeLoop
      <4>2. QED
        BY <3>3, <4>1 DEF LoopInv, DecidedLast
    <3>5. QED
      BY <2>1, <2>7, <3>1, <3>2, <3>4 DEF Loop!Next, Loop!Conclude, Done
  <2>8. CASE ~ Done /\ pc' = "raised"
    <3>1. Done' /\ provider' = provider
      BY <2>3, <2>8 DEF Done
    <3>2. assessment' = assessment
      BY <2>0, <2>8, StepsAfterLoop, ReasonsGiven DEF Finish, RaiseFromFinish, Done
    <3>3. Len(traces') = Len(traces) \/ Len(traces') = Len(traces) + 1
      BY <2>1, TracesGrow, TerminateTyped
    <3>4. QED
      BY <2>1, <2>4, <2>8, <3>1, <3>2, <3>3, BudgetTyped DEF Loop!Next, Loop!Raise, Done
  <2>9. QED
    BY <2>5, <2>6, <2>7, <2>8 DEF Done
<1>3. QED
  BY <1>1, <1>2, TypeCorrect, LoopInvariant, ReasonInvariant, PTL DEF SafetySpec, Loop!SafetySpec

-----------------------------------------------------------------------------
(***************************************************************************)
(* The smallest budget for the whole loop.                                 *)
(***************************************************************************)

\* What WholeLoopFitsBudget needs besides LoopInv: eight iterations and three
\* tool calls are never exhausted, in the loop or after it.
FitsInv ==
  request.budget.valid /\ request.budget.iterations >= 8 /\ request.budget.tools >= 3
    => reason # "BUDGET_EXHAUSTED" /\ assessment.reason # "BUDGET_EXHAUSTED"

\* A label of the loop finds room in a budget of that size.
LEMMA RoomLeft ==
  ASSUME TypeOK, LoopInv, Running,
         request.budget.iterations >= 8, request.budget.tools >= 3
  PROVE  CanRecord /\ (pc \in {"select", "mutate", "acquire"} => CanUseTool)
<1>1. Len(traces) = Recorded[pc] /\ Recorded[pc] \in 0 .. 7
  BY RecordedValues DEF LoopInv, RunningIsOnCourse, OnCourse
<1>2. pc \in {"select", "mutate", "acquire"} => toolCalls \in 0 .. 2
  BY DEF LoopInv, ProviderInOrder
<1>3. QED
  BY <1>1, <1>2, BudgetTyped DEF CanRecord, CanUseTool

\* A step blames the budget only when the counter it is about to use is full.
LEMMA BudgetBlamed ==
  ASSUME TypeOK, LoopInv, Step, Running, CanRecord,
         pc \in {"select", "mutate", "acquire"} => CanUseTool,
         reason' = "BUDGET_EXHAUSTED" \/ assessment'.reason = "BUDGET_EXHAUSTED"
  PROVE  FALSE
<1> USE RecordedValues, AtLabel DEF Goto, Stop, NoAssessment, loop, data, found
<1>1. CASE RaiseFromName
  BY <1>1 DEF RaiseFromName
<1>2. CASE RejectBudget
  BY <1>2 DEF RejectBudget, ReturnIncomplete, Assessment
<1>3. CASE Understand
  BY <1>3 DEF Understand, ReturnIncomplete, Assessment
<1>4. CASE Select \/ Mutate
  BY <1>4 DEF Select, Mutate, Permitted
<1>5. CASE Resolve
  BY <1>5 DEF Resolve, Fail
<1>6. CASE AcquireReport
  BY <1>6 DEF AcquireReport, Fail, Provide
<1>7. CASE AcquireBackend
  BY <1>7 DEF AcquireBackend, Fail, Provide
<1>8. CASE Observe \/ RaiseFromObserve
  BY <1>8 DEF Observe, RaiseFromObserve
<1>9. CASE Map
  BY <1>9 DEF Map
<1>10. CASE SkipModel \/ ModelContextTooLarge \/ AskModel
  BY <1>10 DEF SkipModel, ModelContextTooLarge, AskModel
<1>11. CASE Evaluate \/ Verify \/ Gate
  BY <1>11 DEF Evaluate, Verify, Gate
<1>12. CASE Finish \/ RaiseFromFinish
  BY <1>12 DEF Finish, RaiseFromFinish
<1>13. QED
  BY <1>1, <1>2, <1>3, <1>4, <1>5, <1>6, <1>7, <1>8, <1>9, <1>10, <1>11, <1>12 DEF Step

\* No call exhausts eight iterations and three tool calls, whatever the
\* provider, the model and the clock do.
THEOREM WholeLoopFits == SafetySpec => []WholeLoopFitsBudget
<1>1. Init => FitsInv
  BY DEF Init, FitsInv, NoAssessment
<1>2. TypeOK /\ LoopInv /\ FitsInv /\ [Next]_vars => FitsInv'
  <2> SUFFICES ASSUME TypeOK, LoopInv, FitsInv, [Next]_vars,
                      request.budget.valid, request.budget.iterations >= 8,
                      request.budget.tools >= 3
               PROVE  reason' # "BUDGET_EXHAUSTED" /\ assessment'.reason # "BUDGET_EXHAUSTED"
    BY RequestFixed DEF FitsInv
  <2>1. reason # "BUDGET_EXHAUSTED" /\ assessment.reason # "BUDGET_EXHAUSTED"
    BY DEF FitsInv
  <2>2. CASE Step /\ Running
    BY <2>2, RoomLeft, BudgetBlamed
  <2>3. CASE Step /\ ~ Running
    BY <2>1, <2>3, StepsAfterLoop DEF Finish, RaiseFromFinish, Assessment
  <2>4. CASE World \/ UNCHANGED vars
    BY <2>1, <2>4 DEF World, DeadlinePasses, EditRepository, ReplaceReport, Internal, vars
  <2>5. QED
    BY <2>2, <2>3, <2>4 DEF Next
<1>3. FitsInv => WholeLoopFitsBudget
  BY DEF FitsInv, WholeLoopFitsBudget
<1>4. QED
  BY <1>1, <1>2, <1>3, TypeCorrect, LoopInvariant, PTL DEF SafetySpec

-----------------------------------------------------------------------------
(***************************************************************************)
(* The contract with the persistence.                                      *)
(***************************************************************************)

\* What FinishKeepsContract needs besides LoopInv: provider Evidence is kept
\* from OBSERVE on, a run is built then and not before, and permission
\* Evidence exists from SELECT on.
ContractInv ==
  /\ pc \in {"start", "select", "mutate", "resolve", "acquire", "observe"}
       => ~ providerSaved /\ ~ runBuilt
  /\ pc \in {"map", "model", "evaluate", "verify", "gate"} => providerSaved
  /\ pc \in {"start", "select"} => agentEvidence = {}
  /\ Running /\ pc \notin {"start", "select"} => agentEvidence # {}
  /\ FinishKeepsContract

\* A contract that is kept, its conditions one by one.
LEMMA ContractShape ==
  ASSUME TypeOK', LoopInv', Len(traces') >= 1, reason' # "none",
         Len(traces') = 1 => reason' \in {"INSUFFICIENT_EVIDENCE", "BUDGET_EXHAUSTED"},
         providerSaved' => Len(traces') >= 3,
         runBuilt' => providerSaved',
         ~ runBuilt' => Len(traces') <= 4,
         rows' => runBuilt' /\ Len(traces') \in {5, 7, 8},
         runBuilt' /\ ~ rows' => /\ reason' = "BUDGET_EXHAUSTED"
                                 /\ Len(traces') = request'.budget.iterations
                                 /\ Len(traces') \in {4, 5, 6},
         rows' /\ Len(traces') = 5 => reason' = "TIMEOUT",
         rows' /\ Len(traces') = 7
           => reason' = "BUDGET_EXHAUSTED" /\ request'.budget.iterations = 7,
         Len(traces') = 8 => reason' \in {"EVIDENCE_SUFFICIENT", "INSUFFICIENT_EVIDENCE"},
         reason' = "EVIDENCE_SUFFICIENT" => Len(traces') = 8,
         Len(traces') > 1 \/ reason' = "BUDGET_EXHAUSTED" <=> agentEvidence' # {}
  PROVE  FinishKeepsContract'
<1> DEFINE n == Len(traces')
           i == request'.budget.iterations
           o == [phases |-> n, reason |-> reason', observed |-> providerSaved',
                 hasRun |-> runBuilt', rows |-> rows']
<1>1. n \in Nat
  BY DEF TypeOK
<1>2. n <= 8 /\ n <= i
  BY DEF LoopInv, PhasesArePrefix
<1>3. reason' \in FinishReasons /\ providerSaved' \in BOOLEAN /\ runBuilt' \in BOOLEAN
      /\ rows' \in BOOLEAN
  BY DEF TypeOK, Reasons
<1>4. o \in OutcomeType
  <2>1. n >= 1
    OBVIOUS
  <2>2. n \in 1 .. 8
    <3> HIDE DEF n
    <3>1. QED
      BY <1>1, <1>2, <2>1
  <2> HIDE DEF n
  <2>3. QED
    BY <1>3, <2>2 DEF OutcomeType
<1>5. /\ o.phases = n /\ o.reason = reason' /\ o.observed = providerSaved'
      /\ o.hasRun = runBuilt' /\ o.rows = rows'
  OBVIOUS
<1>6. PermissionGiven(o) <=> agentEvidence' # {}
  BY <1>5 DEF PermissionGiven
<1> HIDE DEF o
<1>7. o \in FinishOutcome(i)
  <2> HIDE DEF n, i
  <2>1. /\ n <= i
        /\ n = 1 => reason' \in {"INSUFFICIENT_EVIDENCE", "BUDGET_EXHAUSTED"}
        /\ providerSaved' => n >= 3
        /\ runBuilt' => providerSaved'
        /\ ~ runBuilt' => n <= 4
        /\ rows' => runBuilt' /\ n \in {5, 7, 8}
        /\ runBuilt' /\ ~ rows' => reason' = "BUDGET_EXHAUSTED" /\ n = i /\ n \in {4, 5, 6}
        /\ rows' /\ n = 5 => reason' = "TIMEOUT"
        /\ rows' /\ n = 7 => reason' = "BUDGET_EXHAUSTED" /\ i = 7
        /\ n = 8 => reason' \in {"EVIDENCE_SUFFICIENT", "INSUFFICIENT_EVIDENCE"}
        /\ reason' = "EVIDENCE_SUFFICIENT" => n = 8
    BY <1>2 DEF n, i
  <2>2. QED
    BY <1>4, <1>5, <2>1 DEF FinishOutcome
<1>8. QED
  BY <1>6, <1>7 DEF FinishKeepsContract, o, n, i

\* A label without room for a phase has its iterations used up.
LEMMA UsedUp ==
  ASSUME TypeOK, LoopInv, Running, ~ CanRecord
  PROVE  Len(traces) = request.budget.iterations
BY BudgetTyped DEF LoopInv, PhasesArePrefix, CanRecord, TypeOK

\* The lengths before and after a step.
LEMMA RecordLengths ==
  ASSUME TypeOK
  PROVE  /\ \A f, p : Record(f, p) => Len(traces') = Len(traces) + 1
         /\ TerminateLast => Len(traces') = Len(traces)
         /\ Len(<<Trace("UNDERSTAND", "terminated", "none")>>) = 1
<1>1. traces \in Seq(TraceType)
  BY DEF TypeOK
<1>2. \A t : Len(Append(traces, t)) = Len(traces) + 1
  BY <1>1
<1>3. QED
  BY <1>1, <1>2, TerminateTyped DEF Record

\* The call hands over to its persistence only what the contract allows: a run
\* without rows means an exhausted iteration budget, and only the whole loop is
\* EVIDENCE_SUFFICIENT.
THEOREM ContractIsKept == SafetySpec => []FinishKeepsContract
<1>1. Init => ContractInv
  BY DEF Init, ContractInv, FinishKeepsContract, Running, Recorded
<1>2. TypeOK /\ TypeOK' /\ LoopInv /\ LoopInv' /\ ContractInv /\ [Next]_vars => ContractInv'
  <2> SUFFICES ASSUME TypeOK, TypeOK', LoopInv, LoopInv', ContractInv, [Next]_vars
               PROVE  ContractInv'
    OBVIOUS
  <2>0. /\ Running' <=> pc' \in {"start", "select", "mutate", "resolve", "acquire", "observe",
                                "map", "model", "evaluate", "verify", "gate"}
        /\ pc' # "finish" => FinishKeepsContract'
        /\ request' = request
        /\ Running => OnCourse(Recorded[pc]) /\ Len(traces) = Recorded[pc] /\ reason = "none"
    BY RequestFixed DEF FinishKeepsContract, Running, Recorded, LoopInv, RunningIsOnCourse, OnCourse
  <2> USE <2>0, RecordedValues, RecordLengths DEF Goto, Stop, loop, data, found, env
  <2>1. CASE RaiseFromName \/ RejectBudget
    BY <2>1 DEF RaiseFromName, RejectBudget, ReturnIncomplete, ContractInv
  <2>2. CASE Understand
    <3>1. ~ providerSaved' /\ ~ runBuilt' /\ agentEvidence' = {}
          /\ pc' \in {"returned", "finish", "select"}
      BY <2>2 DEF Understand, ReturnIncomplete, ContractInv
    <3>2. CASE pc' = "finish"
      <4>1. Len(traces') = 1 /\ reason' = "INSUFFICIENT_EVIDENCE" /\ rows' = FALSE
        BY <2>2, <3>2 DEF Understand, ReturnIncomplete
      <4>2. FinishKeepsContract'
        BY <3>1, <4>1, ContractShape
      <4>3. QED
        BY <3>1, <3>2, <4>2 DEF ContractInv
    <3>3. QED
      BY <3>1, <3>2 DEF ContractInv
  <2>3. CASE Select
    <3>1. ~ providerSaved' /\ ~ runBuilt' /\ agentEvidence' # {} /\ Len(traces) = 1
          /\ pc' \in {"finish", "mutate"}
      BY <2>3 DEF Select, Permitted, ContractInv
    <3>2. CASE pc' = "finish"
      <4>1. /\ \/ Len(traces') = 1 /\ reason' = "BUDGET_EXHAUSTED"
               \/ Len(traces') = 2 /\ reason' = "TIMEOUT"
            /\ rows' = FALSE
        BY <2>3, <3>1, <3>2 DEF Select, Permitted
      <4>2. FinishKeepsContract'
        <5>1. CASE reason' = "BUDGET_EXHAUSTED"
          <6>1. Len(traces') = 1 /\ rows' = FALSE
            BY <4>1, <5>1
          <6>2. QED
            BY <3>1, <5>1, <6>1, ContractShape
        <5>2. CASE reason' = "TIMEOUT"
          <6>1. Len(traces') = 2 /\ rows' = FALSE
            BY <4>1, <5>2
          <6>2. QED
            BY <3>1, <5>2, <6>1, ContractShape
        <5>3. QED
          BY <4>1, <5>1, <5>2
      <4>3. QED
        BY <3>1, <3>2, <4>2 DEF ContractInv
    <3>3. QED
      BY <3>1, <3>2 DEF ContractInv
  <2>4. CASE Mutate
    <3>1. ~ providerSaved' /\ ~ runBuilt' /\ agentEvidence' # {} /\ Len(traces) = 2
          /\ pc' \in {"finish", "resolve"}
      BY <2>4 DEF Mutate, Permitted, ContractInv
    <3>2. CASE pc' = "finish"
      <4>1. Len(traces') = 2 /\ reason' = "BUDGET_EXHAUSTED" /\ rows' = FALSE
        BY <2>4, <3>1, <3>2 DEF Mutate, Permitted
      <4>2. FinishKeepsContract'
        BY <3>1, <4>1, ContractShape
      <4>3. QED
        BY <3>1, <3>2, <4>2 DEF ContractInv
    <3>3. QED
      BY <3>1, <3>2 DEF ContractInv
  <2>5. CASE Resolve \/ AcquireReport \/ AcquireBackend
    <3>1. /\ ~ runBuilt' /\ agentEvidence' # {} /\ Len(traces) = 3
          /\ pc' \in {"finish", "acquire", "observe"}
          /\ pc' # "finish" => ~ providerSaved'
      <4>1. pc \in {"resolve", "acquire"}
        BY <2>5 DEF Resolve, AcquireReport, AcquireBackend
      <4>2. ~ providerSaved /\ ~ runBuilt /\ agentEvidence # {} /\ Len(traces) = 3
        BY <4>1 DEF ContractInv
      <4>3. UNCHANGED <<runBuilt, agentEvidence>>
        BY <2>5 DEF Resolve, AcquireReport, AcquireBackend
      <4>4. /\ pc' \in {"finish", "acquire", "observe"}
            /\ pc' # "finish" => providerSaved' = providerSaved
        <5>1. CASE Resolve
          BY <5>1 DEF Resolve, Fail
        <5>2. CASE AcquireReport
          BY <5>2 DEF AcquireReport, Fail, Provide, NoProvider
        <5>3. CASE AcquireBackend
          BY <5>3 DEF AcquireBackend, Fail, Provide, NoProvider
        <5>4. QED
          BY <2>5, <5>1, <5>2, <5>3
      <4>5. QED
        BY <4>2, <4>3, <4>4
    <3>2. CASE pc' = "finish"
      <4>1. Len(traces') = 3 /\ rows' = FALSE
            /\ reason' \in {"TIMEOUT", "INSUFFICIENT_EVIDENCE", "ERROR", "BUDGET_EXHAUSTED"}
        <5>1. CASE Resolve
          BY <3>1, <3>2, <5>1 DEF Resolve, Fail
        <5>2. CASE AcquireReport
          BY <3>1, <3>2, <5>2 DEF AcquireReport, Fail, Provide
        <5>3. CASE AcquireBackend
          BY <3>1, <3>2, <5>3 DEF AcquireBackend, Fail, Provide
        <5>4. QED
          BY <2>5, <5>1, <5>2, <5>3
      <4>2. FinishKeepsContract'
        BY <3>1, <4>1, ContractShape
      <4>3. QED
        BY <3>1, <3>2, <4>2 DEF ContractInv
    <3>3. QED
      BY <3>1, <3>2 DEF ContractInv
  <2>6. CASE Observe \/ RaiseFromObserve
    <3>1. /\ providerSaved' /\ agentEvidence' # {} /\ Len(traces) = 3
          /\ pc' \in {"finish", "map", "raised"}
      BY <2>6 DEF Observe, RaiseFromObserve, ContractInv
    <3>2. CASE pc' = "finish"
      <4>1. /\ ~ runBuilt' /\ rows' = FALSE
            /\ \/ Len(traces') = 3 /\ reason' \in {"TIMEOUT", "BUDGET_EXHAUSTED"}
               \/ Len(traces') = 4 /\ reason' = "INSUFFICIENT_EVIDENCE"
        BY <2>6, <3>1, <3>2 DEF Observe, RaiseFromObserve, ContractInv
      <4>2. FinishKeepsContract'
        <5>1. CASE Len(traces') = 3
          BY <3>1, <4>1, <5>1, ContractShape
        <5>2. CASE Len(traces') = 4
          BY <3>1, <4>1, <5>2, ContractShape
        <5>3. QED
          BY <4>1, <5>1, <5>2
      <4>3. QED
        BY <3>1, <3>2, <4>2 DEF ContractInv
    <3>3. QED
      BY <3>1, <3>2 DEF ContractInv
  <2>7. CASE Map \/ Evaluate \/ Verify \/ Gate
    <3>1. /\ providerSaved' /\ runBuilt' /\ agentEvidence' # {}
          /\ pc' \in {"finish", "model", "verify", "gate"}
      BY <2>7 DEF Map, Evaluate, Verify, Gate, ContractInv, LoopInv, ProviderInOrder
    <3>2. CASE pc' = "finish"
      <4>1. \/ /\ reason' = "BUDGET_EXHAUSTED" /\ rows' = FALSE
               /\ Len(traces') = request'.budget.iterations /\ Len(traces') \in {4, 5, 6}
            \/ reason' = "TIMEOUT" /\ rows' = TRUE /\ Len(traces') = 5
            \/ /\ reason' = "BUDGET_EXHAUSTED" /\ rows' = TRUE
               /\ Len(traces') = 7 /\ request'.budget.iterations = 7
            \/ /\ reason' \in {"EVIDENCE_SUFFICIENT", "INSUFFICIENT_EVIDENCE"}
               /\ rows' = TRUE /\ Len(traces') = 8
        <5>1. CASE Map
          <6>1. Running /\ Len(traces) = 4
            BY <5>1 DEF Map
          <6>2. CASE CanRecord
            BY <3>2, <5>1, <6>1, <6>2 DEF Map
          <6>3. CASE ~ CanRecord
            <7>1. request.budget.iterations = 4
              BY <6>1, <6>3, UsedUp
            <7>2. QED
              BY <3>2, <5>1, <6>1, <6>3, <7>1 DEF Map
          <6>4. QED
            BY <6>2, <6>3
        <5>2. CASE Evaluate
          BY <3>2, <5>2, UsedUp DEF Evaluate
        <5>3. CASE Verify
          BY <3>2, <5>3, UsedUp DEF Verify
        <5>4. CASE Gate
          <6>1. Running /\ Len(traces) = 7
            BY <5>4 DEF Gate
          <6>2. CASE CanRecord
            BY <3>2, <5>4, <6>1, <6>2 DEF Gate
          <6>3. CASE ~ CanRecord
            <7>1. request.budget.iterations = 7
              BY <6>1, <6>3, UsedUp
            <7>2. QED
              BY <3>2, <5>4, <6>1, <6>3, <7>1 DEF Gate
          <6>4. QED
            BY <6>2, <6>3
        <5>5. QED
          BY <2>7, <5>1, <5>2, <5>3, <5>4
      <4>2. FinishKeepsContract'
        <5>1. CASE rows' = FALSE
          <6>1. /\ reason' = "BUDGET_EXHAUSTED" /\ Len(traces') = request'.budget.iterations
                /\ Len(traces') \in {4, 5, 6}
            BY <4>1, <5>1
          <6>2. QED
            BY <3>1, <5>1, <6>1, ContractShape
        <5>2. CASE rows' /\ Len(traces') = 5
          BY <3>1, <4>1, <5>2, ContractShape
        <5>3. CASE rows' /\ Len(traces') = 7
          BY <3>1, <4>1, <5>3, ContractShape
        <5>4. CASE rows' /\ Len(traces') = 8
          BY <3>1, <4>1, <5>4, ContractShape
        <5>5. QED
          BY <4>1, <5>1, <5>2, <5>3, <5>4
      <4>3. QED
        BY <3>1, <3>2, <4>2 DEF ContractInv
    <3>3. QED
      BY <3>1, <3>2 DEF ContractInv
  <2>8. CASE SkipModel \/ ModelContextTooLarge \/ AskModel
    <3>1. /\ providerSaved' /\ agentEvidence' # {} /\ pc' = "evaluate"
      BY <2>8 DEF SkipModel, ModelContextTooLarge, AskModel, ContractInv
    <3>2. QED
      BY <3>1 DEF ContractInv
  <2>9. CASE Finish \/ RaiseFromFinish
    BY <2>9 DEF Finish, RaiseFromFinish, ContractInv
  <2>10. CASE World \/ UNCHANGED vars
    <3>1. UNCHANGED <<pc, loop, data, found, reason, rows, request>>
      BY <2>10 DEF World, DeadlinePasses, EditRepository, ReplaceReport, Internal, vars
    <3>2. QED
      BY <3>1 DEF ContractInv, FinishKeepsContract, Running, Recorded
  <2>11. QED
    BY <2>1, <2>2, <2>3, <2>4, <2>5, <2>6, <2>7, <2>8, <2>9, <2>10 DEF Next, Step
<1>3. ContractInv => FinishKeepsContract
  BY DEF ContractInv
<1>4. QED
  BY <1>1, <1>2, <1>3, TypeCorrect, LoopInvariant, PTL DEF SafetySpec

-----------------------------------------------------------------------------
(***************************************************************************)
(* What a verdict rests on.                                                *)
(***************************************************************************)

\* The link of a mutant is the deterministic one, or a model relabelled it.
LinkStands(m) ==
  \/ links[m] = SurvivorLink(m)
  \/ SurvivorLink(m) = "unmapped" /\ links[m] = "unverified"

LinksStand == \A m \in Mutants : LinkStands(m)

\* A result of the provider is there only for usable inputs, and comes from the
\* report named with it, accepted for the revision, or from the backend.
ProviderStands ==
  provider.process # "none" =>
    /\ InputsUsable
    /\ request.report => /\ runReport \in Reports
                         /\ ReportAccepted(ReportContent[runReport], revision)
                         /\ provider = ParseReport(ReportContent[runReport])
    /\ ~ request.report => provider \in BackendResults

\* The Evidence a call holds at its labels, and what the gate makes of it.
EvidenceInv ==
  /\ ProviderStands
  /\ Running /\ pc # "start" => InputsUsable
  /\ pc \in {"model", "evaluate", "verify", "gate"} => LinksStand
  /\ pc \in {"verify", "gate"} => signals = SignalsOf(links)
  /\ reason = "EVIDENCE_SUFFICIENT"
       => EvidenceSufficient /\ LinksStand /\ signals = SignalsOf(links)
  /\ pc = "returned" /\ reason # "none"
       => assessment.decision = Decision(GateInput(links, signals))
  /\ pc = "raised" => assessment = NoAssessment /\ reason # "EVIDENCE_SUFFICIENT"

\* What the operators of the request and the Evidence read.
evidence == <<request, revision, runReport, provider, links, signals>>

\* What is read from the Evidence stands as long as the Evidence does.
LEMMA EvidenceRead ==
  ASSUME UNCHANGED evidence
  PROVE  /\ ProviderStands' <=> ProviderStands
         /\ InputsUsable' <=> InputsUsable
         /\ LinksStand' <=> LinksStand
         /\ EvidenceSufficient' <=> EvidenceSufficient
         /\ SignalsOf(links)' = SignalsOf(links)
<1>1. /\ request' = request /\ revision' = revision /\ runReport' = runReport
      /\ provider' = provider /\ links' = links /\ signals' = signals
  BY DEF evidence
<1>2. InputsUsable' <=> InputsUsable
  BY <1>1 DEF InputsUsable, ContextValid, Context
<1>3. ProviderStands' <=> ProviderStands
  BY <1>1, <1>2 DEF ProviderStands, BackendResults
<1>4. LinksStand' <=> LinksStand
  BY <1>1 DEF LinksStand, LinkStands, SurvivorLink, Survivors, MappedTo, Candidates,
              AllTests, LinkVerified, Context
<1>5. EvidenceSufficient' <=> EvidenceSufficient
  BY <1>1 DEF EvidenceSufficient, Statuses, Context
<1>6. SignalsOf(links)' = SignalsOf(links)
  BY <1>1 DEF SignalsOf, Context
<1>7. QED
  BY <1>2, <1>3, <1>4, <1>5, <1>6

\* The deterministic links stand, and still do when a model relabelled some
\* of the unmapped survivors.
LEMMA LinksDetermined ==
  ASSUME links' = SurvivorLinks, UNCHANGED <<request, provider>>
  PROVE  LinksStand'
<1>1. \A m \in Mutants : SurvivorLink(m)' = SurvivorLink(m)
  BY DEF SurvivorLink, Survivors, MappedTo, Candidates, AllTests, LinkVerified, Context
<1>2. QED
  BY <1>1 DEF LinksStand, LinkStands, SurvivorLinks

\* The model's answers fill links that were unmapped and change no other.
LEMMA LinksMerged ==
  ASSUME LinksStand, UNCHANGED <<request, provider>>,
         NEW answered \in SUBSET Unmapped, links' = Merged(answered)
  PROVE  LinksStand'
<1>1. \A m \in Mutants : SurvivorLink(m)' = SurvivorLink(m)
  BY DEF SurvivorLink, Survivors, MappedTo, Candidates, AllTests, LinkVerified, Context
<1>2. SUFFICES ASSUME NEW m \in Mutants PROVE LinkStands(m)'
  BY DEF LinksStand
<1>3. CASE m \in answered
  <2>1. links[m] = "unmapped" /\ links'[m] = "unverified"
    BY <1>3 DEF Unmapped, Merged
  <2>2. QED
    BY <1>1, <2>1 DEF LinksStand, LinkStands
<1>4. CASE m \notin answered
  BY <1>1, <1>4 DEF Merged, LinksStand, LinkStands
<1>5. QED
  BY <1>3, <1>4

\* A step in front of the provider's result, and the step that takes it.
LEMMA BeforeProvider ==
  ASSUME provider' = NoResult PROVE ProviderStands'
BY DEF ProviderStands, NoResult, Result

\* A result taken from a report or a backend has what the gate will rely on.
LEMMA ProviderTaken ==
  ASSUME TypeOK, InputsUsable, AcquireReport \/ AcquireBackend, provider = NoResult
  PROVE  ProviderStands' /\ (InputsUsable' <=> InputsUsable)
<1>1. request' = request /\ revision' = revision
  BY DEF AcquireReport, AcquireBackend, env
<1>2. InputsUsable' <=> InputsUsable
  BY <1>1 DEF InputsUsable, ContextValid, Context
<1>3. CASE provider' = provider
  BY <1>2, <1>3, BeforeProvider
<1>4. CASE AcquireReport /\ provider' # provider
  <2>1. /\ request.report /\ ReportAccepted(ReportContent[reportFile], revision)
        /\ provider' = ParseReport(ReportContent[reportFile]) /\ runReport' = reportFile
    BY <1>4 DEF AcquireReport, Provide, NoProvider
  <2>2. QED
    BY <1>1, <1>2, <2>1 DEF ProviderStands, TypeOK
<1>5. CASE AcquireBackend /\ provider' # provider
  <2>1. ~ request.report /\ provider' \in BackendResults
    BY <1>5 DEF AcquireBackend, Provide, NoProvider
  <2>2. QED
    BY <1>1, <1>2, <2>1 DEF ProviderStands, BackendResults
<1>6. QED
  BY <1>3, <1>4, <1>5

\* Evidence, links and signals stand from the label at which they are made
\* until the gate has decided on them.
THEOREM EvidenceInvariant == SafetySpec => []EvidenceInv
<1>1. Init => EvidenceInv
  <2> SUFFICES ASSUME Init PROVE EvidenceInv
    OBVIOUS
  <2>1. ProviderStands
    BY DEF Init, ProviderStands, NoResult, Result
  <2>2. pc = "start" /\ reason = "none"
    BY DEF Init
  <2>3. QED
    BY <2>1, <2>2 DEF EvidenceInv
<1>2. TypeOK /\ LoopInv /\ EvidenceInv /\ [Next]_vars => EvidenceInv'
  <2> SUFFICES ASSUME TypeOK, LoopInv, EvidenceInv, [Next]_vars
               PROVE  EvidenceInv'
    OBVIOUS
  <2>0. /\ Running' <=> pc' \in {"start", "select", "mutate", "resolve", "acquire", "observe",
                                "map", "model", "evaluate", "verify", "gate"}
        /\ Running => reason = "none" /\ assessment = NoAssessment
        /\ pc \in {"start", "select", "mutate", "resolve", "acquire"} => provider = NoResult
        /\ Running /\ pc # "start" => InputsUsable
    BY AtLabel DEF Running, Recorded, LoopInv, ProviderInOrder, EvidenceInv
  <2> USE <2>0, RecordedValues DEF Goto, Stop, env, loop, data, found
  <2>1. CASE RaiseFromName \/ RejectBudget
    <3>1. UNCHANGED <<evidence, reason>> /\ pc = "start" /\ pc' \in {"raised", "returned"}
          /\ (pc' = "raised" => assessment' = assessment)
      BY <2>1 DEF RaiseFromName, RejectBudget, ReturnIncomplete, evidence
    <3>2. QED
      BY <3>1, EvidenceRead DEF EvidenceInv
  <2>2. CASE Understand
    <3>1. UNCHANGED evidence /\ pc = "start" /\ pc' \in {"returned", "finish", "select"}
          /\ (pc' = "returned" => reason' = "none") /\ reason' # "EVIDENCE_SUFFICIENT"
          /\ (pc' = "select" => InputsUsable)
      BY <2>2 DEF Understand, ReturnIncomplete, evidence
    <3>2. QED
      BY <3>1, EvidenceRead DEF EvidenceInv
  <2>3. CASE Select \/ Mutate
    <3>1. UNCHANGED evidence /\ pc \in {"select", "mutate"}
          /\ pc' \in {"finish", "mutate", "resolve"} /\ reason' # "EVIDENCE_SUFFICIENT"
      BY <2>3 DEF Select, Mutate, evidence
    <3>2. QED
      BY <3>1, EvidenceRead DEF EvidenceInv
  <2>4. CASE Resolve
    <3>1. /\ UNCHANGED <<request, provider>> /\ pc = "resolve" /\ pc' \in {"finish", "acquire"}
          /\ reason' # "EVIDENCE_SUFFICIENT"
      BY <2>4 DEF Resolve, Fail
    <3>2. ProviderStands' /\ (InputsUsable' <=> InputsUsable)
      BY <3>1, BeforeProvider DEF InputsUsable, ContextValid, Context
    <3>3. QED
      BY <3>1, <3>2 DEF EvidenceInv
  <2>5. CASE AcquireReport \/ AcquireBackend
    <3>1. /\ pc = "acquire" /\ pc' \in {"finish", "observe"} /\ reason' # "EVIDENCE_SUFFICIENT"
      <4>1. CASE AcquireReport
        BY <4>1 DEF AcquireReport, Fail, Provide
      <4>2. CASE AcquireBackend
        BY <4>2 DEF AcquireBackend, Fail, Provide
      <4>3. QED
        BY <2>5, <4>1, <4>2
    <3>2. ProviderStands' /\ (InputsUsable' <=> InputsUsable)
      BY <2>5, <3>1, ProviderTaken
    <3>3. QED
      BY <3>1, <3>2 DEF EvidenceInv
  <2>6. CASE Observe \/ RaiseFromObserve
    <3>1. UNCHANGED evidence /\ pc = "observe" /\ pc' \in {"finish", "map", "raised"}
          /\ reason' # "EVIDENCE_SUFFICIENT" /\ assessment' = assessment
      BY <2>6 DEF Observe, RaiseFromObserve, evidence
    <3>2. QED
      BY <3>1, EvidenceRead DEF EvidenceInv
  <2>7. CASE Map
    <3>1. /\ UNCHANGED <<request, provider, revision, runReport>>
          /\ pc = "map" /\ pc' \in {"finish", "model"} /\ reason' # "EVIDENCE_SUFFICIENT"
          /\ (pc' = "model" => links' = SurvivorLinks)
      BY <2>7 DEF Map
    <3>2. (InputsUsable' <=> InputsUsable) /\ (ProviderStands' <=> ProviderStands)
      BY <3>1 DEF InputsUsable, ContextValid, Context, ProviderStands, BackendResults
    <3>3. pc' = "model" => LinksStand'
      BY <3>1, LinksDetermined
    <3>4. QED
      BY <3>1, <3>2, <3>3 DEF EvidenceInv
  <2>8. CASE SkipModel \/ ModelContextTooLarge \/ AskModel
    <3>1. /\ UNCHANGED <<request, provider, revision, runReport, signals, reason>>
          /\ pc = "model" /\ pc' = "evaluate"
      BY <2>8 DEF SkipModel, ModelContextTooLarge, AskModel
    <3>2. (InputsUsable' <=> InputsUsable) /\ (ProviderStands' <=> ProviderStands)
      BY <3>1 DEF InputsUsable, ContextValid, Context, ProviderStands, BackendResults
    <3>3. LinksStand'
      <4>1. LinksStand
        BY <3>1 DEF EvidenceInv
      <4>2. CASE links' = links
        BY <3>1, <4>1, <4>2, EvidenceRead DEF evidence
      <4>3. CASE \E answered \in SUBSET Unmapped : links' = Merged(answered)
        BY <3>1, <4>1, <4>3, LinksMerged
      <4>4. QED
        BY <2>8, <4>2, <4>3 DEF SkipModel, ModelContextTooLarge, AskModel
    <3>4. QED
      BY <3>1, <3>2, <3>3 DEF EvidenceInv
  <2>9. CASE Evaluate
    <3>1. /\ UNCHANGED <<request, provider, revision, runReport, links>>
          /\ pc = "evaluate" /\ pc' \in {"finish", "verify"} /\ reason' # "EVIDENCE_SUFFICIENT"
          /\ (pc' = "verify" => signals' = SignalsOf(links))
      BY <2>9 DEF Evaluate
    <3>2. (InputsUsable' <=> InputsUsable) /\ (ProviderStands' <=> ProviderStands)
      BY <3>1 DEF InputsUsable, ContextValid, Context, ProviderStands, BackendResults
    <3>3. LinksStand' <=> LinksStand
      BY <3>1 DEF LinksStand, LinkStands, SurvivorLink, Survivors, MappedTo, Candidates,
                  AllTests, LinkVerified, Context
    <3>4. SignalsOf(links)' = SignalsOf(links)
      BY <3>1 DEF SignalsOf, Context
    <3>5. QED
      BY <3>1, <3>2, <3>3, <3>4 DEF EvidenceInv
  <2>10. CASE Verify
    <3>1. UNCHANGED evidence /\ pc = "verify" /\ pc' \in {"finish", "gate"}
          /\ reason' # "EVIDENCE_SUFFICIENT"
      BY <2>10 DEF Verify, evidence
    <3>2. QED
      BY <3>1, EvidenceRead DEF EvidenceInv, evidence
  <2>11. CASE Gate
    <3>1. UNCHANGED evidence /\ pc = "gate" /\ pc' = "finish"
          /\ (reason' = "EVIDENCE_SUFFICIENT" => EvidenceSufficient)
      BY <2>11 DEF Gate, evidence
    <3>2. QED
      BY <3>1, EvidenceRead DEF EvidenceInv, evidence
  <2>12. CASE Finish
    <3>1. UNCHANGED <<evidence, runBuilt, reason>> /\ pc = "finish" /\ pc' = "returned"
          /\ assessment'.decision = Decision(GateInput(links, signals))
      BY <2>12 DEF Finish, Assessment, evidence
    <3>2. GateInput(links, signals)' = GateInput(links, signals)
      BY <3>1 DEF GateInput, evidence, ContextValid, Context, OutcomeOf, Statuses
    <3>3. assessment'.decision = Decision(GateInput(links, signals))'
      BY <3>1, <3>2 DEF Decision, InputComplete, QualityFailure, CleanPass, AssessableRun,
                        MissingOracle, ReachesThreshold, VerifiedHighSignal, ValidGateEvidence
    <3>4. QED
      BY <3>1, <3>3, EvidenceRead DEF EvidenceInv, evidence
  <2>13. CASE RaiseFromFinish
    <3>1. UNCHANGED <<evidence, reason, assessment>> /\ pc = "finish" /\ pc' = "raised"
          /\ assessment = NoAssessment /\ reason # "EVIDENCE_SUFFICIENT"
      BY <2>13 DEF RaiseFromFinish, evidence, LoopInv, DecidedLast
    <3>2. QED
      BY <3>1, EvidenceRead DEF EvidenceInv, evidence
  <2>14. CASE World \/ UNCHANGED vars
    <3>1. UNCHANGED <<evidence, pc, runBuilt, reason, assessment>>
      BY <2>14 DEF World, DeadlinePasses, EditRepository, ReplaceReport, Internal, vars, evidence
    <3>2. GateInput(links, signals)' = GateInput(links, signals)
      BY <3>1 DEF GateInput, evidence, ContextValid, Context, OutcomeOf, Statuses
    <3>3. Decision(GateInput(links, signals))' = Decision(GateInput(links, signals))
      BY <3>2 DEF Decision, InputComplete, QualityFailure, CleanPass, AssessableRun,
                  MissingOracle, ReachesThreshold, VerifiedHighSignal, ValidGateEvidence
    <3>4. QED
      BY <3>1, <3>3, EvidenceRead DEF EvidenceInv, evidence, Running, Recorded
  <2>15. QED
    BY <2>1, <2>2, <2>3, <2>4, <2>5, <2>6, <2>7, <2>8, <2>9, <2>10, <2>11, <2>12, <2>13,
       <2>14 DEF Next, Step
<1>3. QED
  BY <1>1, <1>2, TypeCorrect, LoopInvariant, PTL DEF SafetySpec


\* mutmut's run is "complete" only when every mutant was killed or survived,
\* with a test named for it.
LEMMA MutmutComplete ==
  ASSUME NEW r \in MutmutResults, r.observation = "complete",
         NEW m \in Reported(r.results)
  PROVE  r.results[m].outcome \in Eligible /\ r.results[m].tests # {}
<1>1. PICK S \in SUBSET Mutants :
        \E clean \in BOOLEAN, o \in [S -> [status : MutmutStatuses, tests : SUBSET Tests]] :
          r = MutmutResult(clean, o)
  BY DEF MutmutResults
<1>2. PICK clean \in BOOLEAN, o \in [S -> [status : MutmutStatuses, tests : SUBSET Tests]] :
        r = MutmutResult(clean, o)
  BY <1>1
<1> DEFINE entries == [x \in Mutants |-> IF x \in DOMAIN o THEN MutmutEntry(o[x]) ELSE Absent]
           process == MutmutProcess(clean, OutcomesOf(entries))
<1>3. r = Result(process, IF process = "completed" THEN "complete" ELSE "partial",
                 entries, {}, TRUE)
  BY <1>2 DEF MutmutResult
<1> HIDE DEF entries, process
<1>4. r.results = entries /\ process = "completed"
  BY <1>3 DEF Result
<1>5. OutcomesOf(entries) \subseteq Eligible
  BY <1>4 DEF process, MutmutProcess
<1>6. m \in Mutants /\ entries[m].outcome # "absent" /\ entries[m].outcome \in Eligible
  BY <1>4, <1>5 DEF OutcomesOf, Reported
<1>7. m \in S /\ entries[m] = MutmutEntry(o[m])
  BY <1>6 DEF entries, Absent
<1>8. MutmutOutcome(o[m]) \in Eligible
  BY <1>6, <1>7 DEF MutmutEntry
<1>9. o[m].status \in Eligible /\ o[m].tests # {}
  BY <1>8 DEF MutmutOutcome, Eligible
<1>10. entries[m].tests # {}
  <2>1. o[m].status \notin MutmutNotRun
    BY <1>9 DEF MutmutNotRun, Eligible
  <2>2. MutmutEntry(o[m]).tests = o[m].tests
    BY <2>1 DEF MutmutEntry
  <2>3. QED
    BY <1>7, <1>9, <2>2
<1>11. QED
  BY <1>4, <1>6, <1>10

\* Behind a verdict there are usable inputs, sufficient Evidence, a run and
\* links that stand.
LEMMA BehindVerdict ==
  ASSUME TypeOK, LoopInv, EvidenceInv, Verdict
  PROVE  /\ pc = "returned" /\ reason = "EVIDENCE_SUFFICIENT"
         /\ provider.process # "none" /\ runBuilt
         /\ ProviderStands /\ InputsUsable /\ EvidenceSufficient
         /\ LinksStand /\ signals = SignalsOf(links)
         /\ assessment.decision = Decision(GateInput(links, signals))
         /\ InputComplete(GateInput(links, signals))
<1>1. reason = "EVIDENCE_SUFFICIENT" /\ provider.process # "none" /\ runBuilt
  BY DEF LoopInv, DecidedLast
<1>2. assessment # NoAssessment
  BY DEF Verdict, NoAssessment
<1>3. pc = "returned"
  BY <1>2, RecordedValues DEF LoopInv, DecidedLast, EvidenceInv, TypeOK, Labels
<1>4. /\ ProviderStands /\ InputsUsable /\ EvidenceSufficient
      /\ LinksStand /\ signals = SignalsOf(links)
      /\ assessment.decision = Decision(GateInput(links, signals))
  BY <1>1, <1>3 DEF EvidenceInv, ProviderStands
<1>5. InputComplete(GateInput(links, signals))
  BY <1>4, DecisionTyped DEF Verdict
<1>6. QED
  BY <1>1, <1>3, <1>4, <1>5

\* A verdict rests on a complete observation, on verified Evidence of the
\* provider, of the execution and of the assertions, and on the very report
\* whose hash the run carries, accepted for the revision the run carries,
\* whatever is edited during the call.
THEOREM VerdictIsBacked == SafetySpec => []VerdictRestsOnEvidence
<1>1. TypeOK /\ LoopInv /\ EvidenceInv => VerdictRestsOnEvidence
  <2> SUFFICES ASSUME TypeOK, LoopInv, EvidenceInv, Verdict PROVE VerdictRestsOnEvidence
    BY DEF VerdictRestsOnEvidence
  <2>1. /\ ProviderStands /\ InputsUsable /\ EvidenceSufficient /\ provider.process # "none"
    BY BehindVerdict
  <2>2. ContextValid /\ provider.observation = "complete" /\ provider.unverified = {}
    BY <2>1 DEF InputsUsable, EvidenceSufficient
  <2>3. \A e \in Context.execution \union Context.assertion : Context.evidence[e] = "verified"
    <3>1. Context.present
      BY <2>2 DEF ContextValid
    <3>2. /\ {Context.evidence[e] : e \in Context.execution} = {"verified"}
          /\ {Context.evidence[e] : e \in Context.assertion} = {"verified"}
      BY <2>1, <3>1 DEF EvidenceSufficient, Statuses
    <3>3. QED
      BY <3>2
  <2>4. request.report => /\ runReport \in Reports
                          /\ ReportContent[runReport].revision = revision
                          /\ provider = ParseReport(ReportContent[runReport])
    BY <2>1 DEF ProviderStands, ReportAccepted
  <2>5. request.backend = "mutmut" => provider \in MutmutResults
    BY <2>1 DEF ProviderStands, InputsUsable, BackendResults
  <2>6. request.backend = "mutmut" =>
          \A m \in Reported(provider.results) :
            provider.results[m].outcome \in Eligible /\ provider.results[m].tests # {}
    BY <2>2, <2>5, MutmutComplete
  <2>7. QED
    BY <2>2, <2>3, <2>4, <2>6 DEF VerdictRestsOnEvidence
<1>2. QED
  BY <1>1, TypeCorrect, LoopInvariant, EvidenceInvariant, PTL

\* Equal answers to the gate's three questions give equal decisions.
LEMMA SameDecision ==
  ASSUME NEW x, NEW y,
         InputComplete(x) <=> InputComplete(y),
         QualityFailure(x) <=> QualityFailure(y),
         CleanPass(x) <=> CleanPass(y)
  PROVE  Decision(x) = Decision(y)
<1>1. QualityFailure(x) => InputComplete(x) /\ ~ CleanPass(x)
  BY DEF QualityFailure, CleanPass
<1>2. CASE ~ InputComplete(x)
  <2>1. Decision(x) = "incomplete" /\ Decision(y) = "incomplete"
    BY <1>2 DEF Decision, QualityFailure, CleanPass
  <2>2. QED
    BY <2>1
<1>3. CASE QualityFailure(x)
  <2>1. Decision(x) = "fail" /\ Decision(y) = "fail"
    BY <1>1, <1>3 DEF Decision
  <2>2. QED
    BY <2>1
<1>4. CASE CleanPass(x) /\ ~ QualityFailure(x) /\ InputComplete(x)
  <2>1. Decision(x) = "pass" /\ Decision(y) = "pass"
    BY <1>4 DEF Decision
  <2>2. QED
    BY <2>1
<1>5. CASE InputComplete(x) /\ ~ QualityFailure(x) /\ ~ CleanPass(x)
  <2>1. Decision(x) = "warn" /\ Decision(y) = "warn"
    BY <1>5 DEF Decision
  <2>2. QED
    BY <2>1
<1>6. QED
  BY <1>2, <1>3, <1>4, <1>5

\* The model mapper does not change the decision: it is the one that the
\* deterministic links alone give, whatever the model answers.
THEOREM ModelIsHarmless == SafetySpec => []ModelNeverDecides
<1>1. EvidenceInv => ModelNeverDecides
  <2> SUFFICES ASSUME EvidenceInv, pc = "returned", reason # "none"
               PROVE  Decision(GateInput(links, signals))
                        = Decision(GateInput(SurvivorLinks, SignalsOf(SurvivorLinks)))
    BY DEF ModelNeverDecides, EvidenceInv
  <2> DEFINE x == GateInput(links, signals)
             y == GateInput(SurvivorLinks, SignalsOf(SurvivorLinks))
  <2>1. /\ x.contextValid = y.contextValid /\ x.hasRun = y.hasRun /\ x.process = y.process
        /\ x.observation = y.observation /\ x.score = y.score /\ x.threshold = y.threshold
        /\ x.execution = y.execution /\ x.assertion = y.assertion /\ x.reason = y.reason
        /\ x.reason = reason /\ x.signals = signals /\ y.signals = SignalsOf(SurvivorLinks)
        /\ x.links = {links[m] : m \in Mutants} \ {"none"}
        /\ y.links = {SurvivorLinks[m] : m \in Mutants} \ {"none"}
    BY DEF GateInput
  <2> HIDE DEF x, y
  <2>2. CASE reason # "EVIDENCE_SUFFICIENT"
    <3>1. ~ InputComplete(x) /\ ~ InputComplete(y)
      BY <2>1, <2>2 DEF InputComplete
    <3>2. QED
      BY <3>1, SameDecision DEF x, y, QualityFailure, CleanPass
  <2>3. CASE reason = "EVIDENCE_SUFFICIENT"
    <3>1. LinksStand /\ x.signals = SignalsOf(links)
      BY <2>1, <2>3 DEF EvidenceInv
    <3>2. MissingOracle(x) <=> MissingOracle(y)
      BY <2>1, <3>1 DEF MissingOracle, SignalsOf, Signal
    <3>3. VerifiedHighSignal(x) <=> VerifiedHighSignal(y)
      BY <2>1, <3>1 DEF VerifiedHighSignal, SignalsOf, Signal
    <3>4. x.links \subseteq {"verified"} <=> y.links \subseteq {"verified"}
      <4>1. \A m \in Mutants : /\ SurvivorLinks[m] = SurvivorLink(m)
                               /\ links[m] \in {"none", "verified"}
                                    <=> SurvivorLink(m) \in {"none", "verified"}
        BY <3>1 DEF LinksStand, LinkStands, SurvivorLinks
      <4>2. x.links \subseteq {"verified"}
              <=> \A m \in Mutants : links[m] \in {"none", "verified"}
        BY <2>1
      <4>3. y.links \subseteq {"verified"}
              <=> \A m \in Mutants : SurvivorLink(m) \in {"none", "verified"}
        BY <2>1, <4>1
      <4>4. QED
        BY <4>1, <4>2, <4>3
    <3>5. /\ InputComplete(x) <=> InputComplete(y)
          /\ QualityFailure(x) <=> QualityFailure(y)
          /\ CleanPass(x) <=> CleanPass(y)
      BY <2>1, <3>2, <3>3, <3>4 DEF InputComplete, QualityFailure, CleanPass, AssessableRun
    <3>6. QED
      BY <3>5, SameDecision DEF x, y
  <2>4. QED
    BY <2>2, <2>3
<1>2. QED
  BY <1>1, EvidenceInvariant, PTL

\* A threshold, given or not, is an integer.
LEMMA ThresholdsAreInts ==
  ASSUME NEW t \in NoThreshold .. ThresholdScale
  PROVE  t \in Int
OBVIOUS

\* A rounded score that reaches a threshold: the exact rate is at most half a
\* unit of the fourth decimal below it.
LEMMA ReachedRate ==
  ASSUME NEW k \in Nat, NEW e \in Nat \ {0}, NEW t \in Int,
         NEW score, score.score = HalfUp(k, e), ReachesThreshold(score, t)
  PROVE  k * ThresholdScale + (ThresholdScale \div (2 * Quantum)) * e >= t * e
<1> DEFINE a == 2 * k * Quantum + e
           b == 2 * e
           h == a \div b
           p == h * e
<1>1. a \in Nat /\ b \in Nat \ {0}
  BY DEF Quantum
<1>2. h \in Nat /\ b * h <= a
  <2> HIDE DEF a, b
  <2>1. a = b * (a \div b) + (a % b) /\ a % b \in 0 .. b - 1 /\ a \div b \in Nat
    BY <1>1
  <2>2. QED
    BY <1>1, <2>1
<1>3. ThresholdScale = 100000 /\ ThresholdScale \div Quantum = 10
      /\ ThresholdScale \div (2 * Quantum) = 5
  BY SMT DEF ThresholdScale, Quantum
<1>4. t <= h * 10
  <2>1. HalfUp(k, e) = h
    BY DEF HalfUp
  <2>2. score.score * 10 >= t
    BY <1>3 DEF ReachesThreshold
  <2> HIDE DEF h
  <2>3. QED
    BY <1>2, <2>1, <2>2
<1> HIDE DEF h
<1>5. p \in Nat /\ 2 * p <= 20000 * k + e
  <2>1. b * h = 2 * p /\ a = 20000 * k + e
    BY <1>2 DEF Quantum
  <2>2. QED
    BY <1>2, <2>1
<1>6. t * e <= 10 * p
  <2>1. \A x, y \in Int : \A z \in Nat : x <= y => x * z <= y * z
    OBVIOUS
  <2>2. t * e <= (h * 10) * e
    BY <1>2, <1>4, <2>1
  <2>3. (h * 10) * e = 10 * p
    BY <1>2
  <2>4. QED
    BY <2>2, <2>3
<1> HIDE DEF p
<1> DEFINE q == t * e
<1>7. q \in Int
  OBVIOUS
<1>8. k * 100000 + 5 * e >= q
  <2> HIDE DEF q
  <2>1. q <= 10 * p
    BY <1>6 DEF q
  <2>2. QED
    BY <1>5, <1>7, <2>1, SMT
<1>9. QED
  BY <1>3, <1>8, SMT DEF q

\* The score that _finish hands to the gate counts the outcomes of the run.
LEMMA ScoreCounts ==
  ASSUME TypeOK, runBuilt
  PROVE  LET score == ScoreResults(OutcomeOf(IF runBuilt THEN provider ELSE NoResult))
         IN  /\ score = Score(CountOf("killed"), CountOf("survived"), CountOf("timeout"),
                              CountOf("error"), CountOf("not_run"))
             /\ \A o \in Outcomes :
                  /\ CountOf(o) \in Nat
                  /\ CountOf(o) = 0 <=> \A m \in Mutants : provider.results[m].outcome # o
<1> DEFINE outcome == OutcomeOf(IF runBuilt THEN provider ELSE NoResult)
<1>1. outcome = [m \in Mutants |-> provider.results[m].outcome]
  BY DEF OutcomeOf
<1>2. \A o : {m \in DOMAIN outcome : outcome[m] = o}
               = {m \in Mutants : provider.results[m].outcome = o}
  BY <1>1
<1> HIDE DEF outcome
<1>3. ScoreResults(outcome) = Score(CountOf("killed"), CountOf("survived"), CountOf("timeout"),
                                    CountOf("error"), CountOf("not_run"))
  BY <1>2 DEF ScoreResults, CountOf
<1>4. ASSUME NEW o
      PROVE  /\ CountOf(o) \in Nat
             /\ CountOf(o) = 0 <=> \A m \in Mutants : provider.results[m].outcome # o
  <2> DEFINE S == {m \in Mutants : provider.results[m].outcome = o}
  <2>1. IsFiniteSet(S)
    BY MutantsFinite, FS_Subset
  <2>2. Cardinality(S) \in Nat /\ (Cardinality(S) = 0 <=> S = {})
    BY <2>1, FS_CardinalityType, FS_EmptySet
  <2>3. CountOf(o) = Cardinality(S)
    BY DEF CountOf
  <2>4. QED
    BY <2>2, <2>3
<1>5. QED
  BY <1>3, <1>4 DEF outcome

\* A survivor that is linked verified ran against the tests of one scenario.
LEMMA VerifiedIsMapped ==
  ASSUME NEW m, SurvivorLink(m) = "verified"
  PROVE  Cardinality(Candidates(provider.results[m])) = 1
<1>1. MappedTo(m) # {}
  BY DEF SurvivorLink
<1>2. PICK s : Candidates(provider.results[m]) = {s}
  BY <1>1 DEF MappedTo
<1>3. QED
  BY <1>2, FS_Singleton

\* A pass is clean: every reported mutant was killed or survived, the exact
\* kill rate reaches the threshold but for the rounding, and every survivor is
\* verified against one scenario with an oracle, whatever the provider says of
\* its process and whatever a model answered.
THEOREM PassIsClean == SafetySpec => []PassMeansClean
<1>1. TypeOK /\ LoopInv /\ EvidenceInv => PassMeansClean
  <2> SUFFICES ASSUME TypeOK, LoopInv, EvidenceInv, assessment.decision = "pass"
               PROVE  PassMeansClean
    BY DEF PassMeansClean
  <2> DEFINE x == GateInput(links, signals)
             score == ScoreResults(OutcomeOf(IF runBuilt THEN provider ELSE NoResult))
             k == CountOf("killed")
             s == CountOf("survived")
  <2>1. Verdict
    BY DEF Verdict
  <2>2. /\ runBuilt /\ LinksStand /\ signals = SignalsOf(links)
        /\ Decision(x) = "pass" /\ InputComplete(x)
    BY <2>1, BehindVerdict
  <2>3. /\ x.score = score /\ x.threshold = request.threshold /\ x.signals = signals
        /\ x.links = {links[m] : m \in Mutants} \ {"none"}
    BY DEF GateInput
  <2>4. /\ score = Score(k, s, CountOf("timeout"), CountOf("error"), CountOf("not_run"))
        /\ \A o \in Outcomes :
             /\ CountOf(o) \in Nat
             /\ CountOf(o) = 0 <=> \A m \in Mutants : provider.results[m].outcome # o
    BY <2>2, ScoreCounts
  <2> HIDE DEF x, score, k, s
  <2>5. CleanPass(x) /\ ~ MissingOracle(x)
    BY <2>2 DEF Decision, QualityFailure, InputComplete
  <2>6. /\ score.eligible = k + s /\ score.killed = k /\ score.timeout = CountOf("timeout")
        /\ score.error = CountOf("error") /\ score.not_run = CountOf("not_run")
        /\ k + s # 0 => score.score = HalfUp(k, k + s)
    BY <2>4 DEF Score
  <2>7. /\ k + s > 0 /\ k \in Nat /\ s \in Nat
        /\ CountOf("timeout") = 0 /\ CountOf("error") = 0 /\ CountOf("not_run") = 0
        /\ ReachesThreshold(score, request.threshold)
        /\ x.links \subseteq {"verified"}
    BY <2>3, <2>4, <2>5, <2>6 DEF CleanPass, InputComplete, Outcomes, k, s
  <2>8. \A m \in Mutants : provider.results[m].outcome \in Eligible \union {"absent"}
    BY <2>4, <2>7 DEF TypeOK, ResultType, Outcomes, Eligible
  <2>9. OutcomesOf(provider.results) \subseteq Eligible
    BY <2>8 DEF OutcomesOf, Reported
  <2>10. Reported(provider.results) # {}
    <3>1. k # 0 \/ s # 0
      BY <2>7
    <3>2. \E m \in Mutants : provider.results[m].outcome \in {"killed", "survived"}
      BY <2>4, <3>1 DEF Outcomes, k, s
    <3>3. QED
      BY <3>2 DEF Reported
  <2>11. k * ThresholdScale + (ThresholdScale \div (2 * Quantum)) * (k + s)
           >= request.threshold * (k + s)
    <3>1. request.threshold \in Int
      <4>1. request.threshold \in NoThreshold .. ThresholdScale
        BY RequestsTyped DEF TypeOK, RequestType
      <4>2. QED
        BY <4>1, ThresholdsAreInts
    <3>2. k + s \in Nat \ {0} /\ score.score = HalfUp(k, k + s)
      BY <2>6, <2>7
    <3>3. QED
      BY <2>7, <3>1, <3>2, ReachedRate
  <2>12. ASSUME NEW m \in Survivors
         PROVE  Cardinality(Candidates(provider.results[m])) = 1 /\ SurvivorLink(m) = "verified"
    <3>1. m \in Mutants /\ SurvivorLink(m) \in {"verified", "unverified", "unmapped"}
      BY DEF Survivors, SurvivorLink
    <3>2. links[m] \in {"none", "verified"}
      BY <2>3, <2>7, <3>1
    <3>3. SurvivorLink(m) = "verified"
      BY <2>2, <3>1, <3>2 DEF LinksStand, LinkStands
    <3>4. QED
      BY <3>3, VerifiedIsMapped
  <2>13. \A i \in Intents : Context.intents[i].observable /\ Context.intents[i].oracle
    <3>1. SUFFICES ASSUME NEW i \in Intents,
                          ~ (Context.intents[i].observable /\ Context.intents[i].oracle)
                   PROVE  FALSE
      OBVIOUS
    <3>2. Signal("oracle_missing", "high", TRUE) \in SignalsOf(links)
      BY <3>1 DEF SignalsOf
    <3>3. MissingOracle(x)
      BY <2>2, <2>3, <3>2 DEF MissingOracle, Signal
    <3>4. QED
      BY <2>5, <3>3
  <2>14. QED
    BY <2>9, <2>10, <2>11, <2>12, <2>13, Zenon DEF PassMeansClean, k, s
<1>2. QED
  BY <1>1, TypeCorrect, LoopInvariant, EvidenceInvariant, PTL


-----------------------------------------------------------------------------
(***************************************************************************)
(* The deadline.                                                           *)
(***************************************************************************)

\* The deadline has passed and the last clock check is not behind the call, or
\* the call has been ended for another reason.
Late == expired /\ pc \notin {"verify", "gate"} /\ reason # "EVIDENCE_SUFFICIENT"

\* A late call stays late.
LEMMA LateStays ==
  ASSUME TypeOK, LoopInv, Late, [Next]_vars
  PROVE  Late'
<1> USE RecordedValues DEF Goto, Stop, loop, data, found
<1>0. expired /\ pc \notin {"verify", "gate"} /\ reason # "EVIDENCE_SUFFICIENT"
      /\ (Running => reason = "none")
  BY AtLabel DEF Late
<1>1. CASE RaiseFromName \/ RejectBudget
  BY <1>0, <1>1 DEF Late, RaiseFromName, RejectBudget, ReturnIncomplete
<1>2. CASE Understand
  BY <1>0, <1>2 DEF Late, Understand, ReturnIncomplete
<1>3. CASE Select \/ Mutate
  BY <1>0, <1>3 DEF Late, Select, Mutate
<1>4. CASE Resolve
  BY <1>0, <1>4 DEF Late, Resolve, Fail
<1>5. CASE AcquireReport
  BY <1>0, <1>5 DEF Late, AcquireReport, Fail, Provide
<1>6. CASE AcquireBackend
  BY <1>0, <1>6 DEF Late, AcquireBackend, Fail, Provide
<1>7. CASE Observe \/ RaiseFromObserve
  BY <1>0, <1>7 DEF Late, Observe, RaiseFromObserve
<1>8. CASE Map
  BY <1>0, <1>8 DEF Late, Map
<1>9. CASE SkipModel \/ ModelContextTooLarge \/ AskModel
  BY <1>0, <1>9 DEF Late, SkipModel, ModelContextTooLarge, AskModel
<1>10. CASE Evaluate
  BY <1>0, <1>10 DEF Late, Evaluate
<1>11. CASE Verify \/ Gate
  BY <1>0, <1>11 DEF Verify, Gate
<1>12. CASE Finish \/ RaiseFromFinish
  BY <1>0, <1>12 DEF Late, Finish, RaiseFromFinish
<1>13. CASE World \/ UNCHANGED vars
  BY <1>0, <1>13 DEF Late, World, DeadlinePasses, EditRepository, ReplaceReport, Internal, vars
<1>14. QED
  BY <1>1, <1>2, <1>3, <1>4, <1>5, <1>6, <1>7, <1>8, <1>9, <1>10, <1>11, <1>12, <1>13
     DEF Next, Step

\* A call whose deadline passes before its last clock check never reaches a
\* verdict, neither then nor later.
THEOREM DeadlineHolds == SafetySpec => PastDeadlineNoVerdict
<1> DEFINE P == expired /\ pc \notin {"verify", "gate", "finish", "returned"}
<1>1. TypeOK /\ LoopInv /\ EvidenceInv /\ P => Late
  <2> SUFFICES ASSUME TypeOK, LoopInv, EvidenceInv, P PROVE Late
    OBVIOUS
  <2>1. CASE Running
    BY <2>1, AtLabel DEF Late
  <2>2. CASE pc = "raised"
    BY <2>2 DEF Late, EvidenceInv
  <2>3. QED
    BY <2>1, <2>2, RecordedValues DEF TypeOK, Labels
<1>2. TypeOK /\ LoopInv /\ Late /\ [Next]_vars => Late'
  BY LateStays
<1>3. LoopInv /\ Late => ~ Verdict
  BY DEF LoopInv, DecidedLast, Late
<1>4. QED
  BY <1>1, <1>2, <1>3, TypeCorrect, LoopInvariant, EvidenceInvariant, PTL
     DEF SafetySpec, PastDeadlineNoVerdict

=============================================================================
