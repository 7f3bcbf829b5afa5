------------------------ MODULE EffectivenessService ------------------------
(***************************************************************************)
(* One call of TestEffectivenessService.assess (effectiveness_service.py): *)
(* a loop of eight fixed phases under an ExecutionBudget, a wall clock     *)
(* that may run out between any two steps, a mutation provider that may    *)
(* fail in every way the code distinguishes, an optional model that may    *)
(* relabel survivors, and _finish, which asks the Mutation Gate for the    *)
(* decision.                                                               *)
(*                                                                         *)
(* Meanwhile other programs may commit to the repository or replace the    *)
(* report file.  What _finish then writes to the trace store is the        *)
(* subject of AssessmentPersistence.                                       *)
(***************************************************************************)
EXTENDS MutationProviders, Sequences

CONSTANTS
  Scenarios, Intents, CtxEvidence,  \* identities inside a test context
  Revisions,                        \* repository revisions
  Reports, ReportContent,           \* report files, by hash, and their content
  Requests,                         \* the requests that may be made
  InjectedResults,                  \* results a test double backend may return
  MaxEdits                          \* bound on concurrent edits in one call

EvidenceStatuses == {"verified", "unverified", "invalid"}

\* present is FALSE for request.context = None, matches says that
\* context.requirement_id is the requested one.
ContextType ==
  [present   : BOOLEAN,
   matches   : BOOLEAN,
   scenarios : [Scenarios -> [tests : SUBSET Tests, intent : Intents,
                              oracle : BOOLEAN, evidence : SUBSET CtxEvidence]],
   intents   : [Intents -> [oracle : BOOLEAN, observable : BOOLEAN,
                            evidence : SUBSET CtxEvidence]],
   evidence  : [CtxEvidence -> EvidenceStatuses],
   execution : SUBSET CtxEvidence,
   assertion : SUBSET CtxEvidence]

RequestType ==
  [budget    : [valid : BOOLEAN, iterations : Nat, tools : Nat, models : Nat],
   context   : ContextType,
   report    : BOOLEAN,                          \* mutation_report given
   backend   : {"none", "mutmut", "injected"},
   threshold : NoThreshold .. ThresholdScale,          \* NoThreshold is -1
   mapper    : BOOLEAN,                          \* a model_mapper is injected
   store     : BOOLEAN]                          \* a trace store is attached

ResultType ==
  [process     : ProcessStatuses \union {"none"},
   observation : ObservationStatuses \union {"none"},
   results     : [Mutants -> [outcome : Outcomes \union {"absent"},
                              tests   : SUBSET Tests]],
   unverified  : SUBSET Mutants,
   inScope     : BOOLEAN]

ReportType ==
  [form        : ReportForms,
   revision    : Revisions,
   observation : {"complete", "partial"},
   entries     : [Mutants -> [outcome  : Outcomes \union {"absent"},
                              executed : SUBSET Tests,
                              killing  : SUBSET Tests]],
   selected    : SUBSET Tests,
   inScope     : BOOLEAN]

ASSUME MutantsFinite  == IsFiniteSet(Mutants)
ASSUME RequestsTyped  == Requests \subseteq RequestType
ASSUME ReportsTyped   == ReportContent \in [Reports -> ReportType]
ASSUME InjectedTyped  ==
  InjectedResults \subseteq {r \in ResultType : r.process # "none"}
ASSUME NoneIsNoReport == "none" \notin Reports /\ "none" \notin Revisions
ASSUME EditsBounded   == MaxEdits \in Nat

VARIABLES
  request,        \* the TestEffectivenessRequest, fixed for the call
  head,           \* the revision the repository is at
  reportFile,     \* the report that the report path holds
  edits,          \* concurrent edits so far, at most MaxEdits
  expired,        \* has the monotonic clock passed timeout_seconds
  pc,             \* where the call is
  traces,         \* the LoopTrace list
  toolCalls, modelCalls,
  mapperCalls,    \* invocations of the model mapper
  agentEvidence,  \* actions with a permission Evidence record
  idReport,       \* the report whose hash went into assessment_id
  revision,       \* repository_revision, once resolved
  runReport,      \* the report whose hash provider_result carries
  provider,       \* provider_result
  providerSaved,  \* provider_evidence is not empty
  runBuilt,       \* is run a MutationRun
  links,          \* mapping status of each survivor's link, "none" without
  signals,
  reason,         \* termination reason handed to _finish
  rows,           \* are mutants and results handed to _finish
  assessment      \* what assess returns

env   == <<request, head, reportFile, edits>>
data  == <<idReport, revision, runReport, provider, providerSaved>>
loop  == <<traces, toolCalls, modelCalls, mapperCalls, agentEvidence>>
found == <<runBuilt, links, signals>>
vars  == <<env, expired, pc, loop, data, found, reason, rows, assessment>>

-----------------------------------------------------------------------------
(***************************************************************************)
(* Budgets, phases and the ways to leave the loop.                         *)
(***************************************************************************)

Phases == <<"UNDERSTAND", "SELECT", "MUTATE", "OBSERVE",
            "MAP", "EVALUATE", "VERIFY", "GATE">>

Trace(phase, status, permission) ==
  [phase |-> phase, status |-> status, permission |-> permission]

\* Mutants: a limit compared one too early, or one too late.
CanRecordEarly  == Len(traces) + 1 < request.budget.iterations
CanUseToolEarly == toolCalls + 1 < request.budget.tools
CanUseToolLate  == toolCalls <= request.budget.tools

CanRecord  == Len(traces) < request.budget.iterations
CanUseTool == toolCalls < request.budget.tools

\* Mutant: a phase is recorded twice.
RecordTwice(phase, permission) ==
  traces' = traces \o [i \in 1 .. 2 |-> Trace(phase, "completed", permission)]

Record(phase, permission) ==
  traces' = Append(traces, Trace(phase, "completed", permission))

\* traces[-1] = replace(traces[-1], status = "terminated", ...)
TerminateLast ==
  traces' = [traces EXCEPT ![Len(traces)].status = "terminated"]

Goto(label) == pc' = label /\ UNCHANGED <<reason, rows, assessment>>

\* Leave the loop for _finish, with or without mutants and results.
Stop(why, keep) ==
  /\ pc' = "finish"
  /\ reason' = why
  /\ rows' = keep
  /\ UNCHANGED assessment

Assessment(why, decision, keep) ==
  [reason |-> why, decision |-> decision, hasRun |-> runBuilt, rows |-> keep]

NoAssessment == [reason |-> "none", decision |-> "none",
                 hasRun |-> FALSE, rows |-> FALSE]

-----------------------------------------------------------------------------
(***************************************************************************)
(* What the code computes from the request and the provider's result.      *)
(***************************************************************************)

Context == request.context

ContextValid ==
  /\ Context.present /\ Context.matches
  /\ \A e \in CtxEvidence : Context.evidence[e] # "invalid"
  /\ Context.execution # {} /\ Context.assertion # {}

\* Exactly one of mutation_report and backend.
InputsUsable ==
  /\ ContextValid
  /\ request.threshold # NoThreshold
  /\ request.report <=> request.backend = "none"

Statuses(ids) ==
  IF Context.present THEN {Context.evidence[e] : e \in ids} ELSE {}

AllTests == UNION {Context.scenarios[s].tests : s \in Scenarios}

\* The scenarios whose tests ran against a survivor.
Candidates(result) ==
  LET ran == IF result.tests = {} THEN AllTests ELSE result.tests
  IN  {s \in Scenarios : Context.scenarios[s].tests \cap ran # {}}

LinkVerified(m, s) ==
  LET scenario == Context.scenarios[s]
      intent   == Context.intents[scenario.intent]
  IN  /\ scenario.oracle /\ intent.oracle
      /\ m \notin provider.unverified
      /\ \A e \in scenario.evidence \union intent.evidence :
           Context.evidence[e] = "verified"

\* _map_survivors: a link is mapped when there is exactly one candidate.
Survivors == {m \in Mutants : provider.results[m].outcome = "survived"}

\* Mutant: any one of several candidates will do.
MappedToAny(m) ==
  {s \in Scenarios : s \in Candidates(provider.results[m])
                      /\ s = CHOOSE t \in Candidates(provider.results[m]) : TRUE}

MappedTo(m) == {s \in Scenarios : Candidates(provider.results[m]) = {s}}

SurvivorLink(m) ==
  CASE m \notin Survivors                        -> "none"
    [] m \in Survivors /\ MappedTo(m) = {}       -> "unmapped"
    [] \E s \in MappedTo(m) : m \in Survivors /\ LinkVerified(m, s) -> "verified"
    [] OTHER                                     -> "unverified"

SurvivorLinks == [m \in Mutants |-> SurvivorLink(m)]

Signal(kind, severity, verified) ==
  [kind |-> kind, severity |-> severity, verified |-> verified]

\* _signals
SignalsOf(linkOf) ==
  {Signal("oracle_missing", "high", TRUE) :
     i \in {j \in Intents : ~ (Context.intents[j].observable /\ Context.intents[j].oracle)}}
  \union
  {Signal("mutation_survivor", "medium", linkOf[m] = "verified") :
     m \in {n \in Mutants : linkOf[n] # "none"}}

OutcomeOf(result) == [m \in Mutants |-> result.results[m].outcome]

\* The arguments of evaluate_mutation_gate in _finish.
GateInput(linkOf, signalSet) ==
  [contextValid |-> ContextValid,
   hasRun       |-> runBuilt,
   process      |-> provider.process,
   observation  |-> provider.observation,
   score        |-> ScoreResults(OutcomeOf(IF runBuilt THEN provider ELSE NoResult)),
   links        |-> {linkOf[m] : m \in Mutants} \ {"none"},
   signals      |-> signalSet,
   threshold    |-> request.threshold,
   execution    |-> Statuses(Context.execution),
   assertion    |-> Statuses(Context.assertion),
   reason       |-> reason]

EvidenceSufficient ==
  /\ provider.observation = "complete"
  /\ provider.process \in {"completed", "partial"}
  /\ Statuses(Context.execution) = {"verified"}
  /\ Statuses(Context.assertion) = {"verified"}
  /\ provider.unverified = {}

-----------------------------------------------------------------------------
(***************************************************************************)
(* The call, one action per phase or per step between two clock checks.    *)
(***************************************************************************)

Init ==
  /\ request \in Requests /\ head \in Revisions /\ reportFile \in Reports
  /\ edits = 0 /\ expired = FALSE /\ pc = "start"
  /\ traces = <<>> /\ toolCalls = 0 /\ modelCalls = 0 /\ mapperCalls = 0
  /\ agentEvidence = {}
  /\ idReport = "none" /\ revision = "none" /\ runReport = "none"
  /\ provider = NoResult /\ providerSaved = FALSE
  /\ runBuilt = FALSE /\ links = [m \in Mutants |-> "none"] /\ signals = {}
  /\ reason = "none" /\ rows = FALSE /\ assessment = NoAssessment

\* _incomplete: an assessment that is returned without going through _finish.
ReturnIncomplete(why) ==
  /\ pc' = "returned"
  /\ assessment' = Assessment(why, "incomplete", FALSE)
  /\ UNCHANGED <<reason, rows>>

FormNow == ReportContent[reportFile].form

Unreadable == request.report /\ FormNow = "unreadable"

\* _assessment_id hashes the report file as it is now, outside any try block.
NameAssessment ==
  /\ ~ Unreadable
  /\ idReport' = IF request.report /\ FormNow # "missing" THEN reportFile ELSE "none"

RaiseFromName ==
  /\ pc = "start" /\ Unreadable
  /\ pc' = "raised"
  /\ UNCHANGED <<env, expired, loop, data, found, reason, rows, assessment>>

RejectBudget ==
  /\ pc = "start" /\ ~ request.budget.valid
  /\ NameAssessment
  /\ ReturnIncomplete("ERROR")
  /\ UNCHANGED <<env, expired, loop, revision, runReport, provider, providerSaved, found>>

Understand ==
  /\ pc = "start" /\ request.budget.valid
  /\ NameAssessment
  /\ \/ /\ ~ CanRecord
        /\ ReturnIncomplete("BUDGET_EXHAUSTED")
        /\ UNCHANGED traces
     \/ /\ CanRecord /\ ~ InputsUsable
        /\ traces' = <<Trace("UNDERSTAND", "terminated", "none")>>
        /\ Stop("INSUFFICIENT_EVIDENCE", FALSE)
     \/ /\ CanRecord /\ InputsUsable
        /\ Record("UNDERSTAND", "none")
        /\ Goto("select")
  /\ UNCHANGED <<env, expired, toolCalls, modelCalls, mapperCalls, agentEvidence,
                 revision, runReport, provider, providerSaved, found>>

\* Mutant: the permission costs no tool call.
PermittedFree(action, phase) ==
  /\ agentEvidence' = agentEvidence \union {action}
  /\ UNCHANGED toolCalls
  /\ IF CanUseTool /\ CanRecord THEN Record(phase, action) ELSE UNCHANGED traces

\* Permission Evidence, then consume_tool, then record_phase.
Permitted(action, phase) ==
  /\ agentEvidence' = agentEvidence \union {action}
  /\ toolCalls' = IF CanUseTool THEN toolCalls + 1 ELSE toolCalls
  /\ IF CanUseTool /\ CanRecord THEN Record(phase, action) ELSE UNCHANGED traces

Select ==
  /\ pc = "select"
  /\ Permitted("READ", "SELECT")
  /\ \/ ~ (CanUseTool /\ CanRecord) /\ Stop("BUDGET_EXHAUSTED", FALSE)
     \/ CanUseTool /\ CanRecord /\ expired /\ Stop("TIMEOUT", FALSE)
     \/ CanUseTool /\ CanRecord /\ ~ expired /\ Goto("mutate")
  /\ UNCHANGED <<env, expired, modelCalls, mapperCalls, data, found>>

Mutate ==
  /\ pc = "mutate"
  /\ Permitted("EXECUTE_MUTATION", "MUTATE")
  /\ \/ ~ (CanUseTool /\ CanRecord) /\ Stop("BUDGET_EXHAUSTED", FALSE)
     \/ CanUseTool /\ CanRecord /\ Goto("resolve")
  /\ UNCHANGED <<env, expired, modelCalls, mapperCalls, data, found>>

\* Mutant: a failure of the provider is retried, as often as it happens.
Retry(why) == pc' = "resolve" /\ UNCHANGED <<traces, reason, rows, assessment>>

\* An exception inside the try block, typed or not.
Fail(why) == TerminateLast /\ Stop(why, FALSE)

\* resolve_repository_revision; `git rev-parse` that takes over ten seconds
\* raises TimeoutExpired, which is neither an OSError nor a ValueError.
Resolve ==
  /\ pc = "resolve"
  /\ \/ /\ revision' = head
        /\ UNCHANGED traces
        /\ IF expired THEN Stop("TIMEOUT", FALSE) ELSE Goto("acquire")
     \/ Fail("INSUFFICIENT_EVIDENCE") /\ UNCHANGED revision
     \/ Fail("ERROR") /\ UNCHANGED revision
  /\ UNCHANGED <<env, expired, toolCalls, modelCalls, mapperCalls, agentEvidence,
                 idReport, runReport, provider, providerSaved, found>>

\* Mutant: the run carries the hash taken at the start of the call.
ProvideFirstHash(result, from) ==
  /\ provider' = result
  /\ runReport' = idReport
  /\ Goto("observe")
  /\ UNCHANGED <<traces, providerSaved>>

\* A provider's result, with the hash of the report it comes from.
Provide(result, from) ==
  /\ provider' = result
  /\ runReport' = from
  /\ Goto("observe")
  /\ UNCHANGED <<traces, providerSaved>>

NoProvider == UNCHANGED <<provider, runReport, providerSaved>>

AcquireReport ==
  /\ pc = "acquire" /\ request.report
  /\ \/ /\ ~ CanUseTool
        /\ Stop("BUDGET_EXHAUSTED", FALSE) /\ NoProvider /\ UNCHANGED <<toolCalls, traces>>
     \/ /\ CanUseTool /\ toolCalls' = toolCalls + 1
        /\ ReportAccepted(ReportContent[reportFile], revision)
        /\ Provide(ParseReport(ReportContent[reportFile]), reportFile)
     \/ /\ CanUseTool /\ toolCalls' = toolCalls + 1
        /\ ~ ReportAccepted(ReportContent[reportFile], revision)
        /\ Fail(IF FormNow = "unparsable" THEN "ERROR" ELSE "INSUFFICIENT_EVIDENCE")
        /\ NoProvider
  /\ UNCHANGED <<env, expired, modelCalls, mapperCalls, agentEvidence,
                 idReport, revision, found>>

BackendResults ==
  IF request.backend = "mutmut" THEN MutmutResults ELSE InjectedResults

AcquireBackend ==
  /\ pc = "acquire" /\ ~ request.report
  /\ \/ /\ providerSaved' = TRUE          \* capability.status is not "available"
        /\ Stop("INSUFFICIENT_EVIDENCE", FALSE)
        /\ UNCHANGED <<toolCalls, traces, provider, runReport>>
     \/ /\ ~ CanUseTool
        /\ Stop("BUDGET_EXHAUSTED", FALSE) /\ NoProvider /\ UNCHANGED <<toolCalls, traces>>
     \/ /\ request.backend = "injected"   \* its detect raises
        /\ \E why \in {"INSUFFICIENT_EVIDENCE", "ERROR"} : Fail(why)
        /\ NoProvider /\ UNCHANGED toolCalls
     \/ /\ CanUseTool /\ toolCalls' = toolCalls + 1
        /\ \/ \E result \in BackendResults : Provide(result, "none")
           \/ \E why \in {"INSUFFICIENT_EVIDENCE", "ERROR"} : Fail(why) /\ NoProvider
  /\ UNCHANGED <<env, expired, modelCalls, mapperCalls, agentEvidence,
                 idReport, revision, found>>

Observe ==
  /\ pc = "observe"
  /\ providerSaved' = TRUE
  /\ \/ expired /\ Stop("TIMEOUT", FALSE) /\ UNCHANGED <<traces, runBuilt>>
     \/ /\ ~ expired /\ ~ CanRecord
        /\ Stop("BUDGET_EXHAUSTED", FALSE) /\ UNCHANGED <<traces, runBuilt>>
     \/ /\ ~ expired /\ CanRecord
        /\ Record("OBSERVE", "none")
        /\ IF request.report /\ ~ provider.inScope
           THEN Stop("INSUFFICIENT_EVIDENCE", FALSE) /\ UNCHANGED runBuilt
           ELSE Goto("map") /\ runBuilt' = TRUE
  /\ UNCHANGED <<env, expired, toolCalls, modelCalls, mapperCalls, agentEvidence,
                 idReport, revision, runReport, provider, links, signals>>

\* The MutationRun is built outside the try block, after a report was found to be
\* in scope.  Its constructor refuses target paths, test paths and test ids of the
\* request's context that repeat, whatever the backend, and a result without
\* Evidence or with duplicate ids, which an injected backend may return.
RaiseFromObserve ==
  /\ pc = "observe"
  /\ request.report => provider.inScope
  /\ ~ expired /\ CanRecord
  /\ Record("OBSERVE", "none")
  /\ providerSaved' = TRUE
  /\ pc' = "raised"
  /\ UNCHANGED <<env, expired, toolCalls, modelCalls, mapperCalls, agentEvidence,
                 idReport, revision, runReport, provider, found, reason, rows, assessment>>

Map ==
  /\ pc = "map"
  /\ \/ ~ CanRecord /\ Stop("BUDGET_EXHAUSTED", FALSE) /\ UNCHANGED <<traces, links>>
     \/ /\ CanRecord
        /\ Record("MAP", "none")
        /\ links' = SurvivorLinks
        /\ IF expired THEN Stop("TIMEOUT", TRUE) ELSE Goto("model")
  /\ UNCHANGED <<env, expired, toolCalls, modelCalls, mapperCalls, agentEvidence,
                 data, runBuilt, signals>>

Unmapped == {m \in Mutants : links[m] = "unmapped"}

\* Mutant: the merge trusts the model.
MergedAsVerified(answered) ==
  [m \in Mutants |-> IF m \in answered THEN "verified" ELSE links[m]]

\* _merge_model_links: an answer of the model is always "unverified".
Merged(answered) ==
  [m \in Mutants |-> IF m \in answered THEN "unverified" ELSE links[m]]

ModelWanted ==
  /\ request.mapper
  /\ modelCalls < request.budget.models
  /\ Unmapped # {}

SkipModel ==
  /\ pc = "model" /\ ~ ModelWanted
  /\ Goto("evaluate")
  /\ UNCHANGED <<env, expired, loop, data, found>>

\* _bounded_model_context raises: no permission Evidence, no invocation.
ModelContextTooLarge ==
  /\ pc = "model" /\ ModelWanted
  /\ modelCalls' = modelCalls + 1
  /\ Goto("evaluate")
  /\ UNCHANGED <<env, expired, traces, toolCalls, mapperCalls, agentEvidence, data, found>>

\* The mapper is invoked.  It raises, or answers something that is not
\* accepted; its answer makes the validation itself raise (a lone surrogate
\* cannot be encoded), which counts the call a second time; or its answer is
\* accepted for some of the unmapped survivors and merged.
AskModel ==
  /\ pc = "model" /\ ModelWanted
  /\ agentEvidence' = agentEvidence \union {"MODEL_SURVIVOR_MAPPING"}
  /\ mapperCalls' = mapperCalls + 1
  /\ \/ modelCalls' = modelCalls + 1 /\ UNCHANGED links
     \/ modelCalls' = modelCalls + 2 /\ UNCHANGED links
     \/ /\ modelCalls' = modelCalls + 1
        /\ \E answered \in (SUBSET Unmapped) \ {{}} : links' = Merged(answered)
  /\ Goto("evaluate")
  /\ UNCHANGED <<env, expired, traces, toolCalls, data, runBuilt, signals>>

\* Mutant: no clock check in front of EVALUATE.
EvaluateLate ==
  /\ pc = "evaluate"
  /\ signals' = SignalsOf(links)
  /\ IF CanRecord THEN Record("EVALUATE", "none") /\ Goto("verify")
     ELSE Stop("BUDGET_EXHAUSTED", FALSE) /\ UNCHANGED traces
  /\ UNCHANGED <<env, expired, toolCalls, modelCalls, mapperCalls, agentEvidence,
                 data, runBuilt, links>>

Evaluate ==
  /\ pc = "evaluate"
  /\ \/ expired /\ Stop("TIMEOUT", TRUE) /\ UNCHANGED <<traces, signals>>
     \/ /\ ~ expired
        /\ signals' = SignalsOf(links)
        /\ IF CanRecord THEN Record("EVALUATE", "none") /\ Goto("verify")
           ELSE Stop("BUDGET_EXHAUSTED", FALSE) /\ UNCHANGED traces
  /\ UNCHANGED <<env, expired, toolCalls, modelCalls, mapperCalls, agentEvidence,
                 data, runBuilt, links>>

Verify ==
  /\ pc = "verify"
  /\ \/ CanRecord /\ Record("VERIFY", "none") /\ Goto("gate")
     \/ ~ CanRecord /\ Stop("BUDGET_EXHAUSTED", FALSE) /\ UNCHANGED traces
  /\ UNCHANGED <<env, expired, toolCalls, modelCalls, mapperCalls, agentEvidence, data, found>>

\* Mutant: the reason stays when the GATE phase cannot be recorded.
GateUnrecorded ==
  /\ pc = "gate"
  /\ IF CanRecord THEN Record("GATE", "none") ELSE UNCHANGED traces
  /\ Stop(IF EvidenceSufficient THEN "EVIDENCE_SUFFICIENT"
          ELSE "INSUFFICIENT_EVIDENCE", TRUE)
  /\ UNCHANGED <<env, expired, toolCalls, modelCalls, mapperCalls, agentEvidence, data, found>>

Gate ==
  /\ pc = "gate"
  /\ \/ /\ CanRecord
        /\ Record("GATE", "none")
        /\ Stop(IF EvidenceSufficient THEN "EVIDENCE_SUFFICIENT"
                ELSE "INSUFFICIENT_EVIDENCE", TRUE)
     \/ ~ CanRecord /\ Stop("BUDGET_EXHAUSTED", TRUE) /\ UNCHANGED traces
  /\ UNCHANGED <<env, expired, toolCalls, modelCalls, mapperCalls, agentEvidence, data, found>>

Finish ==
  /\ pc = "finish"
  /\ pc' = "returned"
  /\ assessment' = Assessment(reason, Decision(GateInput(links, signals)), rows)
  /\ UNCHANGED <<env, expired, loop, data, found, reason, rows>>

\* Without a run _finish resolves the revision once more before it saves the
\* context, and lets a TimeoutExpired out of assess.
RaiseFromFinish ==
  /\ pc = "finish"
  /\ request.store /\ Context.present /\ ~ runBuilt
  /\ pc' = "raised"
  /\ UNCHANGED <<env, expired, loop, data, found, reason, rows, assessment>>

Done == pc \in {"returned", "raised"}

-----------------------------------------------------------------------------
(***************************************************************************)
(* The world around the call.                                              *)
(***************************************************************************)

Internal == <<pc, loop, data, found, reason, rows, assessment>>

DeadlinePasses ==
  /\ ~ Done /\ ~ expired
  /\ expired' = TRUE
  /\ UNCHANGED <<Internal, env>>

EditRepository ==
  /\ ~ Done /\ edits < MaxEdits
  /\ head' \in Revisions \ {head}
  /\ edits' = edits + 1
  /\ UNCHANGED <<Internal, expired, request, reportFile>>

ReplaceReport ==
  /\ ~ Done /\ edits < MaxEdits
  /\ reportFile' \in Reports \ {reportFile}
  /\ edits' = edits + 1
  /\ UNCHANGED <<Internal, expired, request, head>>

Step ==
  \/ RaiseFromName \/ RejectBudget \/ Understand \/ Select \/ Mutate \/ Resolve
  \/ AcquireReport \/ AcquireBackend \/ Observe \/ RaiseFromObserve \/ Map
  \/ SkipModel \/ ModelContextTooLarge \/ AskModel
  \/ Evaluate \/ Verify \/ Gate \/ Finish \/ RaiseFromFinish

World == DeadlinePasses \/ EditRepository \/ ReplaceReport

Next == Step \/ World

\* The call runs on; the world around it owes nothing.
Fairness == WF_vars(Step)

SafetySpec == Init /\ [][Next]_vars
Spec       == SafetySpec /\ Fairness

=============================================================================
