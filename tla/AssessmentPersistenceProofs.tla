--------------------- MODULE AssessmentPersistenceProofs ---------------------
(***************************************************************************)
(* What the store holds and what is read back, for any number of calls,    *)
(* reports, mutants and outcomes that the contract allows.                 *)
(*                                                                         *)
(* An assessment resolves because _finish writes what it names before it   *)
(* names it, and nothing is ever deleted but rows that are written again   *)
(* in the same transaction: Progress says what each call has already       *)
(* written, and the tables only grow.  A verdict is not contradicted by    *)
(* its rows, and read back whole, because a run id determines the mutants  *)
(* of the run and what each may be: two calls that write the same run      *)
(* write results that mutmut may give for the same metadata, and those of  *)
(* a report write the same.                                                *)
(***************************************************************************)
EXTENDS AssessmentPersistence, TLAPS

-----------------------------------------------------------------------------
(* Rows and contracts.                                                     *)

\* Putting rows into a table adds their keys to it.
LEMMA PutAllRows ==
  ASSUME NEW table, NEW rows
  PROVE  DOMAIN PutAll(table, rows) = DOMAIN table \union DOMAIN rows
BY DEF PutAll

\* What the contract says of the parts of an outcome.
Coherent(o) ==
  /\ o.hasRun => o.observed
  /\ o.observed => PermissionGiven(o)

\* Every outcome that a call can hand over is coherent.
LEMMA OutcomesCohere ==
  ASSUME NEW n, NEW o \in FinishOutcome(n)
  PROVE  /\ Coherent(o)
         /\ o.phases = 1 /\ o.reason = "INSUFFICIENT_EVIDENCE" => ~PermissionGiven(o)
BY DEF FinishOutcome, OutcomeType, Coherent, PermissionGiven

\* With the budget of the whole loop a run comes with its rows.
LEMMA RunsHaveRows ==
  ASSUME NEW n \in Nat, n >= 8, NEW o \in FinishOutcome(n)
  PROVE  o.hasRun => o.rows
BY DEF FinishOutcome, OutcomeType

-----------------------------------------------------------------------------
(* What each call has written.                                             *)

CallsTyped ==
  /\ pc \in [Clients -> Labels] /\ request \in [Clients -> Requests]
  /\ DOMAIN outcome = Clients /\ DOMAIN results = Clients /\ DOMAIN metadata = Clients

\* The Evidence, the context and the run that call c has behind it.
Progress(c) ==
  /\ pc[c] # "assess" => Coherent(outcome[c])
  /\ pc[c] \in {"context", "agent evidence", "provider evidence", "run", "assessment"} =>
       DOMAIN ContextEvidence(request[c]) \subseteq DOMAIN evidence_records
  /\ pc[c] \in {"agent evidence", "provider evidence", "run", "assessment"}
       /\ request[c].context # NoContext => request[c].context \in DOMAIN test_contexts
  /\ pc[c] \in {"provider evidence", "run"} \/ (pc[c] = "assessment" /\ PermissionGiven(outcome[c])) =>
       DOMAIN AgentEvidence(request[c]) \subseteq DOMAIN evidence_records
  /\ pc[c] = "run" \/ (pc[c] = "assessment" /\ outcome[c].observed) =>
       DOMAIN ProviderEvidence(results[c]) \subseteq DOMAIN evidence_records
  /\ pc[c] = "assessment" /\ outcome[c].hasRun => RunId(c) \in DOMAIN mutation_runs

\* A run in the store is of the assessment that its id names, and its Evidence is there.
RunsResolve ==
  \A run \in DOMAIN mutation_runs :
    /\ mutation_runs[run].assessment = run[1]
    /\ mutation_runs[run].evidence \subseteq DOMAIN evidence_records

\* An assessment names runs of its own that are there.
RowsResolve ==
  \A id \in DOMAIN assessments :
    /\ id[1] # NoContext => id[1] \in DOMAIN test_contexts
    /\ assessments[id].evidence \subseteq DOMAIN evidence_records
    /\ \A run \in assessments[id].run : run \in DOMAIN mutation_runs /\ run[1] = id

ResolveInv == CallsTyped /\ (\A c \in Clients : Progress(c)) /\ RunsResolve /\ RowsResolve

\* No table loses a key.
Grows ==
  /\ DOMAIN evidence_records \subseteq DOMAIN evidence_records'
  /\ DOMAIN test_contexts \subseteq DOMAIN test_contexts'
  /\ DOMAIN mutation_runs \subseteq DOMAIN mutation_runs'

\* A run's id carries its assessment's and the hash of its report.
LEMMA IdsOfRun ==
  ASSUME NEW c
  PROVE  RunId(c)[1] = AssessmentId(request[c]) /\ RunId(c)[2] = RunHash(c)
BY DEF RunId

\* An assessment's id carries its context.
LEMMA ContextOfId ==
  ASSUME NEW r
  PROVE  AssessmentId(r)[1] = r.context
BY DEF AssessmentId

\* A call that stays where it is loses nothing while the tables grow.
LEMMA ProgressStays ==
  ASSUME NEW c, Progress(c), Grows,
         pc'[c] = pc[c], request'[c] = request[c],
         outcome'[c] = outcome[c], results'[c] = results[c],
         metadata'[c] = metadata[c]
  PROVE  Progress(c)'
<1>1. RunId(c)' = RunId(c)
  BY DEF RunId, RunHash, AssessmentId
<1> QED BY <1>1 DEF Progress, Grows, ContextEvidence, AgentEvidence, ProviderEvidence, AssessmentId

\* Empty tables resolve.
LEMMA ResolveInit == Init => ResolveInv
BY DEF Init, StoreInit, Empty, ResolveInv, CallsTyped, Labels, Progress, RunsResolve, RowsResolve

-----------------------------------------------------------------------------
(* The tables only grow.                                                   *)

\* No step removes a row from a table.
LEMMA TablesGrow == ASSUME [Next]_vars PROVE Grows
<1>1. CASE UNCHANGED store
  BY <1>1 DEF Grows, store
<1>2. ASSUME NEW c \in Clients, Write(c) PROVE Grows
  <2>1. CASE WriteContextEvidence(c)
    BY <2>1, PutAllRows DEF WriteContextEvidence, SaveEvidence, Grows
  <2>2. CASE WriteContext(c)
    BY <2>2 DEF WriteContext, SaveContextRow, Put, Grows
  <2>3. CASE WriteAgentEvidence(c)
    BY <2>3, PutAllRows DEF WriteAgentEvidence, SaveEvidence, Grows
  <2>4. CASE WriteProviderEvidence(c)
    BY <2>4, PutAllRows DEF WriteProviderEvidence, SaveEvidence, Grows
  <2>5. CASE WriteRun(c)
    BY <2>5 DEF WriteRun, SaveMutation, Put, Grows
  <2>6. CASE WriteAssessment(c)
    BY <2>6 DEF WriteAssessment, SaveAssessment, Grows
  <2> QED BY <1>2, <2>1, <2>2, <2>3, <2>4, <2>5, <2>6 DEF Write
<1> QED BY <1>1, <1>2 DEF Next, vars, Assess, Stop, ReadRow, ReadRun

\* A step of call c that keeps its request, outcome and results.
LEMMA CallsMove ==
  ASSUME CallsTyped, \A d \in Clients : Progress(d), Grows, NEW c \in Clients,
         NEW label \in Labels, Goto(c, label)
  PROVE  /\ CallsTyped' /\ pc'[c] = label
         /\ UNCHANGED <<request, outcome, results, metadata>>
         /\ \A d \in Clients \ {c} : Progress(d)'
<1>1. CallsTyped' /\ pc'[c] = label /\ UNCHANGED <<request, outcome, results, metadata>>
  BY DEF CallsTyped, Goto
<1>2. ASSUME NEW d \in Clients \ {c} PROVE Progress(d)'
  <2>1. pc'[d] = pc[d]
    BY DEF CallsTyped, Goto
  <2> QED BY <2>1, <1>1, ProgressStays
<1> QED BY <1>1, <1>2

\* What resolved goes on to resolve while tables grow around it.
LEMMA RowsStay ==
  ASSUME RunsResolve, RowsResolve, Grows, UNCHANGED <<mutation_runs, assessments>>
  PROVE  RunsResolve' /\ RowsResolve'
BY DEF RunsResolve, RowsResolve, Grows

\* The loop has ended; nothing is written yet.
LEMMA AssessResolves ==
  ASSUME ResolveInv, NEW c \in Clients, Assess(c)
  PROVE  ResolveInv'
<1> USE DEF ResolveInv
<1>1. PICK o \in FinishOutcome(request[c].iterations), seen \in Observable(request[c]) :
        /\ request[c].context = NoContext => o.phases = 1 /\ o.reason = "INSUFFICIENT_EVIDENCE"
        /\ outcome' = [outcome EXCEPT ![c] = o]
        /\ results' = [results EXCEPT ![c] = seen.found]
        /\ metadata' = [metadata EXCEPT ![c] = seen.meta]
  BY DEF Assess
<1>2. Grows /\ UNCHANGED <<store, request>>
  BY DEF Assess, Grows, store
<1>3. pc' = [pc EXCEPT ![c] = IF request[c].context = NoContext THEN "assessment"
                             ELSE "context evidence"]
  BY DEF Assess
<1>4. CallsTyped'
  BY <1>1, <1>2, <1>3 DEF CallsTyped, Labels
<1>5. RunsResolve' /\ RowsResolve'
  BY <1>2, RowsStay DEF store
<1>6. outcome'[c] = o /\ Coherent(o)
  BY <1>1, OutcomesCohere DEF CallsTyped
<1>7. Progress(c)'
  <2>1. CASE request[c].context = NoContext
    <3>1. pc'[c] = "assessment" /\ ~PermissionGiven(o) /\ ~o.observed /\ ~o.hasRun
      BY <2>1, <1>1, <1>3, <1>6, OutcomesCohere DEF CallsTyped, Coherent
    <3>2. DOMAIN ContextEvidence(request[c]) = {}
      BY <2>1 DEF ContextEvidence
    <3> QED BY <3>1, <3>2, <2>1, <1>2, <1>6 DEF Progress, ContextEvidence, store
  <2>2. CASE request[c].context # NoContext
    <3>1. pc'[c] = "context evidence"
      BY <2>2, <1>3 DEF CallsTyped
    <3> QED BY <3>1, <1>6 DEF Progress
  <2> QED BY <2>1, <2>2
<1>8. ASSUME NEW d \in Clients \ {c} PROVE Progress(d)'
  <2>1. pc'[d] = pc[d] /\ outcome'[d] = outcome[d] /\ results'[d] = results[d]
        /\ metadata'[d] = metadata[d]
    BY <1>1, <1>3 DEF CallsTyped
  <2> QED BY <2>1, <1>2, ProgressStays
<1> QED BY <1>4, <1>5, <1>7, <1>8

\* Each transaction of _finish, and the end of the process.
LEMMA WriteResolves ==
  ASSUME ResolveInv, NEW c \in Clients, Write(c) \/ Stop(c), Grows
  PROVE  ResolveInv'
<1> USE DEF ResolveInv
<1> DEFINE Kept == UNCHANGED <<mutation_runs, assessments>>
<1>1. CASE WriteContextEvidence(c)
  <2>1. /\ CallsTyped' /\ pc'[c] = "context" /\ UNCHANGED <<request, outcome, results, metadata>>
        /\ \A d \in Clients \ {c} : Progress(d)'
    BY <1>1, CallsMove DEF WriteContextEvidence, Labels
  <2>2. DOMAIN ContextEvidence(request[c]) \subseteq DOMAIN evidence_records' /\ Kept
    BY <1>1, PutAllRows DEF WriteContextEvidence, SaveEvidence
  <2>3. Coherent(outcome[c])
    BY <1>1 DEF WriteContextEvidence, Progress
  <2>4. Progress(c)'
    BY <2>1, <2>2, <2>3 DEF Progress, ContextEvidence
  <2> QED BY <2>1, <2>2, <2>4, RowsStay
<1>2. CASE WriteContext(c)
  <2>1. PICK label \in {"agent evidence", "assessment"} :
          Goto(c, label) /\ (label = "assessment" => ~PermissionGiven(outcome[c]))
    BY <1>2 DEF WriteContext
  <2>2. /\ CallsTyped' /\ pc'[c] = label /\ UNCHANGED <<request, outcome, results, metadata>>
        /\ \A d \in Clients \ {c} : Progress(d)'
    BY <2>1, CallsMove DEF Labels
  <2>3. request[c].context \in DOMAIN test_contexts' /\ evidence_records' = evidence_records /\ Kept
    BY <1>2 DEF WriteContext, SaveContextRow, Put
  <2>4. Coherent(outcome[c]) /\ DOMAIN ContextEvidence(request[c]) \subseteq DOMAIN evidence_records
    BY <1>2 DEF WriteContext, Progress
  <2>5. Progress(c)'
    BY <2>1, <2>2, <2>3, <2>4 DEF Progress, ContextEvidence, Coherent
  <2> QED BY <2>2, <2>3, <2>5, RowsStay
<1>3. CASE WriteAgentEvidence(c)
  <2>1. PICK label \in {"provider evidence", "assessment"} :
          Goto(c, label) /\ (label = "assessment" => ~outcome[c].observed)
    BY <1>3 DEF WriteAgentEvidence
  <2>2. /\ CallsTyped' /\ pc'[c] = label /\ UNCHANGED <<request, outcome, results, metadata>>
        /\ \A d \in Clients \ {c} : Progress(d)'
    BY <2>1, CallsMove DEF Labels
  <2>3. /\ DOMAIN AgentEvidence(request[c]) \subseteq DOMAIN evidence_records'
        /\ UNCHANGED test_contexts /\ Kept
    BY <1>3, PutAllRows DEF WriteAgentEvidence, SaveEvidence
  <2>4. /\ Coherent(outcome[c]) /\ DOMAIN ContextEvidence(request[c]) \subseteq DOMAIN evidence_records
        /\ request[c].context # NoContext => request[c].context \in DOMAIN test_contexts
    BY <1>3 DEF WriteAgentEvidence, Progress
  <2>5. Progress(c)'
    BY <2>1, <2>2, <2>3, <2>4 DEF Progress, Grows, ContextEvidence, AgentEvidence, AssessmentId, Coherent
  <2> QED BY <2>2, <2>3, <2>5, RowsStay
<1>4. CASE WriteProviderEvidence(c)
  <2>1. PICK label \in {"run", "assessment"} :
          Goto(c, label) /\ (label = "assessment" => ~outcome[c].hasRun)
    BY <1>4 DEF WriteProviderEvidence
  <2>2. /\ CallsTyped' /\ pc'[c] = label /\ UNCHANGED <<request, outcome, results, metadata>>
        /\ \A d \in Clients \ {c} : Progress(d)'
    BY <2>1, CallsMove DEF Labels
  <2>3. /\ DOMAIN ProviderEvidence(results[c]) \subseteq DOMAIN evidence_records'
        /\ UNCHANGED test_contexts /\ Kept
    BY <1>4, PutAllRows DEF WriteProviderEvidence, SaveEvidence
  <2>4. /\ Coherent(outcome[c]) /\ DOMAIN ContextEvidence(request[c]) \subseteq DOMAIN evidence_records
        /\ request[c].context # NoContext => request[c].context \in DOMAIN test_contexts
        /\ DOMAIN AgentEvidence(request[c]) \subseteq DOMAIN evidence_records
    <3>1. pc[c] = "provider evidence" /\ Progress(c)
      BY <1>4 DEF WriteProviderEvidence
    <3> QED BY <3>1 DEF Progress
  <2>5. Progress(c)'
    BY <2>1, <2>2, <2>3, <2>4
       DEF Progress, Grows, ContextEvidence, AgentEvidence, ProviderEvidence, AssessmentId
  <2> QED BY <2>2, <2>3, <2>5, RowsStay
<1>5. CASE WriteRun(c)
  <2>1. /\ CallsTyped' /\ pc'[c] = "assessment" /\ UNCHANGED <<request, outcome, results, metadata>>
        /\ \A d \in Clients \ {c} : Progress(d)'
    BY <1>5, CallsMove DEF WriteRun, Labels
  <2>2. /\ mutation_runs' = Put(mutation_runs, RunId(c), RunRow(c))
        /\ UNCHANGED <<evidence_records, test_contexts, assessments>>
    BY <1>5 DEF WriteRun, SaveMutation
  <2>3. /\ Coherent(outcome[c]) /\ DOMAIN ContextEvidence(request[c]) \subseteq DOMAIN evidence_records
        /\ request[c].context # NoContext => request[c].context \in DOMAIN test_contexts
        /\ DOMAIN AgentEvidence(request[c]) \subseteq DOMAIN evidence_records
        /\ DOMAIN ProviderEvidence(results[c]) \subseteq DOMAIN evidence_records
    <3>1. pc[c] = "run" /\ Progress(c)
      BY <1>5 DEF WriteRun
    <3> QED BY <3>1 DEF Progress
  <2>9. /\ DOMAIN mutation_runs' = DOMAIN mutation_runs \union {RunId(c)}
        /\ mutation_runs'[RunId(c)] = RunRow(c)
        /\ \A run \in DOMAIN mutation_runs \ {RunId(c)} : mutation_runs'[run] = mutation_runs[run]
    BY <2>2 DEF Put
  <2>4. RunId(c)' = RunId(c)
    BY <2>1 DEF RunId, RunHash, AssessmentId
  <2>5. Progress(c)'
    BY <2>1, <2>2, <2>3, <2>4, <2>9
       DEF Progress, ContextEvidence, AgentEvidence, ProviderEvidence, AssessmentId
  <2>6. RunRow(c).assessment = RunId(c)[1] /\ RunRow(c).evidence \subseteq DOMAIN evidence_records
    BY <2>3, IdsOfRun DEF RunRow
  <2>7. RunsResolve'
    BY <2>2, <2>6, <2>9 DEF RunsResolve
  <2>8. RowsResolve'
    BY <2>2, <2>9 DEF RowsResolve
  <2> QED BY <2>1, <2>5, <2>7, <2>8
<1>6. CASE WriteAssessment(c)
  <2> DEFINE id == AssessmentId(request[c])
             row == AssessmentRow(c)
  <2>1. /\ CallsTyped' /\ pc'[c] = "returned" /\ UNCHANGED <<request, outcome, results, metadata>>
        /\ \A d \in Clients \ {c} : Progress(d)'
    BY <1>6, CallsMove DEF WriteAssessment, Labels
  <2>2. /\ assessments' = Put(assessments, id, row)
        /\ UNCHANGED <<evidence_records, test_contexts, mutation_runs>>
    BY <1>6 DEF WriteAssessment, SaveAssessment
  <2>3. /\ Coherent(outcome[c]) /\ DOMAIN ContextEvidence(request[c]) \subseteq DOMAIN evidence_records
        /\ request[c].context # NoContext => request[c].context \in DOMAIN test_contexts
        /\ PermissionGiven(outcome[c]) => DOMAIN AgentEvidence(request[c]) \subseteq DOMAIN evidence_records
        /\ outcome[c].observed => DOMAIN ProviderEvidence(results[c]) \subseteq DOMAIN evidence_records
        /\ outcome[c].hasRun => RunId(c) \in DOMAIN mutation_runs
    BY <1>6 DEF WriteAssessment, Progress
  <2>4. Progress(c)'
    BY <2>1, <2>3 DEF Progress
  <2>5. row.evidence \subseteq DOMAIN evidence_records
    BY <2>3 DEF AssessmentRow, Ids
  <2>6. \A run \in row.run : run \in DOMAIN mutation_runs /\ run[1] = id
    BY <2>3, IdsOfRun DEF AssessmentRow
  <2>7. id[1] # NoContext => id[1] \in DOMAIN test_contexts
    BY <2>3, ContextOfId
  <2> HIDE DEF id, row
  <2>8. RowsResolve'
    <3>1. /\ DOMAIN assessments' = DOMAIN assessments \union {id}
          /\ assessments'[id] = row
          /\ \A k \in DOMAIN assessments \ {id} : assessments'[k] = assessments[k]
      BY <2>2 DEF Put
    <3> QED BY <2>2, <2>5, <2>6, <2>7, <3>1 DEF RowsResolve
  <2>9. RunsResolve'
    BY <2>2 DEF RunsResolve
  <2> QED BY <2>1, <2>4, <2>8, <2>9
<1>7. CASE Stop(c)
  <2>1. /\ CallsTyped' /\ pc'[c] = "stopped" /\ UNCHANGED <<request, outcome, results, metadata>>
        /\ \A d \in Clients \ {c} : Progress(d)'
    BY <1>7, CallsMove DEF Stop, Labels
  <2>2. pc[c] # "assess" /\ UNCHANGED store
    BY <1>7 DEF Stop, Writing
  <2>3. Progress(c)'
    BY <2>1, <2>2 DEF Progress
  <2> QED BY <2>1, <2>2, <2>3, RowsStay DEF store
<1> QED BY <1>1, <1>2, <1>3, <1>4, <1>5, <1>6, <1>7 DEF Write

\* Every step keeps the references resolvable.
LEMMA ResolveStep == ASSUME ResolveInv, [Next]_vars PROVE ResolveInv'
<1>1. Grows
  BY TablesGrow
<1>2. CASE UNCHANGED <<store, call>>
  <2>1. ASSUME NEW c \in Clients PROVE Progress(c)'
    BY <1>2, <1>1, ProgressStays DEF ResolveInv, call
  <2>2. CallsTyped' /\ RunsResolve' /\ RowsResolve'
    BY <1>2, <1>1, RowsStay DEF ResolveInv, CallsTyped, call, store
  <2> QED BY <2>1, <2>2 DEF ResolveInv
<1> QED BY <1>1, <1>2, AssessResolves, WriteResolves DEF Next, vars, ReadRow, ReadRun

\* They resolve in every reachable state.
LEMMA StoreHolds == Spec => []ResolveInv
BY ResolveInit, ResolveStep, PTL DEF Spec

\* Whatever calls interleave and wherever they stop (_finish, save_* of the
\* trace store), a stored assessment's context, run and Evidence are there,
\* for any number of calls.
THEOREM AssessmentsResolve == Spec => []AssessmentResolves
<1>1. ResolveInv => AssessmentResolves
  BY DEF ResolveInv, RunsResolve, RowsResolve, AssessmentResolves
<1> QED BY <1>1, StoreHolds, PTL

-----------------------------------------------------------------------------
(* Observations and loop traces.                                           *)

TracesInv ==
  /\ DOMAIN observations = DOMAIN assessments /\ DOMAIN loop_traces = DOMAIN assessments
  /\ TracesAreOfOneCall

\* Every step keeps the traces of what is stored.
LEMMA TracesStep == ASSUME TracesInv, [Next]_vars PROVE TracesInv'
<1>1. CASE UNCHANGED <<assessments, observations, loop_traces>>
  BY <1>1 DEF TracesInv, TracesAreOfOneCall
<1>2. ASSUME NEW c \in Clients, WriteAssessment(c) PROVE TracesInv'
  <2> DEFINE id == AssessmentId(request[c])
             row == AssessmentRow(c)
  <2>1. /\ assessments' = Put(assessments, id, row)
        /\ observations' = Put(observations, id, row.trace)
        /\ loop_traces' = Put(loop_traces, id, row.trace)
    BY <1>2 DEF WriteAssessment, SaveAssessment
  <2> HIDE DEF id, row
  <2> QED BY <2>1 DEF Put, TracesInv, TracesAreOfOneCall
<1> QED BY <1>1, <1>2
      DEF Next, vars, store, Assess, Stop, ReadRow, ReadRun, Write, WriteContextEvidence, WriteContext,
          WriteAgentEvidence, WriteProviderEvidence, WriteRun, SaveEvidence, SaveContextRow, SaveMutation

\* save_assessment replaces an assessment together with its observations and
\* loop traces: they are never of two calls.
THEOREM TracesHold == Spec => []TracesAreOfOneCall
<1>1. Init => TracesInv
  BY DEF Init, StoreInit, Empty, TracesInv, TracesAreOfOneCall
<1>2. TracesInv => TracesAreOfOneCall
  BY DEF TracesInv
<1> QED BY <1>1, <1>2, TracesStep, PTL DEF Spec

-----------------------------------------------------------------------------
(* What a run id determines of the results of the run.                     *)

\* Every backend gives a raw_report_hash: the runs of an assessment id differ.
HashesGiven  == (\A r \in Requests : r.source # Backend) /\ "no report" \notin Reports
WholeBudgets == \A r \in Requests : r.iterations >= 8

\* The results a run may have, by its id: those of the report, or what mutmut
\* may give for its metadata; and the mutants that all of them are about.
Possible(run) ==
  IF run[1][2] \in Reports THEN {ReportResults[run[2]]} ELSE Seen(run[2])
MutantsOfRun(run) ==
  IF run[1][2] \in Reports THEN DOMAIN ReportResults[run[2]] ELSE DOMAIN run[2]

\* A call has the results of the report it imported, or what mutmut may give for
\* its metadata; a verdict's results are what the metadata say.
Imported(c) ==
  pc[c] # "assess" =>
    /\ request[c].source \in Reports => results[c] = ReportResults[request[c].source]
    /\ request[c].source = Mutmut =>
         /\ results[c] \in Seen(metadata[c])
         /\ outcome[c].reason = "EVIDENCE_SUFFICIENT" => results[c] = metadata[c]
    /\ pc[c] = "run" => outcome[c].hasRun
    /\ WholeBudgets /\ outcome[c].hasRun => outcome[c].rows

RunsScored ==
  \A run \in DOMAIN mutation_runs :
    /\ mutation_runs[run].mutants = MutantsOfRun(run)
    /\ run \in DOMAIN mutation_rows
    /\ WholeBudgets => mutation_rows[run] \in Possible(run)

RowScored(row) ==
  \A run \in row.run :
    /\ row.scored \in Possible(run)
    /\ row.verdict /\ run[1][2] \notin Reports => row.scored = run[2]

ReaderWhole ==
  /\ DOMAIN reader = {"at", "id", "row", "run"}
  /\ reader.at # "row" => /\ RowScored(reader.row)
                          /\ \A run \in reader.row.run :
                               run[1] = reader.id /\ run \in DOMAIN mutation_runs
  /\ ReadIsWhole

WholeInv ==
  /\ ResolveInv /\ RunsScored /\ ReaderWhole
  /\ \A c \in Clients : Imported(c)
  /\ \A id \in DOMAIN assessments : RowScored(assessments[id])

\* All possible results of a run are about the same mutants.
LEMMA PossibleMutants ==
  ASSUME NEW run, NEW found \in Possible(run)
  PROVE  DOMAIN found = MutantsOfRun(run)
BY DEF Possible, MutantsOfRun, Seen

\* Two possible results of a run of mutmut, one of them what its metadata say,
\* differ at most in errors.
LEMMA SeenAgree ==
  ASSUME NEW meta, NEW found \in Seen(meta), NEW m \in DOMAIN found
  PROVE  found[m] = meta[m] \/ found[m] = "error"
BY DEF Seen

\* What a call holds is possible for its run id.
LEMMA CallScored ==
  ASSUME HashesGiven, CallsTyped, NEW c \in Clients, Imported(c), pc[c] # "assess"
  PROVE  /\ results[c] \in Possible(RunId(c))
         /\ outcome[c].reason = "EVIDENCE_SUFFICIENT" /\ RunId(c)[1][2] \notin Reports =>
              results[c] = RunId(c)[2]
<1>1. request[c] \in Requests /\ request[c].source # Backend
  BY DEF HashesGiven, CallsTyped
<1>2. CASE request[c].source \in Reports
  <2>1. RunHash(c) = request[c].source /\ AssessmentId(request[c])[2] = request[c].source
    BY <1>2, SourcesDistinct DEF RunHash, AssessmentId
  <2> QED BY <1>2, <2>1 DEF Possible, RunId, Imported
<1>3. CASE request[c].source \notin Reports
  <2>1. request[c].source = Mutmut
    BY <1>1, <1>3, RequestsTyped
  <2>2. RunHash(c) = metadata[c] /\ AssessmentId(request[c])[2] = "no report"
    BY <1>3, <2>1 DEF RunHash, AssessmentId
  <2>3. RunId(c)[1][2] \notin Reports /\ RunId(c)[2] = metadata[c]
    BY <2>2 DEF RunId, HashesGiven
  <2> QED BY <2>1, <2>3 DEF Possible, Imported
<1> QED BY <1>2, <1>3

\* There is nothing to read at first.
LEMMA WholeInit == Init => WholeInv
BY ResolveInit DEF Init, StoreInit, Empty, WholeInv, RunsScored, ReaderWhole, ReadIsWhole, NothingRead,
                   Imported

\* A call whose outcome stands has still imported it.
LEMMA ImportedStays ==
  ASSUME NEW c, Imported(c), pc'[c] = pc[c], request'[c] = request[c],
         outcome'[c] = outcome[c], results'[c] = results[c],
         metadata'[c] = metadata[c]
  PROVE  Imported(c)'
BY DEF Imported, WholeBudgets

\* What a call and its row carry through the transactions.
LEMMA ImportedStep ==
  ASSUME ResolveInv, \A c \in Clients : Imported(c), [Next]_vars
  PROVE  \A c \in Clients : Imported(c)'
<1>1. CASE UNCHANGED call
  BY <1>1, ImportedStays DEF call
<1>2. ASSUME NEW c \in Clients, Assess(c) PROVE \A d \in Clients : Imported(d)'
  <2>1. PICK o \in FinishOutcome(request[c].iterations), seen \in Observable(request[c]) :
          /\ request[c].source = Mutmut /\ o.reason = "EVIDENCE_SUFFICIENT" => Complete(seen)
          /\ outcome' = [outcome EXCEPT ![c] = o]
          /\ results' = [results EXCEPT ![c] = seen.found]
          /\ metadata' = [metadata EXCEPT ![c] = seen.meta]
    BY <1>2 DEF Assess
  <2>2. /\ UNCHANGED request
        /\ pc' = [pc EXCEPT ![c] = IF request[c].context = NoContext THEN "assessment"
                                  ELSE "context evidence"]
    BY <1>2 DEF Assess
  <2>3. request[c] \in Requests /\ request[c].iterations \in Nat
    BY RequestsTyped DEF ResolveInv, CallsTyped
  <2>4. WholeBudgets /\ o.hasRun => o.rows
    BY <2>3, RunsHaveRows DEF WholeBudgets
  <2>5. /\ request[c].source \in Reports => seen.found = ReportResults[request[c].source]
        /\ request[c].source = Mutmut => seen.found \in Seen(seen.meta)
    BY SourcesDistinct DEF Observable
  <2>9. request[c].source = Mutmut /\ o.reason = "EVIDENCE_SUFFICIENT" => seen.found = seen.meta
    BY <2>1 DEF Complete
  <2>6. pc'[c] # "run" /\ outcome'[c] = o /\ results'[c] = seen.found /\ metadata'[c] = seen.meta
    BY <2>1, <2>2 DEF ResolveInv, CallsTyped
  <2>7. Imported(c)'
    BY <2>2, <2>4, <2>5, <2>6, <2>9 DEF Imported, WholeBudgets
  <2>8. ASSUME NEW d \in Clients \ {c} PROVE Imported(d)'
    <3>1. pc'[d] = pc[d] /\ outcome'[d] = outcome[d] /\ results'[d] = results[d]
        /\ metadata'[d] = metadata[d]
      BY <2>1, <2>2 DEF ResolveInv, CallsTyped
    <3> QED BY <3>1, <2>2, ImportedStays
  <2> QED BY <2>7, <2>8
<1>3. ASSUME NEW c \in Clients, Write(c) \/ Stop(c) PROVE \A d \in Clients : Imported(d)'
  <2>0. pc[c] # "assess"
    BY <1>3 DEF Write, Stop, Writing, WriteContextEvidence, WriteContext, WriteAgentEvidence,
                WriteProviderEvidence, WriteRun, WriteAssessment
  <2>1. PICK label \in Labels : Goto(c, label) /\ pc[c] # "assess" /\ (label = "run" => outcome[c].hasRun)
    <3>1. CASE WriteContextEvidence(c)
      BY <3>1, <2>0 DEF Labels, WriteContextEvidence
    <3>2. CASE WriteContext(c)
      BY <3>2, <2>0 DEF Labels, WriteContext
    <3>3. CASE WriteAgentEvidence(c)
      BY <3>3, <2>0 DEF Labels, WriteAgentEvidence
    <3>4. CASE WriteProviderEvidence(c)
      <4>1. CASE outcome[c].hasRun
        BY <3>4, <4>1, <2>0 DEF Labels, WriteProviderEvidence
      <4>2. CASE ~ outcome[c].hasRun
        BY <3>4, <4>2, <2>0 DEF Labels, WriteProviderEvidence
      <4> QED BY <4>1, <4>2
    <3>5. CASE WriteRun(c) \/ WriteAssessment(c) \/ Stop(c)
      BY <3>5, <2>0 DEF Labels, WriteRun, WriteAssessment, Stop
    <3> QED BY <1>3, <3>1, <3>2, <3>3, <3>4, <3>5 DEF Write
  <2>2. UNCHANGED <<request, outcome, results, metadata>> /\ pc' = [pc EXCEPT ![c] = label]
    BY <2>1 DEF Goto
  <2>3. pc'[c] = label /\ \A d \in Clients \ {c} : pc'[d] = pc[d]
    BY <2>2 DEF ResolveInv, CallsTyped
  <2>4. Imported(c)'
    BY <2>1, <2>2, <2>3 DEF Imported, WholeBudgets
  <2> QED BY <2>2, <2>3, <2>4, ImportedStays
<1> QED BY <1>1, <1>2, <1>3 DEF Next, vars, ReadRow, ReadRun

\* A run that is written again is written with results that its id allows.
LEMMA RunsScoredStep ==
  ASSUME HashesGiven, WholeInv, [Next]_vars
  PROVE  RunsScored'
<1>1. CASE UNCHANGED <<mutation_runs, mutation_rows>>
  BY <1>1 DEF WholeInv, RunsScored, WholeBudgets, Possible, Seen, MutantsOfRun
<1>2. ASSUME NEW c \in Clients, WriteRun(c) PROVE RunsScored'
  <2> DEFINE id   == RunId(c)
             rows == IF outcome[c].rows THEN results[c] ELSE Empty
             row  == RunRow(c)
  <2>1. mutation_runs' = Put(mutation_runs, id, row) /\ mutation_rows' = Put(mutation_rows, id, rows)
    BY <1>2 DEF WriteRun, SaveMutation
  <2>2. pc[c] = "run" /\ Imported(c) /\ CallsTyped
    BY <1>2 DEF WriteRun, WholeInv, ResolveInv
  <2>3. results[c] \in Possible(id) /\ (WholeBudgets => outcome[c].rows)
    BY <2>2, CallScored DEF Imported
  <2>4. row.mutants = MutantsOfRun(id)
    BY <2>3, PossibleMutants DEF RunRow
  <2>5. WholeBudgets => rows \in Possible(id)
    BY <2>3
  <2> HIDE DEF id, rows, row
  <2>6. /\ DOMAIN mutation_runs' = DOMAIN mutation_runs \union {id} /\ mutation_runs'[id] = row
        /\ \A run \in DOMAIN mutation_runs \ {id} : mutation_runs'[run] = mutation_runs[run]
    BY <2>1 DEF Put
  <2>7. /\ DOMAIN mutation_rows' = DOMAIN mutation_rows \union {id} /\ mutation_rows'[id] = rows
        /\ \A run \in DOMAIN mutation_rows \ {id} : mutation_rows'[run] = mutation_rows[run]
    BY <2>1 DEF Put
  <2>8. RunsScored
    BY DEF WholeInv
  <2>9. ASSUME NEW run \in DOMAIN mutation_runs'
        PROVE  /\ mutation_runs'[run].mutants = MutantsOfRun(run)
               /\ run \in DOMAIN mutation_rows'
               /\ WholeBudgets => mutation_rows'[run] \in Possible(run)
    BY <2>4, <2>5, <2>6, <2>7, <2>8 DEF RunsScored
  <2> QED BY <2>9, Zenon DEF RunsScored, WholeBudgets, Possible, Seen, MutantsOfRun
<1> QED BY <1>1, <1>2
      DEF Next, vars, store, Assess, Stop, ReadRow, ReadRun, Write, WriteContextEvidence, WriteContext,
          WriteAgentEvidence, WriteProviderEvidence, WriteAssessment, SaveEvidence, SaveContextRow,
          SaveAssessment

\* An assessment's row is written with the score of its own results.
LEMMA RowsScoredStep ==
  ASSUME HashesGiven, WholeInv, [Next]_vars
  PROVE  \A id \in DOMAIN assessments' : RowScored(assessments'[id])
<1>1. CASE UNCHANGED assessments
  BY <1>1 DEF WholeInv
<1>2. ASSUME NEW c \in Clients, WriteAssessment(c)
      PROVE  \A id \in DOMAIN assessments' : RowScored(assessments'[id])
  <2> DEFINE key == AssessmentId(request[c])
             row == AssessmentRow(c)
  <2>1. assessments' = Put(assessments, key, row)
    BY <1>2 DEF WriteAssessment, SaveAssessment
  <2>2. /\ results[c] \in Possible(RunId(c))
        /\ outcome[c].reason = "EVIDENCE_SUFFICIENT" /\ RunId(c)[1][2] \notin Reports =>
             results[c] = RunId(c)[2]
    BY <1>2, CallScored DEF WriteAssessment, WholeInv, ResolveInv
  <2>3. RowScored(row)
    BY <2>2 DEF RowScored, AssessmentRow
  <2> HIDE DEF key, row
  <2>4. /\ DOMAIN assessments' = DOMAIN assessments \union {key} /\ assessments'[key] = row
        /\ \A k \in DOMAIN assessments \ {key} : assessments'[k] = assessments[k]
    BY <2>1 DEF Put
  <2> QED BY <2>3, <2>4 DEF WholeInv
<1> QED BY <1>1, <1>2
      DEF Next, vars, store, Assess, Stop, ReadRow, ReadRun, Write, WriteContextEvidence, WriteContext,
          WriteAgentEvidence, WriteProviderEvidence, WriteRun, SaveEvidence, SaveContextRow, SaveMutation

\* A reader sees a whole assessment or none.
LEMMA ReaderStep ==
  ASSUME WholeInv, [Next]_vars
  PROVE  ReaderWhole'
<1> USE DEF WholeInv, ReaderWhole
<1>1. CASE UNCHANGED reader
  BY <1>1, TablesGrow DEF Grows, ReadIsWhole, RowScored, Possible, Seen
<1>2. CASE ReadRow
  <2>1. PICK id \in DOMAIN assessments :
          reader' = [reader EXCEPT !.at = "run", !.id = id, !.row = assessments[id]]
    BY <1>2 DEF ReadRow
  <2>2. UNCHANGED <<mutation_runs, assessments>>
    BY <1>2 DEF ReadRow, store
  <2>3. /\ DOMAIN reader' = {"at", "id", "row", "run"}
        /\ reader'.at = "run" /\ reader'.id = id /\ reader'.row = assessments[id]
    BY <2>1
  <2>4. RowScored(assessments[id]) /\ \A run \in assessments[id].run : run \in DOMAIN mutation_runs /\ run[1] = id
    BY DEF ResolveInv, RowsResolve
  <2>5. RowScored(reader.row)'
    <3>1. reader'.row = assessments[id] /\ RowScored(assessments[id])
      BY <2>3, <2>4
    <3> HIDE DEF WholeInv, ReaderWhole
    <3>2. ASSUME NEW run \in reader'.row.run
          PROVE  /\ reader'.row.scored \in Possible(run)
                 /\ reader'.row.verdict /\ run[1][2] \notin Reports => reader'.row.scored = run[2]
      BY <3>1 DEF RowScored
    <3> QED BY <3>2, Zenon DEF RowScored, Possible, Seen
  <2>6. ReadIsWhole'
    BY <2>3 DEF ReadIsWhole
  <2>7. (\A run \in reader.row.run : run[1] = reader.id /\ run \in DOMAIN mutation_runs)'
    BY <2>2, <2>3, <2>4
  <2> HIDE DEF WholeInv, ReaderWhole
  <2> QED BY <2>3, <2>5, <2>6, <2>7 DEF ReaderWhole
<1>3. CASE ReadRun
  <2>1. /\ reader.at = "run" /\ UNCHANGED <<mutation_runs, assessments>>
        /\ reader' = [reader EXCEPT !.at = "returned",
                        !.run = {mutation_runs[run] : run \in reader.row.run \intersect DOMAIN mutation_runs}]
    BY <1>3 DEF ReadRun, store
  <2>2. /\ DOMAIN reader' = {"at", "id", "row", "run"}
        /\ reader'.at = "returned" /\ reader'.id = reader.id /\ reader'.row = reader.row
        /\ reader'.run = {mutation_runs[run] : run \in reader.row.run \intersect DOMAIN mutation_runs}
    BY <2>1
  <2>5. \A run \in reader.row.run : DOMAIN reader.row.scored = MutantsOfRun(run)
    BY <2>1, PossibleMutants DEF RowScored
  <2>3. \A run \in reader.row.run :
          /\ run \in DOMAIN mutation_runs
          /\ mutation_runs[run].assessment = reader.id
          /\ mutation_runs[run].mutants = DOMAIN reader.row.scored
    BY <2>1, <2>5 DEF ResolveInv, RunsResolve, RunsScored
  <2>4. ReadIsWhole'
    BY <2>2, <2>3 DEF ReadIsWhole
  <2> QED BY <2>1, <2>2, <2>4 DEF RowScored, Possible, Seen
<1> QED BY <1>1, <1>2, <1>3 DEF Next, vars

\* Together they are inductive.
LEMMA WholeStep == ASSUME HashesGiven, WholeInv, [Next]_vars PROVE WholeInv'
BY ResolveStep, ImportedStep, RunsScoredStep, RowsScoredStep, ReaderStep DEF WholeInv

\* get_assessment reads the row and the run in two connections; whatever is
\* written in between, it returns a run of the assessment with the mutants
\* that the score counts, if every provider hashes its raw report.
THEOREM ReadsAreWhole == ASSUME HashesGiven PROVE Spec => []ReadIsWhole
<1>1. WholeInv => ReadIsWhole
  BY DEF WholeInv, ReaderWhole
<1>2. WholeInv /\ [Next]_vars => WholeInv'
  BY WholeStep
<1> QED BY <1>1, <1>2, WholeInit, PTL DEF Spec

\* Whatever other calls write to its run, the stored rows of a verdict are of
\* the mutants it counted; those of a report say what it counted, those of
\* mutmut at most that a mutant is now an error (the run id of
\* effectiveness_service.py:349 does not cover tests-for-mutant); if every
\* provider hashes its raw report and every call has the budget of the loop.
THEOREM VerdictsStand ==
  ASSUME HashesGiven, WholeBudgets PROVE Spec => []VerdictNotContradicted
<1>1. ASSUME WholeInv PROVE VerdictNotContradicted
  <2> SUFFICES ASSUME NEW id \in DOMAIN assessments, assessments[id].verdict,
                      NEW run \in assessments[id].run
               PROVE  LET rows == mutation_rows[run]  scored == assessments[id].scored
                      IN  /\ DOMAIN rows = DOMAIN scored
                          /\ \A m \in DOMAIN rows :
                               rows[m] = scored[m] \/ (id[2] \notin Reports /\ rows[m] = "error")
    BY DEF VerdictNotContradicted
  <2> DEFINE rows == mutation_rows[run]
             scored == assessments[id].scored
  <2>1. run \in DOMAIN mutation_runs /\ run[1] = id
    BY <1>1 DEF WholeInv, ResolveInv, RowsResolve
  <2>2. rows \in Possible(run)
    BY <1>1, <2>1 DEF WholeInv, RunsScored
  <2>3. scored \in Possible(run) /\ (id[2] \notin Reports => scored = run[2])
    BY <1>1, <2>1 DEF WholeInv, RowScored
  <2> HIDE DEF rows, scored
  <2>4. DOMAIN rows = DOMAIN scored
    BY <2>2, <2>3, PossibleMutants
  <2>5. CASE id[2] \in Reports
    <3>1. rows = scored
      BY <2>1, <2>2, <2>3, <2>5 DEF Possible
    <3> QED BY <2>4, <3>1 DEF rows, scored
  <2>6. CASE id[2] \notin Reports
    <3>1. rows \in Seen(scored)
      BY <2>1, <2>2, <2>3, <2>6 DEF Possible
    <3>2. \A m \in DOMAIN rows : rows[m] = scored[m] \/ rows[m] = "error"
      BY <3>1, SeenAgree
    <3> QED BY <2>4, <2>6, <3>2 DEF rows, scored
  <2> QED BY <2>5, <2>6
<1>2. WholeInv /\ [Next]_vars => WholeInv'
  BY WholeStep
<1> QED BY <1>1, <1>2, WholeInit, PTL DEF Spec

==============================================================================
