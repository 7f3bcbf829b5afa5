------------------------ MODULE AssessmentPersistence ------------------------
(***************************************************************************)
(* Several calls of assess, in one process or in several, that write to    *)
(* one trace store.  The loop itself is one step here, with the outcomes   *)
(* that its contract FinishOutcome allows; what _finish then saves is one  *)
(* step per transaction, in the order of the code.  Between two            *)
(* transactions other calls write, the process may die, and a transaction  *)
(* may fail because the database stays locked.  Meanwhile somebody reads   *)
(* an assessment back.                                                     *)
(*                                                                         *)
(* An assessment id is the hash of requirement, context, threshold and     *)
(* report (Requests names the first three by their context); a run id is   *)
(* the hash of the assessment id and of the provider's raw_report_hash.    *)
(* mutmut hashes its output and its metadata, not the answers of           *)
(* tests-for-mutant that its outcomes rest on as well; a backend that      *)
(* gives no hash has one run id for all its runs of an assessment id.      *)
(***************************************************************************)
EXTENDS TraceStore, LoopOutcome

CONSTANTS
  Clients,          \* identities of calls
  Mutants,
  Reports,          \* report files, by hash
  ReportResults,    \* what each report says of which mutants
  Metadata,         \* what mutmut's metadata may say: an outcome for each exit code
  BackendResults,   \* the results that a backend without a hash may return
  Requests,         \* [context, source, iterations] of a call
  Considered        \* the outcomes of the loop that are looked at

\* source is a report, Mutmut, or Backend: one that gives no raw_report_hash.
\* context may be NoContext.
Mutmut    == "mutmut"
Backend   == "backend"
NoContext == "no context"

Outcomes == {"killed", "survived", "timeout", "error", "not_run"}

ASSUME SourcesDistinct == {Mutmut, Backend} \cap Reports = {}
ASSUME RequestsTyped   ==
  \A r \in Requests : r.source \in Reports \union {Mutmut, Backend} /\ r.iterations \in Nat

VARIABLES
  pc,        \* where each call is
  request,   \* what it asks for
  outcome,   \* what its loop handed to _finish
  results,   \* the mutation results its loop has seen
  metadata,  \* what mutmut's metadata said, Empty for other sources
  reader     \* what get_assessment has in hand

call == <<pc, request, outcome, results, metadata>>
vars == <<store, call, reader>>

-----------------------------------------------------------------------------
(***************************************************************************)
(* Identities and contents.                                                *)
(***************************************************************************)

AssessmentId(r) ==
  <<r.context, IF r.source \in Reports THEN r.source ELSE "no report">>

\* What stands for raw_report_hash or "backend".
RunHash(c) ==
  CASE request[c].source \in Reports -> request[c].source
    [] request[c].source = Mutmut    -> metadata[c]
    [] OTHER                         -> Backend

\* Mutant: the run id leaves the hash out.
RunIdOfContext(c) == <<AssessmentId(request[c]), Backend>>

RunId(c) == <<AssessmentId(request[c]), RunHash(c)>>

\* The ids of context Evidence come with the context, those of permission
\* Evidence from the assessment id, those of provider Evidence from the
\* mutant id alone.
ContextEvidence(r) == [k \in {<<"context", r.context>>} \ {<<"context", NoContext>>} |-> "context"]
AgentEvidence(r)   == [k \in {<<"permission", AssessmentId(r)>>} |-> "allowed"]
MutantEvidence(m)  == <<"mutant", m>>
ProviderEvidence(found) ==
  [k \in {MutantEvidence(m) : m \in DOMAIN found} |-> found[k[2]]]

Ids(c) ==
  DOMAIN ContextEvidence(request[c])
    \union (IF PermissionGiven(outcome[c]) THEN DOMAIN AgentEvidence(request[c]) ELSE {})
    \union (IF outcome[c].observed THEN DOMAIN ProviderEvidence(results[c]) ELSE {})

NoOutcome == [phases |-> 0, reason |-> "none",
              observed |-> FALSE, hasRun |-> FALSE, rows |-> FALSE]

\* The assessment as _finish builds it: score_json carries the counts of the
\* results, here the results themselves.
AssessmentRow(c) ==
  [run      |-> IF outcome[c].hasRun THEN {RunId(c)} ELSE {},
   scored   |-> IF outcome[c].hasRun THEN results[c] ELSE Empty,
   verdict  |-> outcome[c].reason = "EVIDENCE_SUFFICIENT",
   reason   |-> outcome[c].reason,
   evidence |-> Ids(c),
   trace    |-> [i \in 1 .. outcome[c].phases |-> outcome[c].reason]]

RunRow(c) == [assessment |-> AssessmentId(request[c]),
              mutants    |-> DOMAIN results[c],
              evidence   |-> DOMAIN ProviderEvidence(results[c])]

-----------------------------------------------------------------------------
\* What get_assessment has read: the row of an assessment, and its run.
NothingRead == [at |-> "row", id |-> <<>>, row |-> Empty, run |-> {}]

Init ==
  /\ StoreInit
  /\ pc = [c \in Clients |-> "assess"]
  /\ request \in [Clients -> Requests]
  /\ outcome = [c \in Clients |-> NoOutcome]
  /\ results = [c \in Clients |-> Empty]
  /\ metadata = [c \in Clients |-> Empty]
  /\ reader = NothingRead

\* The transactions of _finish in order.
Goto(c, label) == pc' = [pc EXCEPT ![c] = label] /\ UNCHANGED <<request, outcome, results, metadata>>

\* The outcomes that mutmut's provider may give for some metadata: a mutant
\* that was killed or survived is an error when no selected test is named for
\* it.  stdout and stderr only make more hashes and are left out.
Seen(meta) ==
  {found \in [DOMAIN meta -> Outcomes] :
     \A m \in DOMAIN meta : \/ found[m] = meta[m]
                            \/ meta[m] \in {"killed", "survived"} /\ found[m] = "error"}

\* What the provider may report to the loop.
Observable(r) ==
  CASE r.source \in Reports -> [meta : {Empty}, found : {ReportResults[r.source]}]
    [] r.source = Mutmut    -> UNION {[meta : {m}, found : Seen(m)] : m \in Metadata}
    [] OTHER                -> [meta : {Empty}, found : BackendResults]

\* mutmut's observation is complete: every mutant was killed or survived, and
\* a test was named for it.
Complete(seen) ==
  seen.found = seen.meta /\ \A m \in DOMAIN seen.meta : seen.meta[m] \in {"killed", "survived"}

Assess(c) ==
  /\ pc[c] = "assess"
  /\ \E o \in FinishOutcome(request[c].iterations) \cap Considered,
       seen \in Observable(request[c]) :
       /\ request[c].context = NoContext => o.phases = 1 /\ o.reason = "INSUFFICIENT_EVIDENCE"
       /\ request[c].source = Mutmut /\ o.reason = "EVIDENCE_SUFFICIENT" => Complete(seen)
       /\ outcome' = [outcome EXCEPT ![c] = o]
       /\ results' = [results EXCEPT ![c] = seen.found]
       /\ metadata' = [metadata EXCEPT ![c] = seen.meta]
  /\ pc' = [pc EXCEPT ![c] = IF request[c].context = NoContext THEN "assessment"
                             ELSE "context evidence"]
  /\ UNCHANGED <<store, request>>

WriteContextEvidence(c) ==
  /\ pc[c] = "context evidence"
  /\ SaveEvidence(ContextEvidence(request[c]))
  /\ Goto(c, "context")

WriteContext(c) ==
  /\ pc[c] = "context"
  /\ SaveContextRow(request[c].context, DOMAIN ContextEvidence(request[c]))
  /\ Goto(c, IF PermissionGiven(outcome[c]) THEN "agent evidence" ELSE "assessment")

WriteAgentEvidence(c) ==
  /\ pc[c] = "agent evidence"
  /\ SaveEvidence(AgentEvidence(request[c]))
  /\ Goto(c, IF outcome[c].observed THEN "provider evidence" ELSE "assessment")

\* Mutant: the run is not saved on its own any more.
WriteProviderEvidenceOnly(c) ==
  /\ pc[c] = "provider evidence"
  /\ SaveEvidence(ProviderEvidence(results[c]))
  /\ Goto(c, "assessment")

WriteProviderEvidence(c) ==
  /\ pc[c] = "provider evidence"
  /\ SaveEvidence(ProviderEvidence(results[c]))
  /\ Goto(c, IF outcome[c].hasRun THEN "run" ELSE "assessment")

WriteRun(c) ==
  /\ pc[c] = "run"
  /\ SaveMutation(RunId(c), RunRow(c), IF outcome[c].rows THEN results[c] ELSE Empty)
  /\ Goto(c, "assessment")

WriteAssessment(c) ==
  /\ pc[c] = "assessment"
  /\ SaveAssessment(AssessmentId(request[c]), AssessmentRow(c))
  /\ Goto(c, "returned")

Writing(c) == pc[c] \notin {"assess", "returned", "stopped"}

\* The process dies, or sqlite3.OperationalError leaves _finish: nothing is
\* undone and nothing more is written.
Stop(c) ==
  /\ Writing(c)
  /\ Goto(c, "stopped")
  /\ UNCHANGED store

Write(c) ==
  \/ WriteContextEvidence(c) \/ WriteContext(c) \/ WriteAgentEvidence(c)
  \/ WriteProviderEvidence(c) \/ WriteRun(c) \/ WriteAssessment(c)

\* get_assessment reads the row and, in another connection, the run it names.
ReadRow ==
  /\ reader.at = "row"
  /\ \E id \in DOMAIN assessments :
       reader' = [reader EXCEPT !.at = "run", !.id = id, !.row = assessments[id]]
  /\ UNCHANGED <<store, call>>

ReadRun ==
  /\ reader.at = "run"
  /\ reader' = [reader EXCEPT !.at = "returned",
                  !.run = {mutation_runs[run] : run \in reader.row.run \intersect DOMAIN mutation_runs}]
  /\ UNCHANGED <<store, call>>

Next ==
  \/ \E c \in Clients : (Assess(c) \/ Write(c) \/ Stop(c)) /\ UNCHANGED reader
  \/ ReadRow \/ ReadRun

Spec == Init /\ [][Next]_vars

-----------------------------------------------------------------------------
Labels == {"assess", "context evidence", "context", "agent evidence",
           "provider evidence", "run", "assessment", "returned", "stopped"}

\* Whatever calls interleave and wherever one of them stops, an assessment
\* that is in the store resolves: its context, its run and every Evidence
\* record that it or its run names are there, and the run is its own.
AssessmentResolves ==
  \A id \in DOMAIN assessments :
    /\ id[1] # NoContext => id[1] \in DOMAIN test_contexts
    /\ assessments[id].evidence \subseteq DOMAIN evidence_records
    /\ \A run \in assessments[id].run :
         /\ run \in DOMAIN mutation_runs
         /\ mutation_runs[run].assessment = id
         /\ mutation_runs[run].evidence \subseteq DOMAIN evidence_records

\* The observations and loop traces of an assessment are those of the call
\* that saved it last, never a mixture of two.
TracesAreOfOneCall ==
  \A id \in DOMAIN assessments :
    observations[id] = assessments[id].trace /\ loop_traces[id] = assessments[id].trace

\* Whatever other calls write to the run of a stored verdict: its rows are of
\* the mutants that the verdict counted; those of a report say what the verdict
\* counted, and those of mutmut at most that a mutant it counted is now an
\* error, because the run id does not cover what tests-for-mutant answers.  A
\* kill never becomes a survivor.  Holds while all calls have the budget of the
\* whole loop and every provider a raw_report_hash.
VerdictNotContradicted ==
  \A id \in DOMAIN assessments :
    assessments[id].verdict =>
      \A run \in assessments[id].run :
        /\ DOMAIN mutation_rows[run] = DOMAIN assessments[id].scored
        /\ \A m \in DOMAIN mutation_rows[run] :
             \/ mutation_rows[run][m] = assessments[id].scored[m]
             \/ id[2] \notin Reports /\ mutation_rows[run][m] = "error"

\* Design lines 12 to 14: a conclusion can be traced back.  The results in
\* the store for the run of a verdict are the results the verdict was computed
\* from.  A call with a smaller budget breaks it, and so does a second run of
\* mutmut with the same metadata for which tests-for-mutant fails.
VerdictBackedByRows ==
  \A id \in DOMAIN assessments :
    assessments[id].verdict =>
      \A run \in assessments[id].run : mutation_rows[run] = assessments[id].scored

\* What get_assessment returns is whole, although the row and the run are read
\* at two moments: there is a run if the row names one, it is the assessment's
\* own, and its mutants are those that the score counts.
ReadIsWhole ==
  reader.at = "returned" =>
    /\ reader.row.run = {} <=> reader.run = {}
    /\ \A run \in reader.run :
         run.assessment = reader.id /\ run.mutants = DOMAIN reader.row.scored

=============================================================================
