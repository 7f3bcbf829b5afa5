------------------------------ MODULE TraceStore ------------------------------
(***************************************************************************)
(* The v0.4 tables of SQLiteTraceStore (trace_store.py) and the four       *)
(* methods that write them.  A table is a function from the primary keys   *)
(* that have a row to their rows.  Each `with self._connect()` block is    *)
(* one SQLite transaction and one action; save_test_context has two.       *)
(***************************************************************************)
EXTENDS Naturals

VARIABLES
  evidence_records,   \* evidence id -> content
  test_contexts,      \* context id -> the evidence ids of the context
  mutation_runs,      \* run id -> row
  mutation_rows,      \* run id -> mutants, mutation_results and trace links
  assessments,        \* assessment id -> row
  observations,       \* assessment id -> its observations, by iteration
  loop_traces         \* assessment id -> its loop traces, by iteration

store == <<evidence_records, test_contexts, mutation_runs, mutation_rows,
           assessments, observations, loop_traces>>

Empty == [key \in {} |-> {}]

\* INSERT OR REPLACE of one row, and of the rows of another table.
Put(table, key, row) ==
  [k \in DOMAIN table \union {key} |-> IF k = key THEN row ELSE table[k]]

PutAll(table, rows) ==
  [k \in DOMAIN table \union DOMAIN rows |->
     IF k \in DOMAIN rows THEN rows[k] ELSE table[k]]

StoreInit ==
  /\ evidence_records = Empty /\ test_contexts = Empty
  /\ mutation_runs = Empty /\ mutation_rows = Empty
  /\ assessments = Empty /\ observations = Empty /\ loop_traces = Empty

\* records maps evidence ids to contents.
SaveEvidence(records) ==
  /\ evidence_records' = PutAll(evidence_records, records)
  /\ UNCHANGED <<test_contexts, mutation_runs, mutation_rows,
                 assessments, observations, loop_traces>>

SaveContextRow(context, evidenceIds) ==
  /\ test_contexts' = Put(test_contexts, context, evidenceIds)
  /\ UNCHANGED <<evidence_records, mutation_runs, mutation_rows,
                 assessments, observations, loop_traces>>

\* The run is replaced and with it, in the same transaction, its mutants,
\* results and links.
SaveMutation(run, row, rows) ==
  /\ mutation_runs' = Put(mutation_runs, run, row)
  /\ mutation_rows' = Put(mutation_rows, run, rows)
  /\ UNCHANGED <<evidence_records, test_contexts, assessments, observations, loop_traces>>

\* Mutant: observations of an earlier save stay where the new ones end.
SaveAssessmentOver(id, row) ==
  /\ assessments' = Put(assessments, id, row)
  /\ observations' = Put(observations, id,
       IF id \in DOMAIN observations THEN PutAll(observations[id], row.trace) ELSE row.trace)
  /\ loop_traces' = Put(loop_traces, id, row.trace)
  /\ UNCHANGED <<evidence_records, test_contexts, mutation_runs, mutation_rows>>

\* The assessment is replaced and with it its observations and loop traces,
\* one of each for every recorded phase.
SaveAssessment(id, row) ==
  /\ assessments' = Put(assessments, id, row)
  /\ observations' = Put(observations, id, row.trace)
  /\ loop_traces' = Put(loop_traces, id, row.trace)
  /\ UNCHANGED <<evidence_records, test_contexts, mutation_runs, mutation_rows>>

=============================================================================
