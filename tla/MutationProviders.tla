-------------------------- MODULE MutationProviders --------------------------
(***************************************************************************)
(* What the two mutation providers make of what they read                  *)
(* (mutation_adapters.py): OfflineMutationReportAdapter.parse turns a JSON *)
(* report into a normalized result or rejects it as a whole, and           *)
(* MutmutMutationBackend.run normalizes the exit code that mutmut stored   *)
(* for each mutant.                                                        *)
(*                                                                         *)
(* A normalized result gives every mutant of the universe Mutants an       *)
(* outcome, "absent" for one the provider does not report, and the         *)
(* selected tests that ran against it.                                     *)
(***************************************************************************)
EXTENDS EffectivenessGate

CONSTANTS Mutants,    \* the universe of mutant identities
          Tests       \* the universe of test identities

Absent == [outcome |-> "absent", tests |-> {}]

Reported(results) == {m \in Mutants : results[m].outcome # "absent"}

OutcomesOf(results) == {results[m].outcome : m \in Reported(results)}

Eligible == {"killed", "survived"}

Result(process, observation, results, unverified, inScope) ==
  [process     |-> process,
   observation |-> observation,
   results     |-> results,
   unverified  |-> unverified,   \* mutants whose Evidence is not verified
   inScope     |-> inScope]      \* paths and tests are those of the context

NoResult == Result("none", "none", [m \in Mutants |-> Absent], {}, FALSE)

-----------------------------------------------------------------------------
(***************************************************************************)
(* The offline report.  A report file is a record of                       *)
(*   form         "ok", or what is wrong with it: "oversize" (more bytes   *)
(*                or mutants than the budget allows), "malformed" (bytes,  *)
(*                JSON, schema, a field or a path), "duplicate" (a mutant  *)
(*                id occurs twice), "unparsable" (JSON nested too deep),   *)
(*                "missing", "unreadable" (a directory, no permission);    *)
(*   revision     the repository revision it claims to be about;           *)
(*   observation  "complete" or "partial", any other value is malformed;   *)
(*   entries      for each mutant its outcome, executed and killing tests; *)
(*   selected     the selected tests; inScope as in a result.              *)
(***************************************************************************)

ReportForms == {"ok", "oversize", "malformed", "duplicate", "unparsable",
                "missing", "unreadable"}

EntryWellFormed(e, selected) ==
  /\ e.outcome \in Outcomes
  /\ e.executed \subseteq selected
  /\ e.killing \subseteq e.executed
  /\ e.outcome = "killed" <=> e.killing # {}
  /\ e.outcome = "not_run" => e.executed = {}

ReportAccepted(report, revision) ==
  /\ report.form = "ok"
  /\ report.revision = revision
  /\ \E m \in Mutants : report.entries[m].outcome # "absent"
  /\ \A m \in Mutants :
       report.entries[m].outcome # "absent"
         => EntryWellFormed(report.entries[m], report.selected)

\* Mutant: the observation is passed on as the process status.
ReportProcessIsObservation(observation, outcomes) == observation

\* outcomes is not empty, ReportAccepted sees to that.
ReportProcess(observation, outcomes) ==
  LET all == outcomes \subseteq Eligible
      any == outcomes \cap Eligible # {}
  IN  CASE observation = "partial"          -> "partial"
        [] observation = "complete" /\ all  -> "completed"
        [] observation = "complete" /\ any /\ ~ all -> "partial"
        [] observation = "complete" /\ ~ any /\ "error" \in outcomes -> "error"
        [] OTHER                            -> "not_run"

\* Every Evidence record that the adapter creates is "verified".
ParseReport(report) ==
  LET results == [m \in Mutants |->
                    [outcome |-> report.entries[m].outcome,
                     tests   |-> report.entries[m].executed]]
  IN  Result(ReportProcess(report.observation, OutcomesOf(results)),
             report.observation, results, {}, report.inScope)

-----------------------------------------------------------------------------
(***************************************************************************)
(* mutmut.  An observation of one mutant is the status that its exit code  *)
(* stands for, "unchecked" when mutmut stored no exit code, and the        *)
(* selected tests that `mutmut tests-for-mutant` names, none when that     *)
(* command fails.                                                          *)
(***************************************************************************)

MutmutStatuses ==
  {"killed", "survived", "timeout", "no tests", "skipped",
   "caught by type check", "suspicious", "segfault", "interrupted", "unchecked"}

MutmutNotRun == {"no tests", "skipped", "caught by type check"}

MutmutOutcome(o) ==
  CASE o.status \in Eligible /\ o.tests # {} -> o.status
    [] o.status = "timeout"                  -> "timeout"
    [] o.status \in MutmutNotRun             -> "not_run"
    [] OTHER                                 -> "error"

MutmutEntry(o) ==
  [outcome |-> MutmutOutcome(o),
   tests   |-> IF o.status \in MutmutNotRun THEN {} ELSE o.tests]

\* clean: the mutmut process exited with 0.
MutmutProcess(clean, outcomes) ==
  CASE ~ clean                                                  -> "error"
    [] clean /\ outcomes \subseteq Eligible                     -> "completed"
    [] clean /\ outcomes \cap (Eligible \union {"timeout"}) = {} -> "not_run"
    [] OTHER                                                    -> "partial"

\* observed gives the reported mutants, a non-empty set, their observations.
MutmutResult(clean, observed) ==
  LET results == [m \in Mutants |-> IF m \in DOMAIN observed
                                    THEN MutmutEntry(observed[m]) ELSE Absent]
      process == MutmutProcess(clean, OutcomesOf(results))
  IN  Result(process, IF process = "completed" THEN "complete" ELSE "partial",
             results, {}, TRUE)

MutmutResults ==
  UNION {{MutmutResult(clean, observed) :
            clean \in BOOLEAN,
            observed \in [S -> [status : MutmutStatuses, tests : SUBSET Tests]]} :
         S \in (SUBSET Mutants) \ {{}}}

=============================================================================
