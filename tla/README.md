# Verification of the AI Native QA agents

TLA+ models of `src/packages/qa_agent`, the Python package behind the `qa-agent`
command, with TLC configurations that check them on small instances and TLAPS proofs
for all values of their constants. Paths below are relative to `src/packages/qa_agent`
unless they start with `docs` or `tests`; "the design" is
`docs/superpowers/specs/2026-09-15-v04-test-effectiveness-design.md`.

Run `tlc -config X.cfg M` in this directory for the runs of `PROJECT.json`, and
`tlapm M.tla` for the proofs, with M one of `GateProofs`, `MutmutRunProofs`,
`EffectivenessProofs`, `AssessmentPersistenceProofs`, `TestEngineeringProofs`, `ReviewProofs`,
`RequirementProofs` and `BenchmarkProofs`.

## 1. Inventory of the system

The package has no threads and no async code. What makes it hard is that its operations
are long sequences of guarded phases with three kinds of limit (iterations, calls,
clock), that files and the git repository change under them, that external tools and
models answer anything or nothing, and that several processes share one SQLite file
without a transaction that spans an operation.

| Part | State | Operations | Correct when |
|---|---|---|---|
| Mutation Gate and score (`effectiveness.py:486-581`) | none | `score_results`, `evaluate_mutation_gate` | a pass needs complete, verified input; better tests never lower the decision; rounding does not move the threshold by more than the rounding step |
| Mutation providers (`mutation_adapters.py`, `mutation_backends.py`) | a temporary copy of the repository, the results collected so far, a deadline | parse an offline report; copy the repository, run mutmut in it, read its metadata, ask for the tests of each mutant | what is reported as complete is complete, a mutant that nothing observed never counts, the result is of the revision it is labelled with where nothing was changed |
| Test effectiveness service (`effectiveness_service.py`) | traces, counters, deadline, permissions of one call of `assess` | eight phases UNDERSTAND, SELECT, MUTATE, OBSERVE, MAP, EVALUATE, VERIFY, GATE; optional model mapping; `_finish` | a verdict comes only from the whole loop on one accepted report or run; limits hold; reasons are true; the model never decides |
| Trace store, v0.4 tables (`trace_store.py:239-442`) | SQLite tables of Evidence, contexts, runs, mutants, results, links, assessments, observations, loop traces | `save_evidence`, `save_test_context`, `save_mutation`, `save_assessment` in one transaction each; `get_assessment` | what is stored resolves, and does not contradict the verdict, whatever other calls write |
| Test engineering (`test_engineering_service.py`, `execution.py`) | candidate patch, gates, execution result, repairs, trace of one `run` | generate, preflight, execute, repair, review | an accepted candidate is the patch that passed every gate; repairs are bounded and earned |
| Review agent (`review.py`) | trace, findings, Evidence, counters, gate of one review | detect, diff, discover, rules, semantic reviewer, verify and gate | a pass or fail comes from the whole plan and from the findings alone; limits hold; reasons have causes; findings rest on their own Evidence |
| Schema migration (`trace_store.py:46-194`) | the tables and `user_version` of the file | every command migrates when it opens the store | a stamped file is complete; nothing is dropped, nothing newer is written |
| Requirement analysis and mapping (`requirement_*.py`, `trace_store.py:196-237`) | requirement and link tables | analyse, save, map coverage, replace links, and the decisions of `cli.py` on them | findings are those of the criteria; links are of one mapping; no decision without a stored requirement and its Evidence |
| Benchmark (`benchmark.py`) | manifests, results, metrics | validate a case, run it, aggregate | a counted result measured what its manifest declares; metrics are those of the counted cases |
| CLI (`cli.py`), evaluation, configuration, reporting, model runtime, adapters | none of their own | parsing, rendering, one request | - |

How they interact: the CLI resolves the revision and calls a service; the assessment
service calls a provider once, the store up to six times and a model mapper at most
once; the gate is a pure function of what the service collected. Test engineering calls
an injected generator and a runner in turn. Calls of several processes meet only in the
store, in the git repository and in report files. There are no callbacks.

Hard behaviours, each a row of `hazards` in `PROJECT.json`:

* the report and the repository are read more than once by a call, and may be edited in
  between;
* the clock is looked at only between phases; a counter's check and consumption are
  parts of one condition;
* providers and mappers raise, time out or contradict themselves;
* the migration is a script of autocommitted statements with the stamp behind it, run by
  every process that opens the file;
* a requirement is read, its Evidence is read and its links are written in three
  connections; `get_assessment` reads in two;
* a benchmark case looks at the disk ten times and more, and its files and repository may
  be edited between any two looks;
* `_finish` saves in up to six transactions, and ids are hashes of only a part of what
  determines a result, so calls overwrite each other's rows;
* exceptions are caught around some calls and not around others.

## 2. Modules

```
EffectivenessGate <- GateDecision <- MCGateDecision, GateProofs
       ^
MutationProviders <- MutmutRun <- MCMutmutRun, MutmutRunProofs
       ^
EffectivenessService   LoopOutcome        ControlledLoop (abstract)
            ^           ^      ^             ^ refinement mapping
         EffectivenessProperties ------------+      TraceStore
            ^             ^            LoopOutcome     ^
EffectivenessProofs   MCEffectivenessService   AssessmentPersistence
                                                   ^             ^
                           MCAssessmentPersistence   AssessmentPersistenceProofs
TestEngineering <- TestEngineeringProperties
                      ^              ^
      TestEngineeringProofs   MCTestEngineering
Review <- ReviewProperties
             ^         ^
    ReviewProofs    MCReview
RequirementAnalysis <- RequirementCommands
                          ^            ^
           RequirementProofs   MCRequirementCommands
Benchmark <- MCBenchmark, BenchmarkProofs
```

**EffectivenessGate** is the arithmetic and the decision. Scores are integers in ten
thousandths (`Quantum`), thresholds in a finer scale (`ThresholdScale`), so that the
half-up rounding of `effectiveness.py:495` and the comparison at 562 are exact.
**GateDecision** is one call of the gate, with the monotonicity properties.

**MutationProviders** has the offline report adapter (what makes a report acceptable,
in the order of the checks, and which process status it gets) and mutmut's
normalization (exit codes, truncation, named tests). A report is its form, revision,
observation status and one entry per mutant; JSON and file names are left out.

**MutmutRun** is the run of mutmut behind that normalization, one step at a time, while
files of the repository are edited and the deadline passes: `Resolve` (the revision, in the
service), `Detect`, `Copy` (one file of `copytree` at a time), `Mutate` (mutmut in the copy,
external: any metadata that the copied versions of the targets allow), `Read` (the
metadata), `CollectOne` (one mutant with its `mutmut tests-for-mutant`), `Conclude`.
`resolve_repository_revision` returns git's HEAD whatever is not committed, and `copytree`
copies the working tree: `resolved` is the tree that the revision names, any of `Heads` or
(a digest, without git) the working tree itself, and `moved` the files that differ from it
when they are copied. The digest is taken in one look here, while the code reads file by
file; a digest of a tree that was edited meanwhile names a tree of `Heads`.
`copytree` takes a `mutants` directory of an earlier run along, which is `old`. The service
asks a backend for a result in one action, with any `MutmutResult` as the answer;
`ResultIsExpected` justifies that.

**EffectivenessService** is one call of `assess`. `pc` names the code between two phase
records; each action is the code from one to the next, with the guard `record_phase`
evaluates (budget, deadline), its tool call and its early returns:

| Action | Code (`effectiveness_service.py`) |
|---|---|
| `NameAssessment`, `RaiseFromName`, `RejectBudget` | 197-205, `_assessment_id` 444-449 |
| `Understand` / `Select` / `Mutate` | 255-271 / 273-286 / 288-299 |
| `Resolve`, `AcquireReport`, `AcquireBackend`, `NoProvider` | 301-337 |
| `Observe`, `RaiseFromObserve` | 349-365 |
| `Map`, `SkipModel`, `AskModel` | 366-394, `_map_survivors` 514-546, `_apply_optional_model_mapping` 557-613, `_merge_model_links` 663-696 |
| `Evaluate` / `Verify` / `Gate` | 395-413 / 414-416 / 417-442 |
| `Finish`, `RaiseFromFinish` | 467-512 |
| `DeadlinePasses`, `EditRepository`, `ReplaceReport` | the world: clock, commits, another process writing the report |

**LoopOutcome** is the contract between the loop and its persistence: the shapes
`(phases, reason, observed, hasRun, rows)` that may reach `_finish`. The service is
checked to keep it (`FinishKeepsContract`), and **AssessmentPersistence** assumes no
more than it; so the two halves compose without the product of their states.

**TraceStore** has the tables as functions and one operator per saving method (its
deletes, upserts and inserts in one transaction). **AssessmentPersistence** lets several
calls write to it transaction by transaction, each stopping anywhere (a killed process,
or a database that stays locked), and a reader that runs `get_assessment` in its two
connections (`ReadRow`, `ReadRun`). Assessment and run ids are tuples of the parts the code
hashes, and hash collisions are left out. `raw_report_hash` is the report for an offline
report. For mutmut it is the output and the metadata (`mutation_adapters.py:409-417`) and
leaves out the answers of `tests-for-mutant`, on which the outcomes rest as well (449-470): a
call carries `metadata` beside its `results`, only the first is hashed, and `Seen` are the
results that some metadata may come out as. mutmut's standard output is left out of the
model's hash, so two calls share a run id here whenever they may in the code.

**ControlledLoop** is what a call promises, without phases' contents: record one phase
at a time within the limit, observe once and only after the permission, decide only at
the end from an observation, or raise. `EffectivenessProperties` instantiates it under a
mapping from the call's variables.

**TestEngineering** is one `run` of the v0.3 service: `Decline`, `Generate`, `Check`
(`_preflight`), `Execute` and `RefuseUnsafe` (`backend.execute` with `validate_patch`),
`Repair`, `GiveUp`, `Review`. A file of a patch is its form (what `ast.parse`, `compile`
and the assertion scan say), whether its path is below a test root, and whether a severe
rule matches it. Evidence ids, hashes and durations are left out. The runners of this
repository return what they can return; an injected one returns or raises anything.

**Review** is one `_review` (v0.1). `pc = "loop"` is the head of the `for`: `TimeOut`,
`ExhaustActions` and `Begin` are its checks in their order, and each branch of the body
is an action: `Detect`, `InspectDiff` (`_diff_evidence`), `DiscoverTests`, `RunRules`
(one file at a time), `SemanticReview` (one call of the model at a time),
`VerifyAndGate` (`_find_related_test_gaps`, the verifier, the evaluator, the gate).
Rules are what they give: a list of severities for a file. `Finding` F-n is
`findings[n]`; the order in the report (the sort at 263) is left out. `Fails` is any
exception of the body: a vanished file, git that cannot be started, a provider.

**RequirementAnalysis** has the pure part of v0.2: `Analyze` is the scan of the criteria
under its budget (`requirement_analysis.py:28-72`), with the two dictionaries of actions
as a recursive function (`ActionsAfter`) because what it finds depends on the order in
which it fills them; `MapRequirement` is the walk over the files under its limit. A
criterion is what the regular expressions say of it, a file the words of its name.

**RequirementCommands** has the processes that share a database. `Connect`, `Create`
(one statement of the script) and `Stamp` are the migration; `Fetch` reads the text;
`Save`, `ReadRequirement`, `ReadEvidence` and `Map` are one connection each; `Review` and
`Engineer` are the decision of the command, with what it does without a requirement or
without Evidence; `Stop` is any end in between. `ExitOf` is `cli.py:283`.

| Command | Actions, in the order of `cli.py:247-308` |
|---|---|
| `analyze-requirement` | `Fetch`, `Connect`, migration, `Save` |
| `map-coverage` | `Connect`, migration, `ReadRequirement`, `ReadEvidence`, `Map` |
| `review-pr` | `Connect`, migration, `Fetch` and `Save` of an issue or both reads, `Review` |
| `engineer-test` | `Connect`, migration, both reads, `Engineer` |

**Benchmark** is `run_benchmark` over manifests that have been loaded. `pc` names the
next look at the disk, in the order of `validate_case` and `run_case`: the revision, the
snapshot, the status, each artifact, the record, the test context, the snapshot in front
of the assessment, `Assess` (any outcome the service may have about what it reads then),
the snapshot behind it. `GitTimesOut` and `ObservationFails` are the two ways a look can
go wrong. `EditTree` and `EditFile` are somebody else, and `touched` counts their edits so
that a property can speak of what a case was given. `Aggregate` is the arithmetic of the
metrics with Python's `None`.

## 3. What the runs check

| Run | Instance | Shows |
|---|---|---|
| `gate_decision` | up to 3 killed, 3 survived and one of each unobserved kind; thresholds around 1/2, 2/3, 0 and 1 | killing one more mutant never lowers the decision, an input that is worse in one respect alone (any higher threshold, one more mutant that timed out, failed or did not run, missing or weaker Evidence of either kind, …) never raises it, and a verdict differs from the exact rate only within half a unit of the fourth decimal |
| `service_calls` | 2 mutants, 2 tests, 2 scenarios, in five families of requests: every report form and 14 contents with 11 contexts and 3 thresholds; mutmut's observations; a mapper with every admissible answer; iterations 0-8, tools 0-3, model budgets 0-1; and two of them with at most 2 edits of 3 report contents and 2 revisions. With fairness | a verdict rests on verified Evidence and one accepted report, and names tests when mutmut gave it; `pass` is clean; the model never changes the decision; `_finish` is handed what its contract says; limits, permissions and reasons; 8 iterations and 3 tool calls suffice; no verdict after a deadline that passed before the last clock check; the call ends and implements `ControlledLoop` |
| `mutmut_run` | 2 targets in 2 versions each, 3 mutants of which 2 may turn up for two targets or in an old directory, 5 kinds of exit code, uncommitted changes in any of the files, 2 edits, at most 2 mutants accepted, the deadline anywhere | what is collected step by step is the result the service model expects; a complete observation leaves nothing out; a mutant of the result is one of the resolved revision's, or of the copied version of a target that differed from it, or an earlier run left it |
| `store_calls` | 2 calls on 2 reports, mutmut with 3 differing metadata and `tests-for-mutant` failing for any of the mutants, or no context, and a reader | what is stored resolves, traces are of one call, the rows behind a verdict do not contradict it, what is read back is whole |
| `test_engineering` | all 20 one-file patches and 6 of two files, 3 kinds of runner, 0-2 repairs, with fairness | accepted candidates, runs, repairs, reasons and the trace mean what they say; a run ends |
| `review_loop` | 2 test files, up to 2 matches and 2 issues each; actions 0-7, tools 0-4, model calls 0-3, 1 or 2 files at most, three `fail_on`, with and without base and reviewer, with fairness | decisions, gate, findings, limits, reasons and trace mean what they say, each match of a rule has Evidence of its own; a review ends |
| `requirement_commands` | 2 processes with any commands on two requirements and three texts, in 6 kinds of database (new, v1, half migrated, current, newer, with rows); one process that analyses each of the 781 texts of up to 4 criteria out of 5 kinds | a stamped file is complete, migrations only add, links are of one mapping, decisions rest on a stored requirement, the analysis says what its definition says |
| `benchmark_cases` | one case of 9 manifests with 2 edits, two cases with 1; 4 kinds of repository | a counted result measured the declared content, except in the window the code leaves; metrics are shares of the counted cases |

Runs that are expected to fail show where code and documents disagree:

| Run | Disagreement |
|---|---|
| `doc_verdict_unbacked` | a call with a smaller budget deletes the mutants and results behind a saved verdict (`trace_store.py:344`). On the instance of `store_calls`, where all budgets are whole, the property fails as well: a second mutmut run with the same metadata, for which `tests-for-mutant` fails, rewrites the results |
| `doc_timeout_lost` | a defect: the timeout handler adds `bytes` to `str` when the tests wrote something (`execution.py:69`), so a timeout becomes a `TypeError` |
| `doc_review_timeout` | a defect: a timeout of the gap search makes the review incomplete (`review.py:348`), and line 268 then writes pass or fail over it |
| `doc_review_pr_budget` | the v0.2 design (110-112) says that an exhausted budget leads to an incomplete decision; `review-pr` passes on the requirement and the Evidence of an exhausted analysis (`cli.py:273-278`) and decides |

Every property of a passing run is paired in `PROJECT.json` with a mutant, a plausible
bug in one definition (they stand above the definition they replace), that violates it.

**Bounds.** Two mutants and two tests give every cardinality the code tells apart (no, one,
several candidates; killed beside survived). `record_phase` treats all phases alike, and
budgets 0 to 8 cover every place to stop and the whole loop; 0 to 3 cover the three tool
calls. Two edits allow a report to be replaced and put back between its two reads. Two
clients suffice for an overwrite: every operation that destroys rows involves two ids or two
calls; three clients were also run once without the reader (4.2 million states), without
another outcome. The five families of `service_calls` share one run: `MCInit` and `MCNext`
keep edits to the requests for edits and many report contents to the requests about reports,
since what one family varies another leaves at its default. Two repairs reach the first, a
middle and the last round. Of a review's budgets one at a time is varied, from none to more
than the plan needs, since each is checked on its own; two files let a model budget end
between them, and two issues let the findings outnumber the Evidence. In
`requirement_commands` the script has four statements, so a process can stop in front of the
first, between two and behind the last; four criteria let a contradiction stand beside two
others and exceed the budget; a process with one of these texts runs while the other waits
(`MCSpec`), since texts differ only in what they give. In `mutmut_run` two targets let a
mutant turn up twice and one target be without metadata, and two versions tell the resolved
one from another; HEAD is one tree, from which the working tree differs in any of the
targets, and two edits can change both targets, or one there and back. In `store_calls`
two of the metadata name one mutant with contradicting exit codes and one names another mutant
too, so runs are told apart by what is hashed, and equal ones by what is not. In
`benchmark_cases` two edits can change a thing and change it back between two looks; with
two cases one edit suffices, as cases share nothing but the disk. `MaxEdits`, `MaxCases`,
`MaxEligible`, `MaxMutants` and the request sets are the only bounds; no guard has others.
`CHECK_DEADLOCK FALSE` is set because a call or a run stops when it has returned.

**Fairness.** `Spec` of the service asks for weak fairness of `Step`, the call's own
next action: it is sequential code whose steps are always enabled until it returns, its
subprocesses have timeouts (`mutation_adapters.py:376-383`, git in 131-142), and the
mapper is assumed to return or raise. Edits and the deadline have no fairness: they may
never happen. `TestEngineering` asks for weak fairness of `Next` with the same
reading: `subprocess.run(timeout=...)` bounds a run, a generator is assumed to return or
raise; and so does `Review` of `Step`, whose git calls have timeouts too, while the clock
may stand still. The models of mutmut's run, the store, the commands and the benchmark have safety
properties only and no fairness.

## 4. What is proved

Every invariant and every safety action property of the passing runs is a theorem, for all
values of the constants that satisfy the typing assumptions below. TLC has checked each of
the inductive invariants named here on the instance of its run.

`GateProofs`, for any counts, thresholds, links and signals:

* `WorseNeverHelps`: a case for each single worsening of the input. The arithmetic is that of a
  threshold that is raised alone (`LowerThresholdReached`); one more mutant without a result
  leaves the rate as it was (`UnobservedKeepRate`) and can only take completeness away. One
  more survivor is not among the worsenings: the first mutant with a result makes a score
  computable. `MoreKillsHelp` compares a survivor with a kill.
* `MoreKillsHelp` and `RoundingIsHarmless`, from `QuotientMonotone` (a larger fraction has no
  smaller quotient) and the bounds of a rounded quotient. The solver has no induction and
  little nonlinear arithmetic; the products are brought to a common factor by hand
  (`TimesMonotone`, `TimesStrict`, `AtMostQuotient`).

`MutmutRunProofs`, for any files, versions, exit codes, tests and number of edits:

* `RevisionKept`: `RevisionInv`, that a file without uncommitted changes, and not edited since,
  is copied as it is in the resolved revision, at each place of the copy loop.
* `CollectionKept`: `CollectionInv`, of clean and unclean runs alike, that every mutant that is no longer to do has one result,
  of its own exit code, that no mutant turned up twice, and that `complete` says of the results
  what it says (nothing sets it again).
* `ResultsAreExpected`, `CompleteMeansWhole` and `ResultsAreOfTheRevision` follow. The first is
  what allows the service to take any `MutmutResult` from its backend.

`EffectivenessProofs`, for all mutants, tests, contexts, reports, requests and injected
results:

* `TypeCorrect`: `TypeOK`.
* `LoopInvariant`: `LoopInv`. The properties below are not inductive alone: that a
  verdict has all phases depends on every earlier label having its own prefix. `LoopInv`
  says so: `PhasesArePrefix` (the traces are a prefix of the eight, only the last may be
  terminated), `RunningIsOnCourse` (how many are recorded at each label),
  `PermissionsPrecede`, `ProviderInOrder` (tool calls paid and revision known before the
  provider is asked) and `DecidedLast` (a decision only with all of them).
* `VerdictIsLast`, `ProviderIsPermitted`, `PhasesStand` follow from it, the last two as
  action properties.
* `BudgetsAreKept`, `ReasonsAreReal` and `WholeLoopFits`, each with a small strengthening
  (`toolCalls` never falls; a reason stands from the step that gave it; at each label there is
  room in a budget of eight and three).
* `ContractIsKept`, with `ContractInv`: at which labels provider Evidence, a run and permission
  Evidence exist. With it, what `AssessmentPersistenceProofs` shows of any outcomes of
  `LoopOutcome` holds of those of the service.
* `EvidenceInvariant`: `EvidenceInv`, that the provider's result, links and signals stand from
  the label at which they are made until the gate has decided on them. `VerdictIsBacked`,
  `ModelIsHarmless` and `PassIsClean` follow, the last with what
  rounding may hide (`ReachedRate`) and the count of outcomes (`ScoreCounts`).
* `DeadlineHolds`: `Late`, a call behind its deadline and in front of the last clock check,
  is never left for a verdict.
* `LoopIsControlled`: every behaviour of the service is one of `ControlledLoop`'s safety
  part: initial states map to initial states and every action to `Advance`, `Observe`,
  `Conclude`, `Raise` or a stutter.

`AssessmentPersistenceProofs`, for any number of calls and any outcomes of the contract:

* `AssessmentsResolve`: `ResolveInv`. `Progress` says what a call at each label has already
  written; `Grows`, that no table loses a key; so what an assessment names stays there.
* `TracesHold`: assessments, observations and loop traces have the same keys.
* `ReadsAreWhole` and `VerdictsStand`, from `WholeInv`: a run id determines the mutants of the
  run and which results they may have (`MutantsOfRun`, `Possible`): those of the report, or the
  outcomes that mutmut's metadata allow. So a run that is written again is of the same mutants,
  and a kill or a survivor behind a verdict stands or turns into an error. That needs
  `HashesGiven`, that every provider gives a `raw_report_hash`, and for the rows
  `WholeBudgets`, that every call may record all eight phases. Neither can be dropped:
  `doc_verdict_unbacked` shows what a smaller budget does. That the rows are equal to what the
  verdict counted (`VerdictBackedByRows`) holds for reports only.

`TestEngineeringProofs`, for all patches, requests and numbers of repairs:

* `CandidateTyped`: `TypeOK`, strengthened by `TypeInv` (between generator and verdict
  there is a patch, and after a run a result).
* `Controlled`: `ControlInv`, the inductive core: at `checked` and `executed` the patch
  is in order and the gates are those of its own preflight; at `executed` the result is
  of the current patch.
* `OnlyVettedRuns`, then `RepairsAreBounded` (a given-up patch was vetted because its
  run was), `RepairsFollowFailures`, `AcceptedMeansChecked`, `CandidateReasonsAreTrue`.
* `TraceIsTold`: `Rounds`, how many entries of each action the trace has at each label and the
  iteration of its last. A round adds three entries and one iteration, which is why the
  review, numbered by the length of the trace, never comes before the last repair.

`ReviewProofs`, for all files, matches, issues and budgets:

* `ReviewTyped`: `TypeOK`, strengthened by `LabelInv` (a label is the plan's action of
  that number; there is a next action in front of one).
* `CourseHolds`: `CourseInv`, the inductive core: `Undecided` (before the end the result
  is still the pass it started as, without a gate, and no git call has failed),
  `OnPlan` (trace and observations are the plan so far) and `OneCallEach` (calls made
  and files left add up to the files).
* `HowItReturns` lists the ways a step can end a review; from it and the core follow
  `VerdictsAreEarned`, `CutShortDecidesNothing` and `ReviewReasonsAreReal`.
* `ReviewLimitsHold` adds `ToolsCounted`: the calls that were counted and not refused
  are those among the observations.
* `FindingsAreBacked`: `RestInv`, which adds to the property that nothing is found before the
  files are known (`NotYetFound`). That no two findings of rules share Evidence is kept because
  Evidence only grows at its end.
* `TraceIsTold`: `RulesNamed` (once the rules are done their observation names all of their
  Evidence) carries what a finished review's trace says of it.

`RequirementProofs`, for any number of processes, any script, any documents and databases:

* `CommandsTyped`: `TypeOK` with `WorkTyped` (the work of a command has its document).
* `SchemaHolds`: `SchemaInv`, the inductive core of the migration. A process between
  `Connect` and `Stamp` knows which statements are behind it, tables are never dropped,
  hence they are all there when it stamps. `StampMeansComplete` and `MigrationsAdd` follow.
* `LinksAreWhole` and `DecisionsRest`, from `CommandInv`: links carry the Evidence of the
  one mapping that wrote them; a requirement that was found stays stored.
* `AnalysesAreSound`: the scan against what "testable" means. `AfterExists` and `AfterTells`
  show by induction over the criteria that the recursive `ActionsAfter` is a function and holds,
  for each action and polarity, the last criterion that demands it or none; `OppositeIs` then
  finds a contradicting criterion exactly when there is one before. `AnalysisInv` says that
  the command holds the analysis of what it fetched, whoever else writes.

`BenchmarkProofs`, for any number of cases, any manifests, checkouts and edits:

* `MeasuredIsDeclared`: `CaseInv`, what a case knows of the disk at each of its looks, as long
  as the thing it looked at has not been touched since the case began.
* `MetricsAreOfThePool`: `MetricsInv` (a case has the metrics of what it measured, or none),
  and that a sum of sizes over cases is the size of their pool (`SumIsSize`, `TotalIsSize`),
  since elements of different cases are told apart. That the fold of the community module
  adds up is shown whatever case it picks next.

**Induction over data.** The library's induction theorems take a predicate as a parameter,
which the provers here cannot instantiate. Where a proof needs induction it is done by a least
counterexample, which is a fact about sets: `Least` and `Counting` in `RequirementProofs` (from
`WFMin` and `NatLessThanWellFounded`), `Smallest` in `BenchmarkProofs` (from `WFMin` and
`FS_StrictSubsetOrderingWellFounded`).

**Assumptions.** They are the typing of constants, and the runs evaluate them:
`Requests \subseteq RequestType`, reports of `ReportType`, inputs of the gate (`InputsTyped`: a
score that `score_results` can give), exit codes and mutants of known targets (`MutmutInputs`),
`Patches` non-empty sequences of files, finite `Mutants`, `Paths`, labels and survivors
(`MeasuresTyped`), documents, requests, manifests' files and databases of theirs
(`BenchmarkInputs`, `DatabasesTyped`: a database that claims the version is complete), and that
`"none"` and Python's `None` name nothing else. `HashesGiven` and `WholeBudgets` are hypotheses
of two theorems only.

**Proved and not run:** `RecordedPhasesStand` (`PhasesStand`), `RepairsBounded`
(`RepairsAreBounded`), `IncompleteHasNoVerdict` (`CutShortDecidesNothing`), `LimitsHold`
(`ReviewLimitsHold`), `VerdictNeedsWholeLoop` (`VerdictIsLast`) and the types of a candidate
and of a review (`CandidateTyped`, `ReviewTyped`); runs checked them before they were
proved.

**Only model-checked:** liveness (`CallEnds`, `RunEnds`, `ReviewEnds`, the fairness of
`ControlledLoop`) and everything with `ENABLED`, which the prover does not do. That a mapping
finds what it should (`MapRequirement`) has no property but through the links.

## 5. Observed and not kept as a run

* `assess` can raise instead of returning a terminal state: the report's read (447),
  `MutationRun`'s validation (350) and the second `git rev-parse` (500-502) are outside
  any handler, while `docs/v0.4-engineering/AGENT_LOOP.md:28` lists only states. In the
  model these are `RaiseFromName`, `RaiseFromObserve`, `RaiseFromFinish`; `CallEnds`
  counts them as ends.
* The design (646) checks the clock before every action; VERIFY and GATE of `assess` run
  without (`effectiveness_service.py:395` is the last check), so a verdict may come
  after the deadline.
* The assessment id is hashed from one read of the report and the run parsed from
  another (447, `mutation_adapters.py:150`): a report replaced in between gives a
  verdict under the id of the first, against the design (807).
* A review with two issues from the reviewer and no other Evidence is incomplete
  (`runtime_services.py:11` wants as much Evidence as findings, and all issues of a file
  share one): the more the reviewer finds, the less is decided.
* A reviewer's finding carries the status that its provider gives (`review.py:256`), "verified"
  included, while `docs/v0.1-engineering/EVIDENCE_AND_GATES.md:78` allows a model's own judgement
  by default at most `partially_verified`. `FindingsRestOnEvidence` bounds only the status of the
  Evidence; the plain `ModelProvider.invoke` of this repository leaves the default "unverified".
* An unverified finding of the reviewer fails the gate like any other when `fail_on`
  names `medium` (`review.py:268`). `LoopTrace` entries of a review stay `running` (223).
* `qa-agent review` exits with 0 when the review is incomplete (`cli.py:357`), the other
  commands with 2.
* An oversized report ends as `INSUFFICIENT_EVIDENCE`
  (`mutation_adapters.py:154, 181`), not as `BUDGET_EXHAUSTED` (the design, 648).
* The rate is rounded before it is compared (`effectiveness.py:562`): 66.665 % passes a
  threshold of 66.67 %. `VerdictWithinRounding` bounds the effect.
* A provider may call a run `partial` without an eligible mutant
  (`mutation_adapters.py:254, 488`).
* A call that runs out of iterations between OBSERVE and GATE saves a run without its
  results (`effectiveness_service.py:367`), against the design (328).
* Evidence ids of mutants are global: a later result about the same mutant rewrites the
  record that an earlier verdict names (`mutation_adapters.py:244, 473`).
* `raw_report_hash` of mutmut leaves out what `tests-for-mutant` answers
  (`mutation_adapters.py:409-417`), so two runs with different outcomes may share a run id, and
  the later one rewrites the results behind an earlier verdict. `VerdictNotContradicted` is what
  remains true. A backend without `raw_report_hash`, which the protocol allows, shares one run
  id between all runs of an assessment id (`effectiveness_service.py:349`) and loses its rows
  as soon as two results differ; the providers of the repository all give a hash.
* mutmut's run is labelled with HEAD and sees the working tree: with uncommitted changes the
  label names another tree than the one that was mutated (`effectiveness_service.py:126-137`,
  `mutation_adapters.py:370`). `ResultIsOfTheRevision` holds for targets without such changes.
* Test engineering reports `max_iterations = 4 + max_repairs` and records iterations up
  to `5 + max_repairs`, plus a review numbered by the length of the trace
  (`test_engineering_service.py:54, 168`); the budget is reported, never enforced.
* `PatchSafetyError` of a repaired patch leaves `run` (`test_engineering_service.py:142`),
  while that of the first one becomes a terminal state; the design of v0.3
  (`docs/superpowers/specs/2026-09-07-v02-closeout-v03-test-engineer-design.md:21`) says that
  a path out of bounds rejects the candidate. In the model this is `RefuseUnsafe`.
* A target that mutmut left no metadata for does not make the observation partial
  (`mutation_adapters.py:387-402` looks at the files that are there), and metadata that lay in
  the repository before are collected as if they were of this run.
* `_preflight` catches `ValueError` of `compile` (230), but a `return` outside a function
  is a `SyntaxError` there and leaves `run`; and it reports gates that it did not reach
  as passed (222). The Evidence ids of patches that were repaired away are dropped (144).
* A verdict may rest on scenario Evidence that is not verified: the design (577) makes all
  referenced Evidence a part of complete input, the code looks at execution, assertion and
  provider Evidence (`effectiveness_service.py:417`).
* `assessments.context_id` is always stored as NULL (`trace_store.py:384`).
* A requirement that is analysed again with fewer criteria keeps the links of the old ones
  until the next mapping; an incomplete mapping erases earlier links; and a command that
  reads the requirement and its Evidence may get those of two analyses
  (`cli.py:257-268`). `LinksAreOfOneMapping` is what remains true.
* An analysis that ran out of its budget is saved like any other (`cli.py:256`).
* Two Markdown files with the same stem share a requirement id; the risk id `R-001` is given
  twice; the patterns match whole words, so `\bdeclin\b` misses "declined".
* An uncaught exception of a command exits with 1, as a failed gate does.
* A benchmark case assesses what lies on the disk when it runs: a file replaced after its
  hash was checked is used, although `docs/v0.4-engineering/REAL_PROJECT_VALIDATION.md:16-17`
  pins it. `MeasuredAsDeclared` holds for what was not touched in that window.
* Only `subprocess` errors of git's exit code are handled; a timeout leaves `run_case` and
  the whole benchmark with it (`GitTimesOut`).
* In the benchmark's metrics true negatives and cost are never measured, so
  `false_positive_rate` and `cost_per_report` are always `None`; `useful_finding_rate`
  equals precision; an incomplete assessment counts every expected survivor as missed; the
  `requirement` artifact is hashed and never used.

## 6. Not modelled, and why

Hashing, JSON, redaction, rendering and argument parsing (`reporting.py`, most of `cli.py`):
pure formatting. The rules of `rules.py`: regular expressions, present as the flag `finding`
of a patch and as `MatchLists` of a review. The HTTP client of `model_runtime.py`: present
as "any admissible answer or an exception". What mutmut does inside its process is present
as the metadata it may leave. The evaluation harness (`evals.py`) runs labelled cases
through the pure functions above and compares what comes out with the labels; it keeps no
state and is not modelled. `TerminationPolicy.evaluate` (`runtime.py:183-212`) is not called
by the service. PIT and Stryker only report that they are not supported.

## 7. What remains

All safety properties of the runs are proved. In this order:

1. **The composition as one theorem**: `ContractIsKept` and `AssessmentPersistenceProofs` meet in
   `LoopOutcome`; a module that gives each client a whole call of the service could state that
   its persistence refines `AssessmentPersistence` with the service's own outcomes.
2. **mutmut's run as the service's backend**: `ResultsAreExpected` could become a refinement of
   the one action `AcquireBackend`.
3. **The mapping of files** (`MapRequirement`) against a reference definition.
4. **Evaluation harness** (`evals.py`), if it comes to keep anything between cases.

Disagreements that are settled are listed in section 5 and have no run of their own.
