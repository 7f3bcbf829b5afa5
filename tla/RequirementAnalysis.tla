------------------------- MODULE RequirementAnalysis -------------------------
(***************************************************************************)
(* The v0.2 requirement analysis (requirement_analysis.py) and the mapping *)
(* of a requirement to files (requirement_mapping.py), both pure.          *)
(*                                                                         *)
(* A criterion is what the four regular expressions say of its text.  A    *)
(* requirement is its criteria and the words of its title and body.        *)
(* Evidence EV-REQ-i is the number i; Finding and Risk ids are left out.   *)
(***************************************************************************)
EXTENDS Integers, Sequences, FiniteSets

CONSTANTS
  Actions,     \* what "must" or "must not" may be followed by
  NoAction,    \* stands for a criterion without "must"
  Words,       \* the words of titles, bodies and file stems
  Paths        \* the paths of files

ASSUME NoActionIsNone == NoAction \notin Actions

CriterionType == [ambiguous : BOOLEAN, observable : BOOLEAN, error : BOOLEAN,
                  action : Actions \union {NoAction}, negated : BOOLEAN]
DocumentType  == [criteria : Seq(CriterionType), words : SUBSET Words]
FileType      == [path : Paths, test : BOOLEAN, words : SUBSET Words,
                  form : {"skipped", "unreadable", "text"}]
RepositoryType == Seq(FileType)

-----------------------------------------------------------------------------
Smaller(m, n) == IF m < n THEN m ELSE n

\* The first entries of list that the budget pays for.
Take(list, n) == SubSeq(list, 1, Smaller(Len(list), n))

Finding(category, criterion, evidence) ==
  [category |-> category, criterion |-> criterion, evidence |-> evidence]

SeverityOf(category) == IF category = "conflicting_criteria" THEN "high" ELSE "medium"

NoCriterion == 0

\* The budget of the criteria: four actions are the least, three are spent elsewhere.
Affordable(maxActions) == maxActions - 3

TestabilityFindings(criteria) ==
  {Finding("ambiguous", i, {i}) : i \in {j \in DOMAIN criteria : criteria[j].ambiguous}}
    \union
  {Finding("unverifiable", i, {i}) : i \in {j \in DOMAIN criteria : ~criteria[j].observable}}

\* actions.setdefault(action, {})[negated] = i
Enter(actions, criterion, i) ==
  IF criterion.action = NoAction THEN actions
  ELSE [actions EXCEPT ![criterion.action][criterion.negated] = i]

\* The dictionary `actions` after the first n criteria: for each action and
\* polarity the last criterion that demands it.
ActionsAfter(criteria) ==
  LET after[n \in 0 .. Len(criteria)] ==
        IF n = 0 THEN [a \in Actions |-> [negated \in BOOLEAN |-> NoCriterion]]
        ELSE Enter(after[n - 1], criteria[n], n)
  IN after

\* Mutant: looks for a criterion of the same polarity.
SameOf(criteria, i) ==
  IF criteria[i].action = NoAction THEN NoCriterion
  ELSE ActionsAfter(criteria)[i - 1][criteria[i].action][criteria[i].negated]

OppositeOf(criteria, i) ==
  IF criteria[i].action = NoAction THEN NoCriterion
  ELSE ActionsAfter(criteria)[i - 1][criteria[i].action][~criteria[i].negated]

ConflictFindings(criteria) ==
  {Finding("conflicting_criteria", i, {OppositeOf(criteria, i), i}) :
     i \in {j \in DOMAIN criteria : OppositeOf(criteria, j) # NoCriterion}}

\* Without criteria the title is hashed as EV-REQ-001.
ErrorPathFindings(criteria) ==
  IF \E i \in DOMAIN criteria : criteria[i].error THEN {}
  ELSE {Finding("missing_error_path", NoCriterion, {1})}

Result(evidence, findings, decision, reason) ==
  [evidence |-> evidence, findings |-> findings, decision |-> decision, reason |-> reason]

DecisionOf(findings) ==
  CASE \E f \in findings : SeverityOf(f.category) = "critical" -> "fail"
    [] findings # {}                                            -> "warn"
    [] OTHER                                                    -> "pass"

\* RequirementAnalysisService.analyze.
Analyze(criteria, maxActions) ==
  LET scanned  == Take(criteria, Affordable(maxActions))
      findings == TestabilityFindings(scanned) \union ConflictFindings(scanned)
                    \union ErrorPathFindings(scanned)
      evidence == IF scanned = <<>> THEN {1} ELSE DOMAIN scanned
  IN  CASE maxActions < 4 -> Result({}, {}, "incomplete", "BUDGET_EXHAUSTED")
        [] maxActions >= 4 /\ Len(criteria) > Affordable(maxActions) ->
             Result(DOMAIN scanned, TestabilityFindings(scanned),
                    "incomplete", "BUDGET_EXHAUSTED")
        [] OTHER -> Result(evidence, findings, DecisionOf(findings), "EVIDENCE_SUFFICIENT")

-----------------------------------------------------------------------------
(* The mapping. files are in the order of sorted(); "skipped" is what the  *)
(* file policy passes over, "unreadable" what it counts and cannot read.   *)

MapRequirement(words, evidence, isDir, files, maxFiles) ==
  LET Eligible(file) == file.form # "skipped"
      scanned == Take(SelectSeq(files, Eligible), maxFiles)
      Named(file) == file.form = "text" /\ file.words \intersect words # {}
  IN  IF ~isDir \/ evidence = {} THEN {}
      ELSE {[kind |-> IF scanned[i].test THEN "test" ELSE "code",
             path |-> scanned[i].path, evidence |-> evidence] :
              i \in {j \in DOMAIN scanned : Named(scanned[j])}}

=============================================================================
