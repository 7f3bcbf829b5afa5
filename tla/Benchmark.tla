------------------------------- MODULE Benchmark -------------------------------
(***************************************************************************)
(* The real-project benchmark (benchmark.py): cases whose manifests have   *)
(* been loaded are validated and run one after the other, and the results  *)
(* are aggregated.                                                         *)
(*                                                                         *)
(* Every look at the disk is a step: the revision, the snapshot and the    *)
(* git status of the repository, each hash, the test context, the snapshot *)
(* in front of the assessment, what the assessment reads, the snapshot     *)
(* behind it.  Between two of them somebody else may edit the repository   *)
(* or one of the files, which lie outside of it.  assess is one step with  *)
(* any outcome the service can have; SHA-256 is taken as injective.        *)
(***************************************************************************)
EXTENDS Integers, Sequences, FiniteSets, FiniteSetsExt

CONSTANTS
  Payloads,       \* the manifests there are, well formed or not
  Trees,          \* [git, revision, content, dirty] of a repository
  NoTree,         \* there is no such directory
  Contents,       \* of the files a manifest names
  NoFile,         \* there is no such file
  None,           \* Python's None
  RequirementOf,  \* the requirement_id of a content that is a test context, or None
  Reported,       \* [survivors, verified] that an assessment finds in a content
  FirstTrees,     \* what is there at first
  FirstFiles,
  MaxCases, MaxEdits

Artifacts == {"requirement", "test_context", "mutation_report"}
Record    == "record"
Names     == Artifacts \union {Record}
Things    == Names \union {"tree"}

Untouched == [thing \in Things |-> 0]

ASSUME BenchmarkInputs ==
  /\ MaxCases \in Nat
  /\ FirstFiles \subseteq [Names -> Contents \union {NoFile}]

-----------------------------------------------------------------------------
(***************************************************************************)
(* Manifests.  wellFormed stands for the checks of single fields; source   *)
(* is what argv selects, None when it is no fixed record or names other    *)
(* paths than the manifest's.                                              *)
(***************************************************************************)

\* load_manifest gives a manifest for these payloads only.
Loads(p) ==
  /\ p.wellFormed
  /\ p.status = "dirty" => p.allowDirty /\ p.snapshot # None /\ p.reason # None
  /\ p.adjudication = "resolved" => p.pins[Record] # None

Manifests == {p \in Payloads : Loads(p)}

\* The measures of an adjudicated case.
Metrics == [truePositive : Nat, falsePositive : Nat, falseNegative : Nat,
            reported : Nat, explained : Nat, eligible : Nat]

\* A manifest has so many labels, an assessment so many survivors, and None is
\* neither a number nor the measures of a case.
ASSUME MeasuresTyped ==
  /\ \A m \in Manifests : IsFiniteSet(m.labels)
  /\ \A source \in DOMAIN Reported :
       IsFiniteSet(Reported[source].survivors) /\ IsFiniteSet(Reported[source].verified)
  /\ None \notin Nat /\ None \notin Metrics

Snapshot(t) == IF t = NoTree THEN None ELSE t.content

\* What the manifest's policy on the working tree says of what was observed.
StatusMatches(m, t) ==
  t.git => /\ t.dirty <=> m.status = "dirty"
           /\ t.dirty => m.allowDirty

SnapshotMatches(m, snapshot) ==
  m.status = "dirty" \/ m.snapshot # None => m.snapshot = snapshot

-----------------------------------------------------------------------------
VARIABLES
  manifests,      \* the cases, in their order
  tree, files,    \* what is on the disk
  pc,
  valid,          \* validate_case has gathered no reason yet
  snapshot,       \* the last snapshot taken
  inHand,         \* what the case has read: its context, its source
  assessment,     \* [decision, survivors, verified]
  results,        \* of the cases that are done
  edits,          \* how often something was edited
  touched         \* how often each thing was, since the case began (history)

disk   == <<tree, files, edits, touched>>
case   == <<valid, snapshot, inHand, assessment>>
vars   == <<manifests, pc, results, disk, case>>

manifest == manifests[Len(results) + 1]

NothingRead == [context |-> None, source |-> None]

Init ==
  /\ manifests \in UNION {[1..n -> Manifests] : n \in 1..MaxCases}
  /\ tree \in FirstTrees /\ files \in FirstFiles
  /\ pc = "revision" /\ valid = TRUE /\ snapshot = None
  /\ inHand = NothingRead /\ assessment = None
  /\ results = <<>> /\ edits = 0 /\ touched = Untouched

\* The result of a case is appended, and the next case begins.  What the case
\* worked with, from inHand on, is kept as history.
Finish(decision, metrics, measured) ==
  /\ results' = Append(results, [decision     |-> decision,
                                 adjudication |-> manifest.adjudication,
                                 metrics      |-> metrics,
                                 measured     |-> measured,
                                 inHand       |-> inHand,
                                 assessment   |-> assessment,
                                 tree         |-> tree,
                                 touched      |-> touched])
  /\ pc' = IF Len(results) + 1 = Len(manifests) THEN "done" ELSE "revision"
  /\ valid' = TRUE /\ snapshot' = None /\ inHand' = NothingRead /\ assessment' = None
  /\ touched' = Untouched
  /\ UNCHANGED <<manifests, tree, files, edits>>

\* The case ends without having been measured.
GiveUp == Finish("incomplete", None, FALSE)

-----------------------------------------------------------------------------
(* validate_case                                                           *)

Goto(label) == pc' = label

\* One look: if it is not right there is a reason more, and validation goes on.
Look(right, label) ==
  /\ valid' = (valid /\ right)
  /\ Goto(label)

ObserveRevision ==
  /\ pc = "revision"
  /\ IF tree = NoTree
     THEN Look(FALSE, "requirement")
     ELSE Look(tree.revision = manifest.revision, "snapshot")
  /\ UNCHANGED <<manifests, results, disk, snapshot, inHand, assessment>>

ObserveSnapshot ==
  /\ pc = "snapshot"
  /\ snapshot' = Snapshot(tree)
  /\ Goto("status")
  /\ UNCHANGED <<manifests, results, disk, valid, inHand, assessment>>

\* git status, which may fail, and what the observations come to.  The tree may
\* have gone meanwhile; then git status is not run.
ObserveStatus ==
  /\ pc = "status"
  /\ \E failed \in BOOLEAN :
       /\ failed => tree # NoTree /\ tree.git
       /\ Look(/\ ~failed
               /\ tree # NoTree => StatusMatches(manifest, tree)
               /\ SnapshotMatches(manifest, snapshot),
               "requirement")
  /\ UNCHANGED <<manifests, results, disk, snapshot, inHand, assessment>>

\* OSError or ValueError while the repository is looked at.
ObservationFails ==
  /\ pc \in {"revision", "snapshot", "status"}
  /\ Look(FALSE, "requirement")
  /\ UNCHANGED <<manifests, results, disk, snapshot, inHand, assessment>>

\* git does not answer in 10 seconds: nothing catches TimeoutExpired.
GitTimesOut ==
  /\ pc \in {"revision", "status"} /\ tree # NoTree /\ tree.git
  /\ Goto("raised")
  /\ UNCHANGED <<manifests, results, disk, case>>

After(name) ==
  CASE name = "requirement"     -> "test_context"
    [] name = "test_context"    -> "mutation_report"
    [] name = "mutation_report" -> Record

\* Mutant: the file is there, whatever is in it.
PresentOnly(name) == files[name] # NoFile

\* The hash of a file is the pinned one.
Pinned(name) == files[name] # NoFile /\ files[name] = manifest.pins[name]

\* A file may be unreadable as well.
CheckArtifact ==
  /\ pc \in Artifacts
  /\ \E readable \in BOOLEAN : Look(readable /\ Pinned(pc), After(pc))
  /\ UNCHANGED <<manifests, results, disk, snapshot, inHand, assessment>>

CheckRecord ==
  /\ pc = Record
  /\ \E readable \in BOOLEAN :
       IF valid /\ (manifest.adjudication = "resolved" => readable /\ Pinned(Record))
       THEN Goto("context") /\ UNCHANGED <<manifests, results, disk, case>>
       ELSE GiveUp

-----------------------------------------------------------------------------
(* run_case behind the validation                                          *)

\* argv is parsed and the test context read; both must be of one requirement.
ReadContext ==
  /\ pc = "context"
  /\ IF manifest.source = None \/ files["test_context"] = NoFile
          \/ RequirementOf[files["test_context"]] # manifest.requirement
     THEN GiveUp
     ELSE /\ inHand' = [inHand EXCEPT !.context = files["test_context"]]
          /\ Goto("before")
          /\ UNCHANGED <<manifests, results, disk, valid, snapshot, assessment>>

SnapshotBefore ==
  /\ pc = "before"
  /\ snapshot' = Snapshot(tree)
  /\ Goto("assess")
  /\ UNCHANGED <<manifests, results, disk, valid, inHand, assessment>>

\* The source of mutants: the report, or the repository a backend runs in.
Source == IF manifest.source = "report" THEN files["mutation_report"] ELSE Snapshot(tree)

\* assess returns with all survivors of the run or, incomplete, maybe with none.
Assess ==
  /\ pc = "assess"
  /\ \E decision \in {"pass", "fail", "incomplete"}, found \in BOOLEAN :
       /\ decision # "incomplete" => found
       /\ found => Source \in DOMAIN Reported
       /\ assessment' = [decision  |-> decision,
                         survivors |-> IF found THEN Reported[Source].survivors ELSE {},
                         verified  |-> IF found THEN Reported[Source].verified ELSE {}]
  /\ inHand' = [inHand EXCEPT !.source = Source]
  /\ Goto("after")
  /\ UNCHANGED <<manifests, results, disk, valid, snapshot>>

\* The survivors that reviewers accepted.
Expected(m) == {l.object : l \in {k \in m.labels : k.outcome = "survived" /\ k.accepted}}

\* _case_metrics: only adjudicated cases are counted.
CaseMetrics(m, a) ==
  IF m.adjudication # "resolved" THEN None
  ELSE LET expected == Expected(m)
       IN  [truePositive  |-> Cardinality(expected \intersect a.survivors),
            falsePositive |-> Cardinality(a.survivors \ expected),
            falseNegative |-> Cardinality(expected \ a.survivors),
            reported      |-> Cardinality(a.survivors),
            explained     |-> Cardinality(a.verified \intersect expected),
            eligible      |-> Cardinality(expected)]

SnapshotAfter ==
  /\ pc = "after"
  /\ IF Snapshot(tree) # snapshot
     THEN GiveUp
     ELSE Finish(assessment.decision, CaseMetrics(manifest, assessment), TRUE)

\* What a read or the service raises ends the case, not the benchmark.
CaseFails ==
  /\ pc \in {"context", "before", "assess", "after"}
  /\ GiveUp

-----------------------------------------------------------------------------
Busy == pc \notin {"done", "raised"}

Touch(what) ==
  /\ Busy /\ edits < MaxEdits
  /\ edits' = edits + 1 /\ touched' = [touched EXCEPT ![what] = @ + 1]
  /\ UNCHANGED <<manifests, pc, results, case>>

EditTree ==
  /\ Touch("tree")
  /\ \E t \in (Trees \union {NoTree}) \ {tree} : tree' = t
  /\ UNCHANGED files

EditFile ==
  \E name \in Names, content \in Contents \union {NoFile} :
    /\ files[name] # content
    /\ Touch(name)
    /\ files' = [files EXCEPT ![name] = content]
    /\ UNCHANGED tree

RunCase ==
  \/ ObserveRevision \/ ObserveSnapshot \/ ObserveStatus \/ ObservationFails \/ GitTimesOut
  \/ CheckArtifact \/ CheckRecord
  \/ ReadContext \/ SnapshotBefore \/ Assess \/ SnapshotAfter \/ CaseFails

Next == RunCase \/ EditTree \/ EditFile

Spec == Init /\ [][Next]_vars

-----------------------------------------------------------------------------
(* aggregate_metrics                                                       *)

Adjudicated == {k \in DOMAIN results : results[k].adjudication = "resolved"}

Total(field) == MapThenSumSet(LAMBDA k : results[k].metrics[field], Adjudicated)

\* Mutant: a case that has no metrics is left out.
SumOfMeasured(field) ==
  LET measured == {k \in Adjudicated : results[k].metrics # None}
  IN  IF measured = {} THEN None
      ELSE MapThenSumSet(LAMBDA k : results[k].metrics[field], measured)

\* One adjudicated case without metrics, and there is no sum.
SumMetric(field) ==
  IF Adjudicated = {} \/ \E k \in Adjudicated : results[k].metrics = None
  THEN None
  ELSE Total(field)

\* A ratio is kept as its terms.
Ratio(numerator, denominator) ==
  IF None \in {numerator, denominator} \/ denominator = 0 THEN None
  ELSE <<numerator, denominator>>

Plus(a, b) == IF None \in {a, b} THEN None ELSE a + b

\* true_negative and cost are never measured, so their ratios are None.
Aggregate ==
  LET tp == SumMetric("truePositive")
  IN  [precision   |-> Ratio(tp, Plus(tp, SumMetric("falsePositive"))),
       recall      |-> Ratio(tp, Plus(tp, SumMetric("falseNegative"))),
       useful      |-> Ratio(tp, SumMetric("reported")),
       explanation |-> Ratio(SumMetric("explained"), SumMetric("eligible"))]

-----------------------------------------------------------------------------
\* REAL_PROJECT_VALIDATION.md, lines 16 to 28.  A measured case assessed the
\* pinned test context and report and a repository of the declared revision,
\* snapshot and policy, unless that very thing was edited after the case began;
\* and what a backend mutated is what the snapshots on both sides show, unless
\* the repository was edited twice.
MeasuredAsDeclared ==
  \A k \in DOMAIN results :
    LET r == results[k]
        m == manifests[k]
    IN  r.measured =>
          /\ RequirementOf[r.inHand.context] = m.requirement
          /\ r.touched["test_context"] = 0 => r.inHand.context = m.pins["test_context"]
          /\ m.source = "report" /\ r.touched["mutation_report"] = 0 =>
               r.inHand.source = m.pins["mutation_report"]
          /\ r.touched["tree"] = 0 =>
               /\ r.tree # NoTree /\ r.tree.revision = m.revision
               /\ StatusMatches(m, r.tree) /\ SnapshotMatches(m, r.tree.content)
          /\ m.source = "backend" /\ r.touched["tree"] < 2 =>
               r.inHand.source = Snapshot(r.tree)

\* The same document, lines 42 to 55, with the cases pooled: a survivor counts
\* once in the case that reported it, as true where reviewers accepted it.
\* There is a ratio exactly when every adjudicated case was measured and the
\* denominator is not zero; unresolved cases change nothing.
MetricsAreFair ==
  LET Pool(set(_)) == UNION {{<<k, x>> : x \in set(k)} : k \in Adjudicated}
      Found(k)     == results[k].assessment.survivors
      Proven(k)    == results[k].assessment.verified
      True(k)      == {l.object : l \in {t \in manifests[k].labels :
                                          t.outcome = "survived" /\ t.accepted}}
      measured     == Adjudicated # {} /\ \A k \in Adjudicated : results[k].measured
      Share(part, whole) ==
        IF whole = {} THEN None ELSE <<Cardinality(part), Cardinality(whole)>>
      hits         == Pool(Found) \intersect Pool(True)
  IN  pc = "done" =>
        /\ \A k \in DOMAIN results \ Adjudicated : results[k].metrics = None
        /\ Aggregate =
             IF measured
             THEN [precision   |-> Share(hits, Pool(Found)),
                   recall      |-> Share(hits, Pool(True)),
                   useful      |-> Share(hits, Pool(Found)),
                   explanation |-> Share(Pool(Proven) \intersect Pool(True), Pool(True))]
             ELSE [precision |-> None, recall |-> None, useful |-> None, explanation |-> None]

=============================================================================
