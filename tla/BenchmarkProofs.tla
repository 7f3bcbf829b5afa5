---------------------------- MODULE BenchmarkProofs ----------------------------
(***************************************************************************)
(* Proofs about Benchmark for all manifests, checkouts and edits.          *)
(***************************************************************************)
EXTENDS Benchmark, SequenceTheorems, FiniteSetTheorems, TLAPS

-----------------------------------------------------------------------------
(***************************************************************************)
(* What a case knows of the disk.  An observation is worth something only  *)
(* as long as the thing has not been touched since the case began, so each *)
(* part says so, and says at which places of the code the observation has  *)
(* been made.                                                              *)
(***************************************************************************)

Typed ==
  /\ manifests \in Seq(Manifests)
  /\ results \in Seq({results[k] : k \in DOMAIN results})
  /\ files \in [Names -> Contents \union {NoFile}]
  /\ touched \in [Things -> Nat]
  /\ DOMAIN inHand = {"context", "source"}
  /\ Busy => Len(results) < Len(manifests)

\* The places behind validate_case.
Validated == {"context", "before", "assess", "after"}

Declared(m, t) ==
  /\ t # NoTree /\ t.revision = m.revision
  /\ StatusMatches(m, t) /\ SnapshotMatches(m, t.content)

TreeIsDeclared ==
  valid /\ touched["tree"] = 0 =>
    /\ pc \in {"snapshot", "status"} => tree # NoTree /\ tree.revision = manifest.revision
    /\ pc = "status" => snapshot = Snapshot(tree)
    /\ pc \in Artifacts \union {Record} \union Validated => Declared(manifest, tree)

ArtifactsArePinned ==
  /\ pc \in Validated => valid
  /\ valid /\ touched["test_context"] = 0 /\ pc \in {"mutation_report", Record, "context"} =>
       files["test_context"] = manifest.pins["test_context"]
  /\ valid /\ touched["mutation_report"] = 0 /\ pc \in {Record, "context", "before", "assess"} =>
       files["mutation_report"] = manifest.pins["mutation_report"]

\* What the case has read itself.
ReadAsDeclared ==
  /\ pc \in {"before", "assess", "after"} =>
       /\ RequirementOf[inHand.context] = manifest.requirement
       /\ touched["test_context"] = 0 => inHand.context = manifest.pins["test_context"]
  /\ pc = "after" /\ manifest.source = "report" /\ touched["mutation_report"] = 0 =>
       inHand.source = manifest.pins["mutation_report"]

\* The snapshots on both sides of the assessment.  One edit of the tree leaves
\* what was mutated equal to one of them.
SnapshotsAround ==
  /\ pc \in {"assess", "after"} /\ touched["tree"] = 0 => snapshot = Snapshot(tree)
  /\ pc = "after" /\ manifest.source = "backend" /\ touched["tree"] < 2 =>
       inHand.source \in {snapshot, Snapshot(tree)}
  /\ pc = "after" /\ manifest.source = "backend" /\ touched["tree"] = 0 =>
       inHand.source = snapshot

CaseInv ==
  Typed /\ TreeIsDeclared /\ ArtifactsArePinned /\ ReadAsDeclared /\ SnapshotsAround

\* What MeasuredAsDeclared says of one case.
Right(r, m) ==
  r.measured =>
    /\ RequirementOf[r.inHand.context] = m.requirement
    /\ r.touched["test_context"] = 0 => r.inHand.context = m.pins["test_context"]
    /\ m.source = "report" /\ r.touched["mutation_report"] = 0 =>
         r.inHand.source = m.pins["mutation_report"]
    /\ r.touched["tree"] = 0 =>
         /\ r.tree # NoTree /\ r.tree.revision = m.revision
         /\ StatusMatches(m, r.tree) /\ SnapshotMatches(m, r.tree.content)
    /\ m.source = "backend" /\ r.touched["tree"] < 2 =>
         r.inHand.source = Snapshot(r.tree)

\* The property, case by case.
LEMMA MeasuredCaseByCase ==
  MeasuredAsDeclared <=> \A k \in DOMAIN results : Right(results[k], manifests[k])
BY DEF MeasuredAsDeclared, Right

\* A result is appended behind those that are there, which stay as they are.
LEMMA AppendToResults ==
  ASSUME Typed, NEW r, results' = Append(results, r)
  PROVE  /\ results' \in Seq({results'[k] : k \in DOMAIN results'})
         /\ Len(results') = Len(results) + 1
         /\ DOMAIN results' = DOMAIN results \union {Len(results) + 1}
         /\ \A k \in DOMAIN results : results'[k] = results[k]
         /\ results'[Len(results) + 1] = r
<1> DEFINE S == {results[k] : k \in DOMAIN results} \union {r}
<1>1. results \in Seq(S) /\ r \in S /\ Len(results) \in Nat /\ DOMAIN results = 1..Len(results)
  <2>1. results \in Seq({results[k] : k \in DOMAIN results})
    BY DEF Typed
  <2> QED
    BY <2>1
<1> HIDE DEF S
<1>2. /\ results' \in Seq(S)
      /\ Len(results') = Len(results) + 1
      /\ \A k \in 1..Len(results) : results'[k] = results[k]
      /\ results'[Len(results) + 1] = r
  BY <1>1, AppendProperties
<1>3. DOMAIN results' = 1..(Len(results) + 1)
  BY <1>2
<1>4. DOMAIN results' = DOMAIN results \union {Len(results) + 1}
  BY <1>1, <1>3
<1>5. results' \in Seq({results'[k] : k \in DOMAIN results'})
  BY <1>2, <1>3
<1> QED
  BY <1>1, <1>2, <1>4, <1>5

\* The end of a case: what was right stays right, and nothing is observed yet.
LEMMA FinishKeeps ==
  ASSUME CaseInv, MeasuredAsDeclared, Busy, NEW decision, NEW metrics, NEW measured \in BOOLEAN,
         Finish(decision, metrics, measured),
         measured => Right([decision     |-> decision,
                            adjudication |-> manifest.adjudication,
                            metrics      |-> metrics,
                            measured     |-> measured,
                            inHand       |-> inHand,
                            assessment   |-> assessment,
                            tree         |-> tree,
                            touched      |-> touched], manifest)
  PROVE  (CaseInv /\ MeasuredAsDeclared)'
<1> DEFINE r == [decision     |-> decision,
                 adjudication |-> manifest.adjudication,
                 metrics      |-> metrics,
                 measured     |-> measured,
                 inHand       |-> inHand,
                 assessment   |-> assessment,
                 tree         |-> tree,
                 touched      |-> touched]
<1>1. results' = Append(results, r)
  BY DEF Finish
<1>2. Right(r, manifest)
  BY DEF Right
<1>3. /\ pc' = IF Len(results) + 1 = Len(manifests) THEN "done" ELSE "revision"
      /\ inHand' = NothingRead /\ touched' = Untouched
      /\ UNCHANGED <<manifests, files>>
  BY DEF Finish
<1> HIDE DEF r
<1>4. /\ results' \in Seq({results'[k] : k \in DOMAIN results'})
      /\ Len(results') = Len(results) + 1
      /\ DOMAIN results' = DOMAIN results \union {Len(results) + 1}
      /\ \A k \in DOMAIN results : results'[k] = results[k]
      /\ results'[Len(results) + 1] = r
  BY <1>1, AppendToResults DEF CaseInv
<1>5. Typed'
  <2>1. Len(results) \in Nat /\ Len(manifests) \in Nat /\ Len(results) < Len(manifests)
    BY DEF CaseInv, Typed
  <2>2. Busy' => Len(results') < Len(manifests')
    BY <1>3, <1>4, <2>1 DEF Busy
  <2>3. touched' \in [Things -> Nat] /\ DOMAIN inHand' = {"context", "source"}
    BY <1>3 DEF Untouched, NothingRead
  <2> QED
    BY <1>3, <1>4, <2>2, <2>3 DEF CaseInv, Typed
<1>6. (TreeIsDeclared /\ ArtifactsArePinned /\ ReadAsDeclared /\ SnapshotsAround)'
  BY <1>3 DEF TreeIsDeclared, ArtifactsArePinned, ReadAsDeclared, SnapshotsAround, Validated, Artifacts,
              Record
<1>7. \A k \in DOMAIN results' : Right(results'[k], manifests'[k])
  <2>1. \A k \in DOMAIN results : Right(results[k], manifests[k])
    BY MeasuredCaseByCase
  <2>2. manifest = manifests[Len(results) + 1]
    BY DEF manifest
  <2> QED
    BY <1>2, <1>3, <1>4, <2>1, <2>2
<1>8. MeasuredAsDeclared'
  BY <1>7 DEF MeasuredAsDeclared, Right
<1> QED
  BY <1>5, <1>6, <1>8 DEF CaseInv

\* The other steps leave the results alone.
LEMMA OthersKeepResults ==
  ASSUME MeasuredAsDeclared, UNCHANGED <<manifests, results>>
  PROVE  MeasuredAsDeclared'
BY DEF MeasuredAsDeclared

-----------------------------------------------------------------------------
(* The steps of a case.                                                    *)

\* A step inside a case, which looks at the disk and does not change it.
LEMMA LooksKeepTypes ==
  ASSUME Typed, UNCHANGED <<manifests, results, disk>>, Busy,
         DOMAIN inHand' = {"context", "source"}
  PROVE  Typed' /\ manifest' = manifest
BY DEF Typed, disk, manifest

\* The looks of validate_case.
LEMMA ValidationKeeps ==
  ASSUME CaseInv, MeasuredAsDeclared,
         \/ ObserveRevision \/ ObserveSnapshot \/ ObserveStatus \/ ObservationFails
         \/ CheckArtifact
  PROVE  (CaseInv /\ MeasuredAsDeclared)'
<1>1. /\ Busy /\ UNCHANGED <<manifests, results, disk, inHand, assessment>>
  BY DEF ObserveRevision, ObserveSnapshot, ObserveStatus, ObservationFails, CheckArtifact, Look, Goto,
         Busy, Artifacts
<1>2. Typed' /\ manifest' = manifest
  BY <1>1, LooksKeepTypes DEF CaseInv, Typed
<1>3. UNCHANGED <<tree, files, touched>>
  BY <1>1 DEF disk
<1>4. MeasuredAsDeclared'
  BY <1>1, OthersKeepResults
<1> USE DEF CaseInv, TreeIsDeclared, ArtifactsArePinned, ReadAsDeclared, SnapshotsAround, Validated,
            Artifacts, Record, Look, Goto
<1>5. CASE ObserveRevision
  BY <1>1, <1>2, <1>3, <1>4, <1>5 DEF ObserveRevision
<1>6. CASE ObserveSnapshot
  BY <1>1, <1>2, <1>3, <1>4, <1>6 DEF ObserveSnapshot
<1>7. CASE ObserveStatus
  <2>1. /\ pc = "status" /\ pc' = "requirement"
        /\ valid' => /\ valid
                     /\ tree # NoTree => StatusMatches(manifest, tree)
                     /\ SnapshotMatches(manifest, snapshot)
    BY <1>7 DEF ObserveStatus
  <2>2. valid' /\ touched["tree"] = 0 => Declared(manifest, tree)
    BY <2>1 DEF Declared, Snapshot
  <2>3. Declared(manifest, tree)' = Declared(manifest, tree)
    BY <1>2, <1>3 DEF Declared, StatusMatches, SnapshotMatches
  <2> QED
    BY <1>2, <1>3, <1>4, <2>1, <2>2, <2>3
<1>8. CASE ObservationFails
  BY <1>1, <1>2, <1>3, <1>4, <1>8 DEF ObservationFails
<1>9. CASE CheckArtifact
  <2>1. PICK readable \in BOOLEAN : Look(readable /\ Pinned(pc), After(pc))
    BY <1>9 DEF CheckArtifact
  <2>2. pc \in Artifacts /\ (valid' => valid /\ files[pc] = manifest.pins[pc])
    BY <1>9, <2>1 DEF CheckArtifact, Pinned
  <2>3. /\ pc = "requirement" => pc' = "test_context"
        /\ pc = "test_context" => pc' = "mutation_report"
        /\ pc = "mutation_report" => pc' = "record"
    BY <2>1 DEF After
  <2>4. Declared(manifest, tree)' = Declared(manifest, tree)
    BY <1>2, <1>3 DEF Declared, StatusMatches, SnapshotMatches
  <2> QED
    BY <1>2, <1>3, <1>4, <2>2, <2>3, <2>4
<1> QED
  BY <1>5, <1>6, <1>7, <1>8, <1>9

\* The last look, at the record.
LEMMA RecordKeeps ==
  ASSUME CaseInv, MeasuredAsDeclared, CheckRecord
  PROVE  (CaseInv /\ MeasuredAsDeclared)'
<1>1. pc = "record" /\ Busy
  BY DEF CheckRecord, Record, Busy
<1>2. CASE GiveUp
  BY <1>1, <1>2, FinishKeeps DEF GiveUp
<1>3. CASE valid /\ Goto("context") /\ UNCHANGED <<manifests, results, disk, case>>
  <2>1. UNCHANGED <<tree, files, touched, valid, snapshot, inHand>>
    BY <1>3 DEF disk, case
  <2>2. Typed' /\ manifest' = manifest
    BY <1>1, <1>3, <2>1, LooksKeepTypes DEF CaseInv, Typed
  <2>3. MeasuredAsDeclared'
    BY <1>3, OthersKeepResults
  <2>4. Declared(manifest, tree)' = Declared(manifest, tree)
    BY <2>1, <2>2 DEF Declared, StatusMatches, SnapshotMatches
  <2> QED
    BY <1>1, <1>3, <2>1, <2>2, <2>3, <2>4
       DEF CaseInv, TreeIsDeclared, ArtifactsArePinned, ReadAsDeclared, SnapshotsAround, Validated,
           Artifacts, Record, Goto
<1> QED
  BY <1>2, <1>3 DEF CheckRecord

\* The reads of run_case.
LEMMA RunKeeps ==
  ASSUME CaseInv, MeasuredAsDeclared, ReadContext \/ SnapshotBefore \/ Assess
  PROVE  (CaseInv /\ MeasuredAsDeclared)'
<1>1. CASE GiveUp /\ pc = "context"
  BY <1>1, FinishKeeps DEF GiveUp, Busy
<1>2. CASE ~(GiveUp /\ pc = "context")
  <2>1. /\ pc \in {"context", "before", "assess"}
        /\ UNCHANGED <<manifests, results, disk, valid>>
    BY <1>2 DEF ReadContext, SnapshotBefore, Assess, Goto
  <2>2. DOMAIN inHand' = {"context", "source"}
    BY <1>2 DEF ReadContext, SnapshotBefore, Assess, CaseInv, Typed
  <2>3. Typed' /\ manifest' = manifest
    BY <2>1, <2>2, LooksKeepTypes DEF CaseInv, Busy
  <2>4. UNCHANGED <<tree, files, touched, valid>>
    BY <2>1 DEF disk
  <2>5. MeasuredAsDeclared'
    BY <2>1, OthersKeepResults
  <2>6. Declared(manifest, tree)' = Declared(manifest, tree)
    BY <2>3, <2>4 DEF Declared, StatusMatches, SnapshotMatches
  <2>7. pc' \in {"before", "assess", "after"}
    BY <1>2 DEF ReadContext, SnapshotBefore, Assess, Goto
  <2>8. TreeIsDeclared'
    BY <2>1, <2>3, <2>4, <2>6, <2>7 DEF CaseInv, TreeIsDeclared, Validated, Artifacts, Record
  <2>9. CASE ReadContext
    <3>1. /\ pc = "context" /\ pc' = "before"
          /\ inHand'.context = files["test_context"]
          /\ RequirementOf[files["test_context"]] = manifest.requirement
      BY <1>2, <2>9 DEF ReadContext, Goto, CaseInv, Typed
    <3>2. ArtifactsArePinned' /\ ReadAsDeclared' /\ SnapshotsAround'
      BY <2>1, <2>3, <2>4, <3>1
         DEF CaseInv, ArtifactsArePinned, ReadAsDeclared, SnapshotsAround, Validated, Artifacts, Record
    <3> QED
      BY <2>3, <2>5, <2>8, <3>2 DEF CaseInv
  <2>10. CASE SnapshotBefore
    <3>1. pc = "before" /\ pc' = "assess" /\ snapshot' = Snapshot(tree) /\ UNCHANGED inHand
      BY <2>10 DEF SnapshotBefore, Goto
    <3>2. Snapshot(tree') = Snapshot(tree)
      BY <2>4
    <3>3. ArtifactsArePinned' /\ ReadAsDeclared' /\ SnapshotsAround'
      BY <2>1, <2>3, <2>4, <3>1, <3>2
         DEF CaseInv, ArtifactsArePinned, ReadAsDeclared, SnapshotsAround, Validated, Artifacts, Record
    <3> QED
      BY <2>3, <2>5, <2>8, <3>3 DEF CaseInv
  <2>11. CASE Assess
    <3>1. /\ pc = "assess" /\ pc' = "after" /\ UNCHANGED snapshot
          /\ inHand'.context = inHand.context /\ inHand'.source = Source
      BY <2>11 DEF Assess, Goto, CaseInv, Typed
    <3>2. /\ manifest.source = "report" => Source = files["mutation_report"]
          /\ manifest.source = "backend" => Source = Snapshot(tree)
      BY DEF Source
    <3>3. Snapshot(tree') = Snapshot(tree)
      BY <2>4
    <3>4. ArtifactsArePinned' /\ ReadAsDeclared' /\ SnapshotsAround'
      BY <2>1, <2>3, <2>4, <3>1, <3>2, <3>3
         DEF CaseInv, ArtifactsArePinned, ReadAsDeclared, SnapshotsAround, Validated, Artifacts, Record
    <3> QED
      BY <2>3, <2>5, <2>8, <3>4 DEF CaseInv
  <2> QED
    BY <2>9, <2>10, <2>11
<1> QED
  BY <1>1, <1>2

\* The end of a case appends its result, which is right by what the case held.
LEMMA EndKeeps ==
  ASSUME CaseInv, MeasuredAsDeclared, SnapshotAfter \/ CaseFails
  PROVE  (CaseInv /\ MeasuredAsDeclared)'
<1>1. Busy
  BY DEF SnapshotAfter, CaseFails, Busy
<1>2. CASE GiveUp
  BY <1>1, <1>2, FinishKeeps DEF GiveUp
<1>3. CASE SnapshotAfter /\ ~GiveUp
  <2>1. /\ pc = "after" /\ Snapshot(tree) = snapshot
        /\ Finish(assessment.decision, CaseMetrics(manifest, assessment), TRUE)
    BY <1>3 DEF SnapshotAfter
  <2> DEFINE r == [decision     |-> assessment.decision,
                   adjudication |-> manifest.adjudication,
                   metrics      |-> CaseMetrics(manifest, assessment),
                   measured     |-> TRUE,
                   inHand       |-> inHand,
                   assessment   |-> assessment,
                   tree         |-> tree,
                   touched      |-> touched]
  <2>2. touched["tree"] \in Nat
    BY DEF CaseInv, Typed, Things
  <2>3. r.inHand = inHand /\ r.touched = touched /\ r.tree = tree
    OBVIOUS
  <2> HIDE DEF r
  <2>4. touched["tree"] = 0 => Declared(manifest, tree)
    BY <2>1 DEF CaseInv, TreeIsDeclared, ArtifactsArePinned, Validated
  <2>5. manifest.source = "backend" /\ touched["tree"] < 2 => inHand.source = Snapshot(tree)
    BY <2>1 DEF CaseInv, SnapshotsAround
  <2>6. Right(r, manifest)
    BY <2>1, <2>3, <2>4, <2>5 DEF Right, Declared, CaseInv, ReadAsDeclared
  <2> QED
    BY <1>1, <2>1, <2>6, FinishKeeps DEF r
<1> QED
  BY <1>2, <1>3 DEF CaseFails

-----------------------------------------------------------------------------
(* The edits.                                                              *)

\* An edit of a thing is counted against that thing.
LEMMA EditsKeep ==
  ASSUME CaseInv, MeasuredAsDeclared, EditTree \/ EditFile
  PROVE  (CaseInv /\ MeasuredAsDeclared)'
<1>1. PICK what \in Things :
        /\ Touch(what)
        /\ what # "tree" => UNCHANGED tree
        /\ what = "tree" => UNCHANGED files
        /\ \A name \in Names \ {what} : files'[name] = files[name]
        /\ files' \in [Names -> Contents \union {NoFile}]
  <2>1. CASE EditTree
    BY <2>1 DEF EditTree, Things, Names, Artifacts, Record, CaseInv, Typed
  <2>2. CASE EditFile
    <3>1. PICK name \in Names, content \in Contents \union {NoFile} :
            /\ Touch(name)
            /\ files' = [files EXCEPT ![name] = content]
            /\ UNCHANGED tree
      BY <2>2 DEF EditFile
    <3>2. files \in [Names -> Contents \union {NoFile}]
      BY DEF CaseInv, Typed
    <3>3. name \in Things /\ name # "tree"
      BY DEF Things, Names, Artifacts, Record
    <3> QED
      BY <3>1, <3>2, <3>3
  <2> QED
    BY <2>1, <2>2
<1>2. /\ Busy
      /\ UNCHANGED <<manifests, pc, results, valid, snapshot, inHand, assessment>>
      /\ touched' = [touched EXCEPT ![what] = @ + 1]
  BY <1>1 DEF Touch, case
<1>3. touched \in [Things -> Nat]
  BY DEF CaseInv, Typed
<1>4. MeasuredAsDeclared' /\ manifest' = manifest
  BY <1>2, OthersKeepResults DEF manifest
<1>5. Typed'
  BY <1>1, <1>2, <1>3 DEF CaseInv, Typed, Busy
<1>6. {"tree", "test_context", "mutation_report"} \subseteq Things
      /\ {"test_context", "mutation_report"} \subseteq Names
  BY DEF Things, Names, Artifacts
\* What was touched has been touched; nothing else changed.
<1>7. /\ touched'["tree"] \in Nat /\ touched["tree"] \in Nat
      /\ touched["tree"] <= touched'["tree"]
      /\ touched'["tree"] # touched["tree"] => touched'["tree"] = touched["tree"] + 1
      /\ touched'["tree"] = touched["tree"] => tree' = tree
      /\ \A name \in {"test_context", "mutation_report"} :
           touched'[name] = 0 => touched[name] = 0 /\ files'[name] = files[name]
  BY <1>1, <1>2, <1>3, <1>6
<1>8. tree' = tree =>
        /\ Declared(manifest, tree)' = Declared(manifest, tree)
        /\ Snapshot(tree') = Snapshot(tree)
  BY <1>4 DEF Declared, StatusMatches, SnapshotMatches
<1>9. TreeIsDeclared'
  BY <1>2, <1>4, <1>7, <1>8 DEF CaseInv, TreeIsDeclared
<1>10. ArtifactsArePinned' /\ ReadAsDeclared'
  BY <1>2, <1>4, <1>7 DEF CaseInv, ArtifactsArePinned, ReadAsDeclared
<1>11. SnapshotsAround'
  BY <1>2, <1>4, <1>7, <1>8 DEF CaseInv, SnapshotsAround
<1> QED
  BY <1>4, <1>5, <1>9, <1>10, <1>11 DEF CaseInv

-----------------------------------------------------------------------------
\* CaseInv is inductive, together with the property.
LEMMA CasesHold == Spec => [](CaseInv /\ MeasuredAsDeclared)
<1>1. Init => CaseInv /\ MeasuredAsDeclared
  <2> SUFFICES ASSUME Init PROVE CaseInv /\ MeasuredAsDeclared
    OBVIOUS
  <2>1. results = <<>> /\ pc = "revision" /\ touched = Untouched /\ inHand = NothingRead
    BY DEF Init
  <2>2. PICK n \in 1..MaxCases : manifests \in [1..n -> Manifests]
    BY DEF Init
  <2>3. manifests \in Seq(Manifests) /\ 0 < Len(manifests)
    BY <2>2, BenchmarkInputs
  <2>4. files \in [Names -> Contents \union {NoFile}]
    BY BenchmarkInputs DEF Init
  <2>5. Typed
    BY <2>1, <2>3, <2>4 DEF Typed, Untouched, NothingRead
  <2>6. TreeIsDeclared /\ ArtifactsArePinned /\ ReadAsDeclared /\ SnapshotsAround
    BY <2>1 DEF TreeIsDeclared, ArtifactsArePinned, ReadAsDeclared, SnapshotsAround, Validated,
                Artifacts, Record
  <2>7. MeasuredAsDeclared
    BY <2>1 DEF MeasuredAsDeclared
  <2> QED
    BY <2>5, <2>6, <2>7 DEF CaseInv
<1>2. CaseInv /\ MeasuredAsDeclared /\ [Next]_vars => (CaseInv /\ MeasuredAsDeclared)'
  <2> SUFFICES ASSUME CaseInv, MeasuredAsDeclared, [Next]_vars
               PROVE  (CaseInv /\ MeasuredAsDeclared)'
    OBVIOUS
  <2>1. CASE GitTimesOut
    <3>1. /\ pc' = "raised" /\ pc \in {"revision", "status"}
          /\ UNCHANGED <<manifests, results, disk, inHand>>
      BY <2>1 DEF GitTimesOut, Goto, case
    <3>2. Typed'
      BY <3>1, LooksKeepTypes DEF CaseInv, Typed, Busy
    <3> QED
      BY <3>1, <3>2, OthersKeepResults
         DEF CaseInv, TreeIsDeclared, ArtifactsArePinned, ReadAsDeclared, SnapshotsAround, Validated,
             Artifacts, Record
  <2>2. CASE UNCHANGED vars
    <3>1. UNCHANGED <<manifests, results, pc, tree, files, touched, valid, snapshot, inHand>>
      BY <2>2 DEF vars, disk, case
    <3>2. manifest' = manifest /\ Declared(manifest, tree)' = Declared(manifest, tree)
      BY <3>1 DEF manifest, Declared, StatusMatches, SnapshotMatches
    <3> QED
      BY <3>1, <3>2, OthersKeepResults
         DEF CaseInv, Typed, Busy, TreeIsDeclared, ArtifactsArePinned, ReadAsDeclared, SnapshotsAround
  <2> QED
    BY <2>1, <2>2, ValidationKeeps, RecordKeeps, RunKeeps, EndKeeps, EditsKeep DEF Next, RunCase
<1> QED
  BY <1>1, <1>2, PTL DEF Spec

\* A measured case assessed what its manifest pins and declares, unless that very
\* thing was edited meanwhile, for all manifests, checkouts and edits.
THEOREM MeasuredIsDeclared == Spec => []MeasuredAsDeclared
<1>1. CaseInv /\ MeasuredAsDeclared => MeasuredAsDeclared
  OBVIOUS
<1> QED
  BY CasesHold, <1>1, PTL

-----------------------------------------------------------------------------
(* Sums over cases. A total is the size of a pool of all their elements.   *)

\* The elements of a case, told apart from those of the others, and the pool of
\* several cases.
Tagged(sets, k) == {<<k, x>> : x \in sets[k]}

Pooled(sets, cases) == UNION {Tagged(sets, k) : k \in cases}

\* Telling elements apart does not change how many there are.
LEMMA TaggedSize ==
  ASSUME NEW sets, NEW k, IsFiniteSet(sets[k])
  PROVE  IsFiniteSet(Tagged(sets, k)) /\ Cardinality(Tagged(sets, k)) = Cardinality(sets[k])
<1> DEFINE tag == [x \in sets[k] |-> <<k, x>>]
<1>1. tag \in Bijection(sets[k], Tagged(sets, k))
  <2>1. tag \in [sets[k] -> Tagged(sets, k)]
    BY DEF Tagged
  <2>2. \A x, y \in sets[k] : tag[x] = tag[y] => x = y
    OBVIOUS
  <2>3. \A t \in Tagged(sets, k) : \E x \in sets[k] : tag[x] = t
    BY DEF Tagged
  <2> HIDE DEF tag
  <2> QED
    BY <2>1, <2>2, <2>3 DEF Bijection, Injection, Surjection, IsInjective
<1>2. ExistsBijection(sets[k], Tagged(sets, k))
  BY <1>1 DEF ExistsBijection
<1> QED
  BY <1>2, FS_Bijection

\* A case more adds its elements, and they are new.
LEMMA PoolSplits ==
  ASSUME NEW sets, NEW cases, NEW k \in cases
  PROVE  /\ Pooled(sets, cases) = Tagged(sets, k) \union Pooled(sets, cases \ {k})
         /\ Tagged(sets, k) \intersect Pooled(sets, cases \ {k}) = {}
BY DEF Pooled, Tagged

\* So the size of the pool grows by as many as the case has.
LEMMA PoolGrows ==
  ASSUME NEW sets, NEW cases, NEW k \in cases, IsFiniteSet(sets[k]),
         IsFiniteSet(Pooled(sets, cases \ {k}))
  PROVE  /\ IsFiniteSet(Pooled(sets, cases))
         /\ Cardinality(Pooled(sets, cases)) =
              Cardinality(sets[k]) + Cardinality(Pooled(sets, cases \ {k}))
<1> DEFINE tagged == Tagged(sets, k)
           rest   == Pooled(sets, cases \ {k})
<1>1. IsFiniteSet(tagged) /\ Cardinality(tagged) = Cardinality(sets[k])
  BY TaggedSize
<1>2. Pooled(sets, cases) = tagged \union rest /\ tagged \intersect rest = {}
  BY PoolSplits
<1>3. IsFiniteSet(rest)
  OBVIOUS
<1> HIDE DEF tagged, rest
<1>4. /\ IsFiniteSet(tagged \union rest)
      /\ Cardinality(tagged \union rest) =
           Cardinality(tagged) + Cardinality(rest) - Cardinality(tagged \intersect rest)
  BY <1>1, <1>3, FS_Union
<1>5. Cardinality(tagged) \in Nat /\ Cardinality(rest) \in Nat
  BY <1>1, <1>3, FS_CardinalityType
<1>6. Cardinality(tagged \intersect rest) = 0
  BY <1>2, FS_EmptySet
<1> QED
  BY <1>1, <1>2, <1>4, <1>5, <1>6 DEF rest

\* A collection of subsets of a finite set that is not empty has one without a
\* smaller one in it.
LEMMA Smallest ==
  ASSUME NEW A, IsFiniteSet(A), NEW C, C \subseteq SUBSET A, C # {}
  PROVE  \E s \in C : \A k \in s : s \ {k} \notin C
<1>1. IsWellFoundedOn(StrictSubsetOrdering(A), SUBSET A)
  BY FS_StrictSubsetOrderingWellFounded, FS_FiniteSubsetsOfFinite
<1>2. PICK s \in C : \A t \in C : ~ (<<t, s>> \in StrictSubsetOrdering(A))
  BY <1>1, WFMin
<1>3. ASSUME NEW k \in s, s \ {k} \in C PROVE FALSE
  <2>1. <<s \ {k}, s>> \in StrictSubsetOrdering(A)
    BY <1>3 DEF StrictSubsetOrdering
  <2> QED
    BY <1>2, <1>3, <2>1
<1> QED
  BY <1>3

\* The pool of finitely many finite sets is finite: a smallest collection of cases
\* without a finite pool would have one without it.
LEMMA PoolIsFinite ==
  ASSUME NEW A, IsFiniteSet(A), NEW sets, \A k \in A : IsFiniteSet(sets[k])
  PROVE  \A cases \in SUBSET A : IsFiniteSet(Pooled(sets, cases))
<1> DEFINE C == {cases \in SUBSET A : ~ IsFiniteSet(Pooled(sets, cases))}
<1> SUFFICES ASSUME C # {} PROVE FALSE
  OBVIOUS
<1>1. PICK s \in C : \A k \in s : s \ {k} \notin C
  BY Smallest
<1>2. s # {}
  <2>1. Pooled(sets, {}) = {}
    BY DEF Pooled
  <2> QED
    BY <2>1, FS_EmptySet
<1>3. PICK k \in s : TRUE
  BY <1>2
<1>4. IsFiniteSet(Pooled(sets, s \ {k})) /\ IsFiniteSet(sets[k])
  BY <1>1
<1> QED
  BY <1>4, PoolGrows

\* How a fold over the cases adds up.
Picked(cases) == CHOOSE k \in cases : TRUE

AddsUp(sum, value, A) ==
  sum = [cases \in SUBSET A |->
           IF cases = {} THEN 0 ELSE value[Picked(cases)] + sum[cases \ {Picked(cases)}]]

\* There is a fold that adds up, and each gives the size of the pool, by a
\* smallest collection of cases with another sum.
LEMMA SumIsSize ==
  ASSUME NEW A, IsFiniteSet(A), NEW sets, NEW value,
         \A k \in A : IsFiniteSet(sets[k]) /\ value[k] = Cardinality(sets[k])
  PROVE  /\ \E sum : AddsUp(sum, value, A)
         /\ \A sum : AddsUp(sum, value, A) => sum[A] = Cardinality(Pooled(sets, A))
<1>1. \A cases \in SUBSET A : IsFiniteSet(Pooled(sets, cases))
  BY PoolIsFinite
<1>2. ASSUME NEW cases \in SUBSET A, cases # {}
      PROVE  /\ Picked(cases) \in cases
             /\ Cardinality(Pooled(sets, cases)) =
                  value[Picked(cases)] + Cardinality(Pooled(sets, cases \ {Picked(cases)}))
  <2>1. Picked(cases) \in cases
    BY <1>2 DEF Picked
  <2>2. IsFiniteSet(Pooled(sets, cases \ {Picked(cases)}))
    BY <1>1
  <2> QED
    BY <2>1, <2>2, PoolGrows
<1>3. Cardinality(Pooled(sets, {})) = 0
  <2>1. Pooled(sets, {}) = {}
    BY DEF Pooled
  <2> QED
    BY <2>1, FS_EmptySet
<1>4. \E sum : AddsUp(sum, value, A)
  <2> DEFINE sum == [cases \in SUBSET A |-> Cardinality(Pooled(sets, cases))]
  <2>1. ASSUME NEW cases \in SUBSET A
        PROVE  sum[cases] =
                 IF cases = {} THEN 0 ELSE value[Picked(cases)] + sum[cases \ {Picked(cases)}]
    <3>1. cases \ {Picked(cases)} \in SUBSET A
      OBVIOUS
    <3> QED
      BY <1>2, <1>3, <3>1
  <2>2. sum = [cases \in SUBSET A |-> sum[cases]]
    OBVIOUS
  <2> HIDE DEF sum
  <2>3. AddsUp(sum, value, A)
    BY <2>1, <2>2 DEF AddsUp
  <2> QED
    BY <2>3
<1>5. ASSUME NEW sum, AddsUp(sum, value, A)
      PROVE  sum[A] = Cardinality(Pooled(sets, A))
  <2> DEFINE C == {cases \in SUBSET A : sum[cases] # Cardinality(Pooled(sets, cases))}
  <2>1. ASSUME C # {} PROVE FALSE
    <3>1. PICK s \in C : \A k \in s : s \ {k} \notin C
      BY <2>1, Smallest
    <3>2. sum[s] = IF s = {} THEN 0 ELSE value[Picked(s)] + sum[s \ {Picked(s)}]
      BY <1>5 DEF AddsUp
    <3>3. s # {}
      BY <1>3, <3>2
    <3>4. sum[s \ {Picked(s)}] = Cardinality(Pooled(sets, s \ {Picked(s)}))
      BY <1>2, <3>1, <3>3
    <3> QED
      BY <1>2, <3>2, <3>3, <3>4
  <2> QED
    BY <2>1
<1> QED
  BY <1>4, <1>5

\* Hence a total of sizes is the size of the pool.
LEMMA TotalIsSize ==
  ASSUME NEW field, NEW sets, IsFiniteSet(Adjudicated),
         \A k \in Adjudicated :
           IsFiniteSet(sets[k]) /\ results[k].metrics[field] = Cardinality(sets[k])
  PROVE  Total(field) = Cardinality(Pooled(sets, Adjudicated))
<1> DEFINE value == [k \in Adjudicated |-> results[k].metrics[field]]
           IsTotal(sum) ==
             sum = [cases \in SUBSET Adjudicated |->
                      IF cases = {} THEN 0
                      ELSE results[Picked(cases)].metrics[field] + sum[cases \ {Picked(cases)}]]
<1>1. Total(field) = (CHOOSE sum : IsTotal(sum))[Adjudicated]
  BY Zenon DEF Total, MapThenSumSet, MapThenFoldSet, Picked
<1>2. ASSUME NEW sum
      PROVE  IsTotal(sum) <=> AddsUp(sum, value, Adjudicated)
  <2>1. \A cases \in SUBSET Adjudicated :
          cases # {} => value[Picked(cases)] = results[Picked(cases)].metrics[field]
    BY DEF Picked
  <2> QED
    BY <2>1 DEF AddsUp
<1>3. \A k \in Adjudicated : IsFiniteSet(sets[k]) /\ value[k] = Cardinality(sets[k])
  OBVIOUS
<1> HIDE DEF value, IsTotal
<1>4. /\ \E sum : AddsUp(sum, value, Adjudicated)
      /\ \A sum : AddsUp(sum, value, Adjudicated) =>
           sum[Adjudicated] = Cardinality(Pooled(sets, Adjudicated))
  BY <1>3, SumIsSize
<1>5. /\ \E sum : IsTotal(sum)
      /\ \A sum : IsTotal(sum) => sum[Adjudicated] = Cardinality(Pooled(sets, Adjudicated))
  BY <1>2, <1>4
<1> QED
  BY <1>1, <1>5, Zenon

-----------------------------------------------------------------------------
(* What is counted. A case has the metrics of what it measured, or none.   *)

\* What an assessment found is countable, and a case has the metrics of what it
\* measured, or none.
Sized(a) == IsFiniteSet(a.survivors) /\ IsFiniteSet(a.verified)

Counted(r, m) ==
  /\ r.measured \in BOOLEAN
  /\ r.adjudication = m.adjudication
  /\ ~r.measured => r.metrics = None
  /\ r.measured  => Sized(r.assessment) /\ r.metrics = CaseMetrics(m, r.assessment)

MetricsInv ==
  /\ pc = "after" => Sized(assessment)
  /\ DOMAIN results \subseteq DOMAIN manifests
  /\ \A k \in DOMAIN results : Counted(results[k], manifests[k])

\* A result that is appended is one more to count.
LEMMA FinishCounts ==
  ASSUME CaseInv, MetricsInv, Busy, NEW decision, NEW metrics, NEW measured \in BOOLEAN,
         Finish(decision, metrics, measured),
         measured => Sized(assessment) /\ metrics = CaseMetrics(manifest, assessment),
         ~measured => metrics = None
  PROVE  MetricsInv'
<1> DEFINE r == [decision     |-> decision,
                 adjudication |-> manifest.adjudication,
                 metrics      |-> metrics,
                 measured     |-> measured,
                 inHand       |-> inHand,
                 assessment   |-> assessment,
                 tree         |-> tree,
                 touched      |-> touched]
<1>1. results' = Append(results, r) /\ pc' # "after" /\ UNCHANGED manifests
  BY DEF Finish
<1>2. Counted(r, manifest)
  BY DEF Counted
<1> HIDE DEF r
<1>3. /\ DOMAIN results' = DOMAIN results \union {Len(results) + 1}
      /\ \A k \in DOMAIN results : results'[k] = results[k]
      /\ results'[Len(results) + 1] = r
  BY <1>1, AppendToResults DEF CaseInv
<1>4. manifest = manifests[Len(results) + 1]
  BY DEF manifest
<1>5. Len(results) + 1 \in DOMAIN manifests
  <2>1. Len(results) \in Nat /\ Len(manifests) \in Nat /\ Len(results) < Len(manifests)
    BY DEF CaseInv, Typed
  <2>2. DOMAIN manifests = 1 .. Len(manifests)
    BY DEF CaseInv, Typed
  <2> QED
    BY <2>1, <2>2
<1> QED
  BY <1>1, <1>2, <1>3, <1>4, <1>5 DEF MetricsInv

\* Only the end of a case counts, and only Assess finds.
LEMMA MetricsStep ==
  ASSUME CaseInv, MetricsInv, [Next]_vars
  PROVE  MetricsInv'
<1>1. CASE GiveUp /\ Busy
  BY <1>1, FinishCounts DEF GiveUp
<1>2. ASSUME UNCHANGED <<manifests, results>>, pc' = "after" => Sized(assessment)'
      PROVE  MetricsInv'
  BY <1>2 DEF MetricsInv
<1>3. CASE ObserveRevision \/ ObserveSnapshot \/ ObserveStatus \/ ObservationFails \/ GitTimesOut
  <2>1. UNCHANGED <<manifests, results>> /\ pc' # "after"
    BY <1>3 DEF ObserveRevision, ObserveSnapshot, ObserveStatus, ObservationFails, GitTimesOut,
                Look, Goto
  <2> QED
    BY <1>2, <2>1
<1>4. CASE CheckArtifact
  <2>1. UNCHANGED <<manifests, results>> /\ pc' # "after"
    BY <1>4 DEF CheckArtifact, Look, Goto, Artifacts, After, Record
  <2> QED
    BY <1>2, <2>1
<1>5. CASE CheckRecord /\ ~(GiveUp /\ Busy)
  <2>1. UNCHANGED <<manifests, results>> /\ pc' # "after"
    BY <1>5 DEF CheckRecord, Goto, Busy, Record
  <2> QED
    BY <1>2, <2>1
<1>6. CASE (ReadContext /\ ~(GiveUp /\ Busy)) \/ SnapshotBefore
  <2>1. UNCHANGED <<manifests, results>> /\ pc' # "after"
    BY <1>6 DEF ReadContext, SnapshotBefore, Goto, Busy
  <2> QED
    BY <1>2, <2>1
<1>7. CASE Assess
  <2>1. UNCHANGED <<manifests, results>>
    BY <1>7 DEF Assess
  <2>2. PICK decision \in {"pass", "fail", "incomplete"}, found \in BOOLEAN :
          /\ found => Source \in DOMAIN Reported
          /\ assessment' = [decision  |-> decision,
                            survivors |-> IF found THEN Reported[Source].survivors ELSE {},
                            verified  |-> IF found THEN Reported[Source].verified ELSE {}]
    BY <1>7 DEF Assess
  <2>3. Sized(assessment')
    BY <2>2, MeasuresTyped, FS_EmptySet DEF Sized
  <2>4. Sized(assessment)'
    BY <2>3 DEF Sized
  <2> QED
    BY <1>2, <2>1, <2>4
<1>8. CASE SnapshotAfter /\ ~(GiveUp /\ Busy)
  <2>1. /\ pc = "after" /\ Busy
        /\ Finish(assessment.decision, CaseMetrics(manifest, assessment), TRUE)
    BY <1>8 DEF SnapshotAfter, Busy
  <2>2. Sized(assessment)
    BY <2>1 DEF MetricsInv
  <2> QED
    BY <2>1, <2>2, FinishCounts
<1>9. CASE EditTree \/ EditFile
  <2>1. UNCHANGED <<manifests, results, pc, assessment>>
    BY <1>9 DEF EditTree, EditFile, Touch, case
  <2> QED
    BY <1>2, <2>1 DEF MetricsInv, Sized
<1>10. CASE UNCHANGED vars
  <2>1. UNCHANGED <<manifests, results, pc, assessment>>
    BY <1>10 DEF vars, case
  <2> QED
    BY <1>2, <2>1 DEF MetricsInv, Sized
<1> QED
  BY <1>1, <1>3, <1>4, <1>5, <1>6, <1>7, <1>8, <1>9, <1>10 DEF Next, RunCase, CaseFails, Busy

\* MetricsInv holds in every reachable state.
LEMMA MetricsHold == Spec => []MetricsInv
<1>1. Init => MetricsInv
  BY DEF Init, MetricsInv
<1>2. CaseInv /\ MetricsInv /\ [Next]_vars => MetricsInv'
  BY MetricsStep
<1> QED
  BY CasesHold, <1>1, <1>2, PTL DEF Spec

-----------------------------------------------------------------------------
(* The metrics.                                                            *)

\* The sets that CaseMetrics counts.
Survived(k) == results[k].assessment.survivors
Verified(k) == results[k].assessment.verified
Accepted(k) == Expected(manifests[k])

\* Over all adjudicated cases.
All(sets) == Pooled(sets, Adjudicated)

TruePositives  == [k \in Adjudicated |-> Accepted(k) \intersect Survived(k)]
FalsePositives == [k \in Adjudicated |-> Survived(k) \ Accepted(k)]
FalseNegatives == [k \in Adjudicated |-> Accepted(k) \ Survived(k)]
Survivors      == [k \in Adjudicated |-> Survived(k)]
Proven         == [k \in Adjudicated |-> Verified(k)]
Explained      == [k \in Adjudicated |-> Verified(k) \intersect Accepted(k)]
Eligible       == [k \in Adjudicated |-> Accepted(k)]

\* A metric that every adjudicated case has adds up to the size of its pool.
LEMMA MetricIsSize ==
  ASSUME CaseInv, NEW field, NEW sets,
         Adjudicated # {},
         \A k \in Adjudicated :
           /\ IsFiniteSet(sets[k])
           /\ results[k].metrics # None
           /\ results[k].metrics[field] = Cardinality(sets[k])
  PROVE  /\ SumMetric(field) = Cardinality(All(sets))
         /\ IsFiniteSet(All(sets)) /\ Cardinality(All(sets)) \in Nat
<1>1. IsFiniteSet(Adjudicated)
  <2>1. Len(results) \in Nat /\ Adjudicated \in SUBSET (1 .. Len(results))
    BY DEF CaseInv, Typed, Adjudicated
  <2>2. IsFiniteSet(1 .. Len(results))
    BY <2>1, FS_Interval
  <2> QED
    BY <2>1, <2>2, FS_Subset
<1>2. Total(field) = Cardinality(All(sets))
  BY <1>1, TotalIsSize DEF All
<1>3. IsFiniteSet(All(sets))
  BY <1>1, PoolIsFinite DEF All
<1> QED
  BY <1>2, <1>3, FS_CardinalityType DEF SumMetric

\* The sets of the cases are finite, and their metrics are the sizes.
LEMMA MetricsAreSizes ==
  ASSUME CaseInv, MetricsInv, NEW k \in Adjudicated, results[k].measured
  PROVE  /\ results[k].metrics # None
         /\ IsFiniteSet(TruePositives[k])
         /\ results[k].metrics["truePositive"] = Cardinality(TruePositives[k])
         /\ IsFiniteSet(FalsePositives[k])
         /\ results[k].metrics["falsePositive"] = Cardinality(FalsePositives[k])
         /\ IsFiniteSet(FalseNegatives[k])
         /\ results[k].metrics["falseNegative"] = Cardinality(FalseNegatives[k])
         /\ IsFiniteSet(Survivors[k])
         /\ results[k].metrics["reported"] = Cardinality(Survivors[k])
         /\ IsFiniteSet(Explained[k])
         /\ results[k].metrics["explained"] = Cardinality(Explained[k])
         /\ IsFiniteSet(Eligible[k])
         /\ results[k].metrics["eligible"] = Cardinality(Eligible[k])
<1> DEFINE m == manifests[k]
           a == results[k].assessment
           expected == Expected(m)
<1>1. k \in DOMAIN results /\ results[k].adjudication = "resolved"
  BY DEF Adjudicated
<1>2. m.adjudication = "resolved" /\ Sized(a) /\ results[k].metrics = CaseMetrics(m, a)
  BY <1>1 DEF MetricsInv, Counted
<1>3. m \in Manifests
  <2>1. k \in DOMAIN manifests
    BY <1>1 DEF MetricsInv
  <2> QED
    BY <2>1 DEF CaseInv, Typed
<1>4. IsFiniteSet(expected)
  <2> DEFINE kept == {l \in m.labels : l.outcome = "survived" /\ l.accepted}
  <2>1. IsFiniteSet(m.labels)
    BY <1>3, MeasuresTyped
  <2>2. IsFiniteSet(kept)
    BY <2>1, FS_Subset
  <2>3. expected = {l.object : l \in kept}
    BY DEF Expected
  <2>4. [l \in kept |-> l.object] \in Surjection(kept, expected)
    BY <2>3 DEF Surjection
  <2> HIDE DEF expected, kept
  <2> QED
    BY <2>2, <2>4, FS_Surjection
<1> HIDE DEF m, a, expected
<1>5. /\ IsFiniteSet(a.survivors) /\ IsFiniteSet(a.verified)
      /\ IsFiniteSet(expected \intersect a.survivors) /\ IsFiniteSet(a.survivors \ expected)
      /\ IsFiniteSet(expected \ a.survivors) /\ IsFiniteSet(a.verified \intersect expected)
  <2>1. IsFiniteSet(a.survivors) /\ IsFiniteSet(a.verified)
    BY <1>2 DEF Sized
  <2>2. /\ (expected \intersect a.survivors) \in SUBSET expected
        /\ (a.survivors \ expected) \in SUBSET a.survivors
        /\ (expected \ a.survivors) \in SUBSET expected
        /\ (a.verified \intersect expected) \in SUBSET expected
    OBVIOUS
  <2> QED
    BY <1>4, <2>1, <2>2, FS_Subset
<1>6. results[k].metrics = [truePositive  |-> Cardinality(expected \intersect a.survivors),
                            falsePositive |-> Cardinality(a.survivors \ expected),
                            falseNegative |-> Cardinality(expected \ a.survivors),
                            reported      |-> Cardinality(a.survivors),
                            explained     |-> Cardinality(a.verified \intersect expected),
                            eligible      |-> Cardinality(expected)]
  BY <1>2 DEF CaseMetrics, expected
<1>7. results[k].metrics \in Metrics
  BY <1>4, <1>5, <1>6, FS_CardinalityType DEF Metrics
<1>8. results[k].metrics # None
  BY <1>7, MeasuresTyped
<1>9. /\ TruePositives[k] = expected \intersect a.survivors
      /\ FalsePositives[k] = a.survivors \ expected
      /\ FalseNegatives[k] = expected \ a.survivors
      /\ Survivors[k] = a.survivors
      /\ Explained[k] = a.verified \intersect expected
      /\ Eligible[k] = expected
  BY DEF TruePositives, FalsePositives, FalseNegatives, Survivors, Explained, Eligible,
         Accepted, Survived, Verified, m, a, expected
<1> QED
  BY <1>4, <1>5, <1>6, <1>8, <1>9

\* How the pools lie to one another.
LEMMA PoolsFit ==
  /\ All(Survivors) = All(TruePositives) \union All(FalsePositives)
  /\ All(Eligible) = All(TruePositives) \union All(FalseNegatives)
  /\ All(TruePositives) \intersect All(FalsePositives) = {}
  /\ All(TruePositives) \intersect All(FalseNegatives) = {}
  /\ All(TruePositives) = All(Survivors) \intersect All(Eligible)
  /\ All(Explained) = All(Proven) \intersect All(Eligible)
<1> USE DEF All, Pooled, Tagged
<1>1. \A k \in Adjudicated :
        /\ Survivors[k] = TruePositives[k] \union FalsePositives[k]
        /\ Eligible[k] = TruePositives[k] \union FalseNegatives[k]
        /\ TruePositives[k] \intersect FalsePositives[k] = {}
        /\ TruePositives[k] \intersect FalseNegatives[k] = {}
        /\ TruePositives[k] = Survivors[k] \intersect Eligible[k]
        /\ Explained[k] = Proven[k] \intersect Eligible[k]
  BY DEF TruePositives, FalsePositives, FalseNegatives, Survivors, Eligible, Explained, Proven
<1>2. All(Survivors) = All(TruePositives) \union All(FalsePositives)
  BY <1>1
<1>3. All(Eligible) = All(TruePositives) \union All(FalseNegatives)
  BY <1>1
<1>4. All(TruePositives) \intersect All(FalsePositives) = {}
  BY <1>1
<1>5. All(TruePositives) \intersect All(FalseNegatives) = {}
  BY <1>1
<1>6. All(TruePositives) = All(Survivors) \intersect All(Eligible)
  BY <1>1
<1>7. All(Explained) = All(Proven) \intersect All(Eligible)
  BY <1>1
<1> QED
  BY <1>2, <1>3, <1>4, <1>5, <1>6, <1>7

\* Two sets without a common element have as many elements as both together.
LEMMA SizesAdd ==
  ASSUME NEW S, NEW T, IsFiniteSet(S), IsFiniteSet(T), S \intersect T = {}
  PROVE  Cardinality(S) + Cardinality(T) = Cardinality(S \union T)
<1>1. Cardinality(S \union T) = Cardinality(S) + Cardinality(T) - Cardinality(S \intersect T)
  BY FS_Union
<1>2. Cardinality(S) \in Nat /\ Cardinality(T) \in Nat /\ Cardinality(S \intersect T) = 0
  BY FS_CardinalityType, FS_EmptySet
<1> QED
  BY <1>1, <1>2

\* A ratio of the sizes of two pools.
Share(part, whole) ==
  IF whole = {} THEN None ELSE <<Cardinality(part), Cardinality(whole)>>

\* Ratio of the sizes is that, None when there is nothing to divide by.
LEMMA RatioIsShare ==
  ASSUME NEW part, NEW whole, IsFiniteSet(part), IsFiniteSet(whole)
  PROVE  Ratio(Cardinality(part), Cardinality(whole)) = Share(part, whole)
<1>1. Cardinality(part) \in Nat /\ Cardinality(whole) \in Nat
  BY FS_CardinalityType
<1>2. None \notin {Cardinality(part), Cardinality(whole)}
  BY <1>1, MeasuresTyped
<1>3. Cardinality(whole) = 0 <=> whole = {}
  BY FS_EmptySet
<1> QED
  BY <1>2, <1>3 DEF Ratio, Share

\* When all were measured the aggregate is that of the pools.
LEMMA MeasuredTogether ==
  ASSUME CaseInv, MetricsInv, Adjudicated # {}, \A k \in Adjudicated : results[k].measured
  PROVE  Aggregate = [precision   |-> Share(All(TruePositives), All(Survivors)),
                      recall      |-> Share(All(TruePositives), All(Eligible)),
                      useful      |-> Share(All(TruePositives), All(Survivors)),
                      explanation |-> Share(All(Explained), All(Eligible))]
<1>1. /\ SumMetric("truePositive") = Cardinality(All(TruePositives))
      /\ IsFiniteSet(All(TruePositives))
  BY MetricsAreSizes, MetricIsSize
<1>2. /\ SumMetric("falsePositive") = Cardinality(All(FalsePositives))
      /\ IsFiniteSet(All(FalsePositives))
  BY MetricsAreSizes, MetricIsSize
<1>3. /\ SumMetric("falseNegative") = Cardinality(All(FalseNegatives))
      /\ IsFiniteSet(All(FalseNegatives))
  BY MetricsAreSizes, MetricIsSize
<1>4. /\ SumMetric("reported") = Cardinality(All(Survivors))
      /\ IsFiniteSet(All(Survivors))
  BY MetricsAreSizes, MetricIsSize
<1>5. /\ SumMetric("explained") = Cardinality(All(Explained))
      /\ IsFiniteSet(All(Explained))
  BY MetricsAreSizes, MetricIsSize
<1>6. /\ SumMetric("eligible") = Cardinality(All(Eligible))
      /\ IsFiniteSet(All(Eligible))
  BY MetricsAreSizes, MetricIsSize
<1>7. \A S, T : IsFiniteSet(S) /\ IsFiniteSet(T) =>
        Plus(Cardinality(S), Cardinality(T)) = Cardinality(S) + Cardinality(T)
  <2> SUFFICES ASSUME NEW S, NEW T, IsFiniteSet(S), IsFiniteSet(T)
               PROVE  Plus(Cardinality(S), Cardinality(T)) = Cardinality(S) + Cardinality(T)
    OBVIOUS
  <2>1. Cardinality(S) \in Nat /\ Cardinality(T) \in Nat
    BY FS_CardinalityType
  <2> QED
    BY <2>1, MeasuresTyped DEF Plus
<1>8. Plus(SumMetric("truePositive"), SumMetric("falsePositive")) = Cardinality(All(Survivors))
  <2>1. Cardinality(All(TruePositives)) + Cardinality(All(FalsePositives))
          = Cardinality(All(TruePositives) \union All(FalsePositives))
    BY <1>1, <1>2, PoolsFit, SizesAdd
  <2> QED
    BY <1>1, <1>2, <1>7, <2>1, PoolsFit
<1>9. Plus(SumMetric("truePositive"), SumMetric("falseNegative")) = Cardinality(All(Eligible))
  <2>1. Cardinality(All(TruePositives)) + Cardinality(All(FalseNegatives))
          = Cardinality(All(TruePositives) \union All(FalseNegatives))
    BY <1>1, <1>3, PoolsFit, SizesAdd
  <2> QED
    BY <1>1, <1>3, <1>7, <2>1, PoolsFit
<1>10. /\ Ratio(Cardinality(All(TruePositives)), Cardinality(All(Survivors)))
            = Share(All(TruePositives), All(Survivors))
       /\ Ratio(Cardinality(All(TruePositives)), Cardinality(All(Eligible)))
            = Share(All(TruePositives), All(Eligible))
       /\ Ratio(Cardinality(All(Explained)), Cardinality(All(Eligible)))
            = Share(All(Explained), All(Eligible))
  BY <1>1, <1>4, <1>5, <1>6, RatioIsShare
<1> QED
  BY <1>1, <1>4, <1>5, <1>6, <1>8, <1>9, <1>10 DEF Aggregate

\* When one was not, or there is none, nothing is.
LEMMA NotMeasured ==
  ASSUME MetricsInv, Adjudicated = {} \/ \E k \in Adjudicated : ~ results[k].measured
  PROVE  Aggregate = [precision |-> None, recall |-> None, useful |-> None, explanation |-> None]
<1>1. \A field : SumMetric(field) = None
  <2>1. ASSUME NEW k \in Adjudicated, ~ results[k].measured
        PROVE  results[k].metrics = None
    BY <2>1 DEF MetricsInv, Counted, Adjudicated
  <2> QED
    BY <2>1 DEF SumMetric
<1>2. \A b : Ratio(None, b) = None
  BY DEF Ratio
<1> QED
  BY <1>1, <1>2 DEF Aggregate

\* Precision, recall and the shares of useful and explained findings are those of
\* the survivors of all adjudicated cases pooled, each counted once in the case that
\* reported it, and there are none unless every one was measured: for any number of
\* cases, manifests and edits.
THEOREM MetricsAreOfThePool == Spec => []MetricsAreFair
<1>1. CaseInv /\ MetricsInv => MetricsAreFair
  <2> SUFFICES ASSUME CaseInv, MetricsInv PROVE MetricsAreFair
    OBVIOUS
  <2>1. \A k \in DOMAIN results \ Adjudicated : results[k].metrics = None
    BY DEF MetricsInv, Counted, Adjudicated, CaseMetrics
  <2> DEFINE found  == UNION {{<<k, x>> : x \in results[k].assessment.survivors} : k \in Adjudicated}
             proven == UNION {{<<k, x>> : x \in results[k].assessment.verified} : k \in Adjudicated}
             true   == UNION {{<<k, x>> : x \in {l.object : l \in {t \in manifests[k].labels :
                                                     t.outcome = "survived" /\ t.accepted}}} :
                                k \in Adjudicated}
             measured == Adjudicated # {} /\ \A k \in Adjudicated : results[k].measured
  <2>2. found = All(Survivors)
    BY DEF All, Pooled, Tagged, Survivors, Survived
  <2>3. proven = All(Proven)
    BY DEF All, Pooled, Tagged, Proven, Verified
  <2>4. true = All(Eligible)
    <3>1. \A k \in Adjudicated : Eligible[k] = {l.object : l \in {t \in manifests[k].labels :
                                                t.outcome = "survived" /\ t.accepted}}
      BY DEF Eligible, Accepted, Expected
    <3> QED
      BY <3>1 DEF All, Pooled, Tagged
  <2>5. Aggregate =
          IF measured
          THEN [precision   |-> Share(found \intersect true, found),
                recall      |-> Share(found \intersect true, true),
                useful      |-> Share(found \intersect true, found),
                explanation |-> Share(proven \intersect true, true)]
          ELSE [precision |-> None, recall |-> None, useful |-> None, explanation |-> None]
    <3> HIDE DEF found, proven, true
    <3>1. CASE measured
      BY <2>2, <2>3, <2>4, <3>1, MeasuredTogether, PoolsFit
    <3>2. CASE ~ measured
      BY <3>2, NotMeasured
    <3> QED
      BY <3>1, <3>2
  <2> QED
    BY <2>1, <2>5, Zenon DEF MetricsAreFair, Share
<1> QED
  BY CasesHold, MetricsHold, <1>1, PTL

================================================================================
