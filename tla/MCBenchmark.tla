------------------------------ MODULE MCBenchmark ------------------------------
(* Two cases at most, over one repository and one set of files that two edits  *)
(* may change.                                                                 *)
EXTENDS Benchmark

\* A clean git checkout, the same with an uncommitted change, the next commit,
\* and a directory without git, whose revision is its content.
MCTrees ==
  {[git |-> TRUE,  revision |-> "git:1",   content |-> "t1", dirty |-> FALSE],
   [git |-> TRUE,  revision |-> "git:1",   content |-> "t2", dirty |-> TRUE],
   [git |-> TRUE,  revision |-> "git:2",   content |-> "t2", dirty |-> FALSE],
   [git |-> FALSE, revision |-> "tree:t1", content |-> "t1", dirty |-> FALSE]}

MCContents == {"context", "report", "other"}

MCRequirementOf ==
  [c \in MCContents |->
     CASE c = "context" -> "R1" [] c = "other" -> "R2" [] OTHER -> None]

\* What mutating a content or reading a report finds; a context is no report.
MCReported ==
  [c \in {"report", "other", "t1", "t2"} |->
     CASE c \in {"report", "t1"} -> [survivors |-> {"m1", "m2"}, verified |-> {"m1"}]
       [] OTHER                  -> [survivors |-> {"m3"}, verified |-> {"m3"}]]

Label(object, outcome, accepted) == [object |-> object, outcome |-> outcome, accepted |-> accepted]

\* m1 and m4 survived and were accepted, m2 was not, m3 was expected to be killed.
MCLabels ==
  {Label("m1", "survived", TRUE), Label("m2", "survived", FALSE),
   Label("m3", "killed", TRUE), Label("m4", "survived", TRUE)}

MCPins == [requirement |-> "report", test_context |-> "context", mutation_report |-> "report",
           record |-> "report"]

MCFirstFiles == {MCPins}

\* The plain case: a clean tree, its report, an adjudicated outcome.
Plain ==
  [wellFormed |-> TRUE, revision |-> "git:1", requirement |-> "R1", pins |-> MCPins,
   source |-> "report", allowDirty |-> FALSE, status |-> "clean", snapshot |-> None,
   reason |-> None, labels |-> MCLabels, adjudication |-> "resolved"]

\* Its variations: no adjudication, no labels, a dirty tree with and without what
\* that asks for, a backend, another argv, another requirement, no manifest.
MCPayloads ==
  {Plain,
   [Plain EXCEPT !.adjudication = "unresolved"],
   [Plain EXCEPT !.labels = {}, !.snapshot = "t1"],
   [Plain EXCEPT !.source = "backend", !.snapshot = "t2", !.status = "dirty",
                 !.allowDirty = TRUE, !.reason = "local patch"],
   [Plain EXCEPT !.source = "backend", !.revision = "tree:t1"],
   [Plain EXCEPT !.source = None],
   [Plain EXCEPT !.pins["test_context"] = "other"],
   [Plain EXCEPT !.status = "dirty", !.snapshot = "t2"],
   [Plain EXCEPT !.wellFormed = FALSE]}

\* A second case follows only those that count differently, with one edit in all.
MCSpec ==
  /\ Init
  /\ Len(manifests) = 2 =>
       /\ \A k \in 1..2 : manifests[k].source # None /\ manifests[k].pins = MCPins
       /\ tree.git
  /\ [][Next /\ (Len(manifests) = 2 => edits' <= 1)]_vars

=============================================================================
