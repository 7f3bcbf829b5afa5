----------------------- MODULE MCAssessmentPersistence -----------------------
(***************************************************************************)
(* Small instances of AssessmentPersistence: two calls, a context or none, *)
(* two reports and mutmut about the same two mutants.                      *)
(***************************************************************************)
EXTENDS AssessmentPersistence, TLC

MCMutants == {"m1", "m2"}

Killed   == [m \in MCMutants |-> "killed"]
Survived == [m \in MCMutants |-> IF m = "m1" THEN "killed" ELSE "survived"]

MCReports        == {"rA", "rB"}
MCReportResults  == [r \in MCReports |-> IF r = "rA" THEN Killed ELSE Survived]
\* Two that contradict each other, and one of another mutant as well.
MCMetadata       == {[m \in {"m1"} |-> "killed"], [m \in {"m1"} |-> "survived"],
                     [m \in MCMutants |-> IF m = "m1" THEN "survived" ELSE "timeout"]}
MCBackendResults == {Killed, Survived}

Asking(contexts, sources, iterations) ==
  [context : contexts, source : sources, iterations : iterations]

MCCallRequests    == Asking({"c1", NoContext}, MCReports \union {Mutmut}, {8})
\* One of the two calls may run out of iterations behind OBSERVE.
MCSmallBudgets    == Asking({"c1"}, {"rA"}, {5, 8})

MCAllOutcomes == OutcomeType

Symmetry == Permutations(Clients)

=============================================================================
