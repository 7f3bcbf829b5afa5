---------------------------- MODULE MCGateDecision ----------------------------
(***************************************************************************)
(* All calls of the gate over small counts, with thresholds around the     *)
(* rates that these counts give and every kind of Evidence and signal.     *)
(***************************************************************************)
EXTENDS GateDecision

CONSTANT MaxEligible    \* bound on killed and on survived

Signals ==
  {{},
   {[kind |-> "mutation_survivor", severity |-> "medium", verified |-> TRUE]},
   {[kind |-> "mutation_survivor", severity |-> "high", verified |-> FALSE]},
   {[kind |-> "mutation_survivor", severity |-> "critical", verified |-> TRUE]},
   {[kind |-> "oracle_missing", severity |-> "high", verified |-> TRUE]}}

\* Two thirds are rounded to 66670, above the exact value.
MCThresholds == {0, 50000, 66661, 66665, 66669, 100000}

\* At most one mutant of each kind is without a result.
Unobserved == [{"timeout", "error", "not_run"} -> 0 .. 1]

Scores == {Score(k, s, u["timeout"], u["error"], u["not_run"]) :
             k \in 0 .. MaxEligible, s \in 0 .. MaxEligible, u \in Unobserved}

MCInputs ==
  [contextValid : {TRUE}, hasRun : {TRUE},
   process      : {"completed", "partial", "not_run"},
   observation  : {"complete", "partial"},
   score        : Scores,
   links        : SUBSET MappingStatuses,
   signals      : Signals,
   threshold    : MCThresholds \union {NoThreshold},
   execution    : {{"verified"}},
   assertion    : {{"verified"}},
   reason       : {"EVIDENCE_SUFFICIENT"}]

=============================================================================
