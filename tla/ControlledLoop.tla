--------------------------- MODULE ControlledLoop ---------------------------
(***************************************************************************)
(* What one call of the assessment service promises, whatever the phases   *)
(* do: the call records its phases one at a time and never more than its   *)
(* budget allows, it observes the provider at most once and only after the *)
(* phases that grant the permissions, and any decision other than          *)
(* "incomplete" comes at the end of the whole loop, from an observation,   *)
(* with EVIDENCE_SUFFICIENT as the reason.  A call ends.                   *)
(***************************************************************************)
EXTENDS Naturals

CONSTANTS Limits,       \* the values of max_iterations
          LastPhase,    \* number of phases of the whole loop
          MutatePhase,  \* phase that grants the permission to run mutants
          Reasons,      \* termination reasons
          Decisions     \* decisions of the gate, "incomplete" among them

VARIABLES limit,      \* max_iterations of this call
          phase,      \* phases recorded so far
          observed,   \* did the provider give a result
          status,     \* "running", "returned" or "raised"
          reason, decision

vars == <<limit, phase, observed, status, reason, decision>>

Init ==
  /\ limit \in Limits
  /\ phase = 0 /\ observed = FALSE
  /\ status = "running" /\ reason = "none" /\ decision = "none"

Advance ==
  /\ status = "running" /\ phase < limit /\ phase < LastPhase
  /\ phase' = phase + 1
  /\ UNCHANGED <<limit, observed, status, reason, decision>>

Observe ==
  /\ status = "running" /\ phase = MutatePhase /\ ~ observed
  /\ observed' = TRUE
  /\ UNCHANGED <<limit, phase, status, reason, decision>>

Conclude ==
  /\ status = "running"
  /\ status' = "returned"
  /\ reason' \in Reasons /\ decision' \in Decisions
  /\ decision' # "incomplete"
       => phase = LastPhase /\ observed /\ reason' = "EVIDENCE_SUFFICIENT"
  /\ UNCHANGED <<limit, phase, observed>>

\* An exception leaves the call, in the step that records a phase or not.
Raise ==
  /\ status = "running"
  /\ status' = "raised"
  /\ \/ phase' = phase
     \/ phase < limit /\ phase < LastPhase /\ phase' = phase + 1
  /\ UNCHANGED <<limit, observed, reason, decision>>

Next == Advance \/ Observe \/ Conclude \/ Raise

SafetySpec == Init /\ [][Next]_vars
Spec       == SafetySpec /\ WF_vars(Next)

=============================================================================
