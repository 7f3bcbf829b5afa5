--------------------------- MODULE TestEngineering ---------------------------
(***************************************************************************)
(* TestEngineeringService.run (test_engineering_service.py): a generator   *)
(* proposes a patch of test files, _preflight parses, compiles and looks   *)
(* for assertions, a backend runs it in a copy of the repository, a failed *)
(* patch is generated again at most max_repairs times, and a patch that    *)
(* passes is reviewed by the rules.                                        *)
(*                                                                         *)
(* A patch is a non-empty sequence of files.  Of a file only what the      *)
(* gates tell apart is kept: its form (see Forms), whether its path is     *)
(* relative and below a test root (safe), and whether a rule of severity   *)
(* high or critical matches (finding).  Evidence ids are left out.         *)
(***************************************************************************)
EXTENDS Integers, Sequences

CONSTANTS Patches,    \* the patches a generator may propose
          Requests    \* the requests that may be made

\* What ast.parse and compile do with a file, and what its assertions are:
\* "parse" is a SyntaxError of ast.parse; "compile" a ValueError of compile;
\* "assertion" no assert, or one on a literal; "raises" any other exception,
\* such as compile's SyntaxError for a return outside a function.
Forms    == {"ok", "parse", "compile", "assertion", "raises"}
FileType == [form : Forms, safe : BOOLEAN, finding : BOOLEAN]

Backends == {"pytest", "playwright", "injected"}

\* valid: TestIntent, TestScenario and TestPlan accept the request's fields.
RequestType == [generator : BOOLEAN, evidence : BOOLEAN, valid : BOOLEAN,
                backend : Backends, maxRepairs : Nat]

ASSUME PatchesTyped ==
  \A p \in Patches : p \in Seq(FileType) /\ p # <<>>
ASSUME RequestsTyped == Requests \subseteq RequestType

ExecutionReasons == {"EVIDENCE_SUFFICIENT", "INSUFFICIENT_EVIDENCE", "TIMEOUT", "ERROR"}

VARIABLES
  request,    \* the TestEngineeringRequest
  pc,         \* where run is
  patch,      \* the current patch, <<>> before the first
  gates,      \* the gates dictionary, "absent" for a key that is not in it
  execution,  \* the current ExecutionResult, and the patch it is of
  repairs,    \* the RepairAttempts
  traces,     \* the LoopTrace list
  status,     \* the TestCandidateStatus that run returns
  error       \* the exception that leaves run

vars == <<request, pc, patch, gates, execution, repairs, traces, status, error>>

-----------------------------------------------------------------------------
Gates == {"parse", "compile", "assertion", "reviewer", "execution", "patch-safety"}

NoGates == [g \in Gates |-> "absent"]

NoExecution == [passed |-> FALSE, reason |-> "none", of |-> <<>>]
NoStatus    == [decision |-> "none", reason |-> "none"]

Trace(iteration, action, result) ==
  [iteration |-> iteration, action |-> action, status |-> result]

Safe(p)     == \A i \in DOMAIN p : p[i].safe
Findings(p) == \E i \in DOMAIN p : p[i].finding

InOrder(p)  == \A i \in DOMAIN p : p[i].form = "ok"

\* Mutant: the assertions of a file are not looked at.
PreflightSyntax(p, verdict) ==
  \/ verdict = "ok" /\ \A i \in DOMAIN p : p[i].form \in {"ok", "assertion"}
  \/ \E i \in DOMAIN p : /\ verdict = p[i].form
                         /\ verdict \notin {"ok", "assertion"}
                         /\ \A j \in DOMAIN p : j < i => p[j].form \in {"ok", "assertion"}

\* The first file that is not in order decides.
Preflight(p, verdict) ==
  \/ verdict = "ok" /\ InOrder(p)
  \/ \E i \in DOMAIN p : /\ verdict = p[i].form
                         /\ verdict # "ok"
                         /\ \A j \in DOMAIN p : j < i => p[j].form = "ok"

\* The dictionary that _preflight returns: all passed but the rejecting gate.
PreflightGates(verdict) ==
  [g \in Gates |->
     CASE g \in {"execution", "patch-safety"}                        -> "absent"
       [] g = verdict \/ (g = "reviewer" /\ verdict = "assertion")    -> "rejected"
       [] OTHER                                                      -> "passed"]

Ran(passed) == [passed |-> passed, reason |-> "EVIDENCE_SUFFICIENT"]
Unfinished  == [passed : {FALSE}, reason : {"INSUFFICIENT_EVIDENCE", "TIMEOUT"}]

\* What a backend returns: the tests ran, the runner is not there, the time
\* was up; Playwright is never run; another backend returns anything.
ResultsOf(backend) ==
  CASE backend = "pytest"     -> {Ran(TRUE), Ran(FALSE)} \union Unfinished
    [] backend = "playwright" -> {[passed |-> FALSE, reason |-> "INSUFFICIENT_EVIDENCE"]}
    [] OTHER                  -> [passed : BOOLEAN, reason : ExecutionReasons]

Number == Len(repairs)

-----------------------------------------------------------------------------
Init ==
  /\ request \in Requests
  /\ pc = "start"
  /\ patch = <<>> /\ gates = NoGates /\ execution = NoExecution
  /\ repairs = <<>> /\ traces = <<>>
  /\ status = NoStatus /\ error = "none"

Return(decision, reason) ==
  /\ pc' = "returned"
  /\ status' = [decision |-> decision, reason |-> reason]
  /\ UNCHANGED error

Raise(exception) ==
  /\ pc' = "raised"
  /\ error' = exception
  /\ UNCHANGED status

Goto(label) == pc' = label /\ UNCHANGED <<status, error>>

\* No generator, no Evidence of the requirement.
Decline ==
  /\ pc = "start"
  /\ ~ request.generator \/ ~ request.evidence
  /\ Return("incomplete", "INSUFFICIENT_EVIDENCE")
  /\ UNCHANGED <<request, patch, gates, execution, repairs, traces>>

Generate ==
  /\ pc = "start" /\ request.generator /\ request.evidence
  /\ \/ /\ request.valid
        /\ patch' \in Patches
        /\ traces' = <<Trace(1, "generate", "completed")>>
        /\ Goto("generated")
     \/ Raise("other") /\ UNCHANGED <<patch, traces>>   \* bad fields, generator fails
  /\ UNCHANGED <<request, gates, execution, repairs>>

\* _preflight of the first patch, or of a repaired one.
Check ==
  /\ pc = "generated"
  /\ \E verdict \in Forms :
       /\ Preflight(patch, verdict)
       /\ \/ /\ verdict = "ok"
             /\ gates' = PreflightGates(verdict)
             /\ traces' = IF Number > 0 THEN traces
                          ELSE traces \o <<Trace(2, "parse", "completed"),
                                           Trace(3, "compile", "completed")>>
             /\ Goto("checked")
          \/ /\ verdict \in {"parse", "compile", "assertion"}
             /\ gates' = PreflightGates(verdict)
             /\ traces' = Append(traces, Trace(IF Number = 0 THEN 2 ELSE 5 + Number,
                                               verdict, "rejected"))
             /\ Return("rejected", "INSUFFICIENT_EVIDENCE")
          \/ /\ verdict = "raises"
             /\ Raise("other")
             /\ UNCHANGED <<gates, traces>>
  /\ UNCHANGED <<request, patch, execution, repairs>>

\* A runner of this repository validates the paths before anything else.
Runs(result) ==
  /\ result \in ResultsOf(request.backend)
  /\ request.backend # "injected" => Safe(patch)
  /\ traces' = Append(traces, Trace(IF Number = 0 THEN 4 ELSE 5 + Number, "execute",
                                    IF result.passed THEN "completed" ELSE "failed"))
  /\ execution' = [passed |-> result.passed, reason |-> result.reason, of |-> patch]
  /\ Goto("executed")

\* Copying or writing fails; or pytest is stopped at the timeout after it wrote
\* something: run's TimeoutExpired carries bytes, which "" is added to.
Breaks ==
  /\ \/ request.backend = "injected" /\ Raise("other")
     \/ request.backend = "pytest" /\ Safe(patch) /\ (Raise("other") \/ Raise("TimeoutOutput"))
  /\ UNCHANGED <<execution, traces>>

\* Mutants: the result of the first patch is kept after a repair; a run that
\* did not finish is started again.
ExecuteOnce ==
  /\ pc = "checked"
  /\ \E result \in ResultsOf(request.backend) :
       IF Number = 0 THEN Runs(result)
       ELSE Goto("executed") /\ UNCHANGED <<execution, traces>>
  /\ UNCHANGED <<request, patch, gates, repairs>>

ExecuteAgain ==
  /\ pc = "checked"
  /\ \E result \in ResultsOf(request.backend) :
       IF result.reason = "EVIDENCE_SUFFICIENT" THEN Runs(result)
       ELSE /\ request.backend # "injected" => Safe(patch)
            /\ execution' = [passed |-> FALSE, reason |-> result.reason, of |-> patch]
            /\ Goto("checked") /\ UNCHANGED traces
  /\ UNCHANGED <<request, patch, gates, repairs>>

\* backend.execute, of the first patch or in a repair.
Execute ==
  /\ pc = "checked"
  /\ Breaks \/ \E result \in ResultsOf(request.backend) : Runs(result)
  /\ UNCHANGED <<request, patch, gates, repairs>>

\* PatchSafetyError, of validate_patch or of an injected backend: caught around
\* the first execution, not in a repair.
RefuseUnsafe ==
  /\ pc = "checked" /\ (~ Safe(patch) \/ request.backend = "injected")
  /\ IF Number = 0
     THEN /\ traces' = Append(traces, Trace(4, "patch-safety", "rejected"))
          /\ gates' = [gates EXCEPT !["patch-safety"] = "rejected"]
          /\ Return("rejected", "INSUFFICIENT_EVIDENCE")
     ELSE /\ Raise("PatchSafetyError")
          /\ UNCHANGED <<traces, gates>>
  /\ UNCHANGED <<request, patch, execution, repairs>>

\* Mutant: any failure is repaired.
RepairableAlways == ~ execution.passed /\ Number < request.maxRepairs

Repairable ==
  ~ execution.passed /\ execution.reason = "EVIDENCE_SUFFICIENT" /\ Number < request.maxRepairs

\* One round of the repair loop up to the next patch.
Repair ==
  /\ pc = "executed" /\ Repairable
  /\ repairs' = Append(repairs, [number |-> Number + 1, patch |-> patch])
  /\ \/ /\ patch' \in Patches
        /\ traces' = traces \o <<Trace(5 + Number, "analyze_failure", "completed"),
                                 Trace(5 + Number, "repair", "completed")>>
        /\ Goto("generated")
     \/ /\ traces' = Append(traces, Trace(5 + Number, "analyze_failure", "completed"))
        /\ Raise("other") /\ UNCHANGED patch
  /\ UNCHANGED <<request, gates, execution>>

\* Mutant: any failure after the last repair counts.
ExhaustedAlways == request.maxRepairs > 0 /\ Number = request.maxRepairs

Exhausted ==
  /\ execution.reason = "EVIDENCE_SUFFICIENT"
  /\ request.maxRepairs > 0 /\ Number = request.maxRepairs

GiveUp ==
  /\ pc = "executed" /\ ~ execution.passed /\ ~ Repairable
  /\ gates' = [gates EXCEPT !["execution"] = "rejected"]
  /\ IF Exhausted THEN Return("incomplete", "BUDGET_EXHAUSTED")
     ELSE Return("rejected", execution.reason)
  /\ UNCHANGED <<request, patch, execution, repairs, traces>>

Review ==
  /\ pc = "executed" /\ execution.passed
  /\ LET verdict == IF Findings(patch) THEN "rejected" ELSE "passed" IN
     /\ gates' = [gates EXCEPT !["execution"] = "passed", !["assertion"] = "passed",
                               !["reviewer"] = verdict]
     /\ traces' = Append(traces, Trace(Len(traces) + 1, "review",
                           IF Findings(patch) THEN "rejected" ELSE "completed"))
  /\ IF Findings(patch) THEN Return("rejected", "INSUFFICIENT_EVIDENCE")
     ELSE Return("accepted", "EVIDENCE_SUFFICIENT")
  /\ UNCHANGED <<request, patch, execution, repairs>>

Done == pc \in {"returned", "raised"}

Next == Decline \/ Generate \/ Check \/ Execute \/ RefuseUnsafe \/ Repair \/ GiveUp \/ Review

SafetySpec == Init /\ [][Next]_vars
Spec       == SafetySpec /\ WF_vars(Next)

=============================================================================
