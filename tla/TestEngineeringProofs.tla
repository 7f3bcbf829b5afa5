------------------------ MODULE TestEngineeringProofs ------------------------
(***************************************************************************)
(* Proofs about TestEngineering for all patches, requests and repair       *)
(* budgets.                                                                *)
(***************************************************************************)
EXTENDS TestEngineeringProperties, SequenceTheorems, FiniteSetTheorems, TLAPS

-----------------------------------------------------------------------------
(* Types.                                                                  *)

USE DEF Backends, Forms, ExecutionReasons, Gates

\* What the constructors of TraceType's and AttemptType's records yield.
LEMMA TraceTyped ==
  ASSUME NEW i \in Nat \ {0},
         NEW a \in {"generate", "parse", "compile", "assertion", "patch-safety", "execute",
                    "analyze_failure", "repair", "review"},
         NEW s \in {"completed", "rejected", "failed"}
  PROVE  Trace(i, a, s) \in TraceType
BY DEF Trace, TraceType

\* The dictionaries that _preflight returns assign a value to every gate.
LEMMA PreflightGatesTyped ==
  ASSUME NEW v \in Forms
  PROVE  PreflightGates(v) \in [Gates -> {"absent", "passed", "rejected"}]
BY DEF PreflightGates

\* Every result of a backend has the fields of an ExecutionResult.
LEMMA ResultsTyped ==
  ASSUME NEW b \in Backends, NEW r \in ResultsOf(b)
  PROVE  r.passed \in BOOLEAN /\ r.reason \in ExecutionReasons
<1>1. CASE b = "pytest"
  <2>1. r \in {Ran(TRUE), Ran(FALSE)} \union Unfinished
    BY <1>1 DEF ResultsOf
  <2>2. CASE r \in Unfinished
    BY <2>2 DEF Unfinished
  <2>3. CASE r = Ran(TRUE) \/ r = Ran(FALSE)
    <3>1. /\ Ran(TRUE).passed = TRUE /\ Ran(FALSE).passed = FALSE
          /\ Ran(TRUE).reason = "EVIDENCE_SUFFICIENT" /\ Ran(FALSE).reason = "EVIDENCE_SUFFICIENT"
      BY DEF Ran
    <3> QED
      BY <2>3, <3>1
  <2> QED
    BY <2>1, <2>2, <2>3
<1>2. CASE b = "playwright"
  <2>1. r = [passed |-> FALSE, reason |-> "INSUFFICIENT_EVIDENCE"]
    BY <1>2 DEF ResultsOf
  <2>2. r.passed = FALSE /\ r.reason = "INSUFFICIENT_EVIDENCE"
    BY <2>1
  <2> QED
    BY <2>2
<1>3. CASE b = "injected"
  <2>1. r \in [passed : BOOLEAN, reason : ExecutionReasons]
    BY <1>3 DEF ResultsOf
  <2> QED
    BY <2>1
<1> QED
  BY <1>1, <1>2, <1>3

\* Most steps add one entry to the trace.
LEMMA GrowByOne ==
  ASSUME traces \in Seq(TraceType), NEW a \in TraceType
  PROVE  Append(traces, a) \in Seq(TraceType) /\ <<a>> \in Seq(TraceType)
BY AppendProperties

\* A round of the repair loop adds two.
LEMMA GrowByTwo ==
  ASSUME traces \in Seq(TraceType), NEW a \in TraceType, NEW b \in TraceType
  PROVE  traces \o <<a, b>> \in Seq(TraceType)
<1>1. <<a, b>> \in Seq(TraceType)
  OBVIOUS
<1> QED
  BY <1>1, ConcatProperties

\* A patch is not the empty sequence, so a result of a patch is not NoExecution.
LEMMA ResultIsExecution ==
  ASSUME NEW p \in Patches, NEW r
  PROVE  [passed |-> r.passed, reason |-> r.reason, of |-> p] # NoExecution
BY PatchesTyped DEF NoExecution

\* Between the generator and the verdict there is a patch: TypeOK alone is not
\* inductive, since it lets Execute run the patch that is not there.
TypeInv ==
  /\ TypeOK
  /\ pc \in {"generated", "checked", "executed"} => patch \in Patches
  /\ pc = "executed" => Executed

\* The initial state has the types.
LEMMA InitTyped == Init => TypeInv
BY DEF Init, TypeInv, TypeOK, Executed, NoGates, NoExecution, NoStatus

\* Every step keeps the types of test_engineering.py's records.
LEMMA NextTyped == TypeInv /\ [Next]_vars => TypeInv'
<1> SUFFICES ASSUME TypeInv, [Next]_vars PROVE TypeInv'
  OBVIOUS
<1> USE RequestsTyped DEF TypeInv, TypeOK, Executed
<1>0. /\ Number \in Nat /\ Len(traces) \in Nat
      /\ request.backend \in Backends /\ request.maxRepairs \in Nat
  BY DEF Number, RequestType
<1>1. CASE Decline
  BY <1>1 DEF Decline, Return, NoStatus
<1>2. CASE Generate
  <2>1. Trace(1, "generate", "completed") \in TraceType
    BY TraceTyped
  <2>2. traces' \in Seq(TraceType)
    <3>1. <<Trace(1, "generate", "completed")>> \in Seq(TraceType)
      BY <2>1, GrowByOne
    <3> QED
      BY <1>2, <3>1 DEF Generate
  <2> QED
    BY <1>2, <2>2 DEF Generate, Goto, Raise
<1>3. CASE Check
  <2>1. PICK v \in Forms :
          \/ /\ v = "ok"
             /\ gates' = PreflightGates(v)
             /\ traces' = IF Number > 0 THEN traces
                          ELSE traces \o <<Trace(2, "parse", "completed"),
                                           Trace(3, "compile", "completed")>>
             /\ Goto("checked")
          \/ /\ v \in {"parse", "compile", "assertion"}
             /\ gates' = PreflightGates(v)
             /\ traces' = Append(traces, Trace(IF Number = 0 THEN 2 ELSE 5 + Number,
                                               v, "rejected"))
             /\ Return("rejected", "INSUFFICIENT_EVIDENCE")
          \/ /\ v = "raises"
             /\ Raise("other")
             /\ UNCHANGED <<gates, traces>>
    BY <1>3 DEF Check
  <2>2. UNCHANGED <<request, patch, execution, repairs>> /\ pc = "generated"
    BY <1>3 DEF Check
  <2>3. gates' \in [Gates -> {"absent", "passed", "rejected"}]
    BY <2>1, PreflightGatesTyped
  <2>4. traces' \in Seq(TraceType)
    <3>1. (IF Number = 0 THEN 2 ELSE 5 + Number) \in Nat \ {0}
      BY <1>0
    <3>2. Trace(2, "parse", "completed") \in TraceType /\ Trace(3, "compile", "completed") \in TraceType
      BY TraceTyped
    <3>3. v \in {"parse", "compile", "assertion"} =>
            Trace(IF Number = 0 THEN 2 ELSE 5 + Number, v, "rejected") \in TraceType
      BY <3>1, TraceTyped
    <3>4. traces \o <<Trace(2, "parse", "completed"), Trace(3, "compile", "completed")>>
            \in Seq(TraceType)
      BY <3>2, GrowByTwo
    <3>5. v \in {"parse", "compile", "assertion"} =>
            Append(traces, Trace(IF Number = 0 THEN 2 ELSE 5 + Number, v, "rejected"))
              \in Seq(TraceType)
      BY <3>3, GrowByOne
    <3> QED
      BY <2>1, <3>4, <3>5
  <2> QED
    BY <2>1, <2>2, <2>3, <2>4 DEF Goto, Return, Raise, NoStatus
<1>4. CASE Execute
  <2>1. CASE Breaks
    BY <1>4, <2>1 DEF Execute, Breaks, Raise
  <2>2. CASE \E r \in ResultsOf(request.backend) : Runs(r)
    <3>1. PICK r \in ResultsOf(request.backend) : Runs(r)
      BY <2>2
    <3>2. r.passed \in BOOLEAN /\ r.reason \in ExecutionReasons
      BY <1>0, ResultsTyped
    <3>3. UNCHANGED <<request, patch, gates, repairs>> /\ pc = "checked"
      BY <1>4 DEF Execute
    <3>4. execution' \in [passed : BOOLEAN, reason : ExecutionReasons, of : Patches]
      BY <3>1, <3>2, <3>3 DEF Runs
    <3>5. traces' \in Seq(TraceType)
      <4>1. (IF Number = 0 THEN 4 ELSE 5 + Number) \in Nat \ {0}
        BY <1>0
      <4>2. Trace(IF Number = 0 THEN 4 ELSE 5 + Number, "execute",
                  IF r.passed THEN "completed" ELSE "failed") \in TraceType
        BY <4>1, TraceTyped
      <4> QED
        BY <3>1, <4>2, GrowByOne DEF Runs
    <3>6. execution' # NoExecution
      BY <3>1, <3>3, ResultIsExecution DEF Runs
    <3> QED
      BY <3>1, <3>3, <3>4, <3>5, <3>6 DEF Runs, Goto
  <2> QED
    BY <1>4, <2>1, <2>2 DEF Execute
<1>5. CASE RefuseUnsafe
  <2>1. Trace(4, "patch-safety", "rejected") \in TraceType
    BY TraceTyped
  <2>2. traces' \in Seq(TraceType)
    BY <1>5, <2>1, GrowByOne DEF RefuseUnsafe
  <2>3. gates' \in [Gates -> {"absent", "passed", "rejected"}]
    BY <1>5 DEF RefuseUnsafe
  <2> QED
    BY <1>5, <2>2, <2>3 DEF RefuseUnsafe, Return, Raise, NoStatus
<1>6. CASE Repair
  <2>1. /\ Trace(5 + Number, "analyze_failure", "completed") \in TraceType
        /\ Trace(5 + Number, "repair", "completed") \in TraceType
    <3>1. 5 + Number \in Nat \ {0}
      BY <1>0
    <3> QED
      BY <3>1, TraceTyped
  <2>2. repairs' \in Seq(AttemptType)
    BY <1>0, <1>6, AppendProperties DEF Repair, AttemptType
  <2>3. traces' \in Seq(TraceType)
    <3>1. /\ traces \o <<Trace(5 + Number, "analyze_failure", "completed"),
                         Trace(5 + Number, "repair", "completed")>> \in Seq(TraceType)
          /\ Append(traces, Trace(5 + Number, "analyze_failure", "completed")) \in Seq(TraceType)
      BY <2>1, GrowByOne, GrowByTwo
    <3> QED
      BY <1>6, <3>1 DEF Repair
  <2> QED
    BY <1>6, <2>2, <2>3 DEF Repair, Goto, Raise
<1>7. CASE GiveUp
  <2>1. execution.reason \in ExecutionReasons
    BY <1>7 DEF GiveUp
  <2> QED
    BY <1>7, <2>1 DEF GiveUp, Return, NoStatus
<1>8. CASE Review
  <2>1. Trace(Len(traces) + 1, "review", IF Findings(patch) THEN "rejected" ELSE "completed")
          \in TraceType
    <3>1. Len(traces) + 1 \in Nat \ {0}
      BY <1>0
    <3> QED
      BY <3>1, TraceTyped
  <2> QED
    BY <1>8, <2>1, GrowByOne DEF Review, Return, NoStatus
<1>9. CASE UNCHANGED vars
  BY <1>9 DEF vars
<1> QED
  BY <1>1, <1>2, <1>3, <1>4, <1>5, <1>6, <1>7, <1>8, <1>9 DEF Next

\* Whatever the generator, the backend and the number of repairs, a run's records
\* keep their types.
THEOREM CandidateTyped == SafetySpec => []TypeOK
<1>1. SafetySpec => []TypeInv
  BY InitTyped, NextTyped, PTL DEF SafetySpec
<1>2. TypeInv => TypeOK
  BY DEF TypeInv
<1> QED
  BY <1>1, <1>2, PTL

-----------------------------------------------------------------------------
(* Where a run is says what has been established about its patch.          *)

\* Before the generator nothing is there; a patch that is to be run or was run is
\* in order and its gates are those of preflight; a result just taken is of the
\* current patch.
ControlInv ==
  /\ pc = "start" => execution = NoExecution /\ repairs = <<>> /\ gates["execution"] = "absent"
  /\ pc \in {"generated", "checked", "executed"} => request.generator /\ request.evidence
  /\ pc = "generated" => gates["execution"] = "absent"
  /\ pc \in {"checked", "executed"} => InOrder(patch) /\ gates = PreflightGates("ok")
  /\ pc = "executed" => execution.of = patch

\* _preflight says nothing of the execution, and passes all when nothing is wrong.
LEMMA PreflightGatesSay ==
  /\ \A v \in Forms : /\ PreflightGates(v)["execution"] = "absent"
                      /\ PreflightGates(v)["patch-safety"] = "absent"
                      /\ v \in {"parse", "compile", "assertion"} =>
                           PreflightGates(v)[v] = "rejected"
  /\ \A g \in {"parse", "compile", "assertion", "reviewer"} : PreflightGates("ok")[g] = "passed"
BY DEF PreflightGates

\* The initial state is under control.
LEMMA InitControlled == Init => ControlInv
BY DEF Init, ControlInv, NoGates

\* ControlInv is kept by every step.
LEMMA NextControlled == TypeInv /\ ControlInv /\ [Next]_vars => ControlInv'
<1> SUFFICES ASSUME TypeInv, ControlInv, [Next]_vars PROVE ControlInv'
  OBVIOUS
<1> USE DEF ControlInv
<1>1. CASE Decline
  BY <1>1 DEF Decline, Return
<1>2. CASE Generate
  BY <1>2 DEF Generate, Goto, Raise
<1>3. CASE Check
  <2>1. PICK v \in Forms :
          /\ Preflight(patch, v)
          /\ \/ v = "ok" /\ gates' = PreflightGates(v) /\ Goto("checked")
             \/ gates' = PreflightGates(v) /\ Return("rejected", "INSUFFICIENT_EVIDENCE")
             \/ Raise("other")
    BY <1>3 DEF Check
  <2>2. v = "ok" => InOrder(patch)
    BY <2>1 DEF Preflight
  <2>3. UNCHANGED <<request, patch, execution, repairs>> /\ pc = "generated"
    BY <1>3 DEF Check
  <2>4. InOrder(patch) => InOrder(patch')
    BY <2>3
  <2> QED
    BY <2>1, <2>2, <2>3, <2>4 DEF Goto, Return, Raise
<1>4. CASE Execute
  <2>1. UNCHANGED <<request, patch, gates, repairs>> /\ pc = "checked"
    BY <1>4 DEF Execute
  <2>2. pc' = "raised" \/ (pc' = "executed" /\ execution'.of = patch)
    BY <1>4 DEF Execute, Breaks, Runs, Goto, Raise
  <2>3. InOrder(patch')
    BY <2>1
  <2> QED
    BY <2>1, <2>2, <2>3
<1>5. CASE RefuseUnsafe
  BY <1>5 DEF RefuseUnsafe, Return, Raise
<1>6. CASE Repair
  BY <1>6, PreflightGatesSay DEF Repair, Goto, Raise
<1>7. CASE GiveUp
  BY <1>7 DEF GiveUp, Return
<1>8. CASE Review
  BY <1>8 DEF Review, Return
<1>9. CASE UNCHANGED vars
  <2>1. InOrder(patch) => InOrder(patch')
    BY <1>9 DEF vars
  <2> QED
    BY <1>9, <2>1 DEF vars
<1> QED
  BY <1>1, <1>2, <1>3, <1>4, <1>5, <1>6, <1>7, <1>8, <1>9 DEF Next

\* Types and control together hold in every reachable state.
LEMMA Controlled == SafetySpec => [](TypeInv /\ ControlInv)
BY InitTyped, NextTyped, InitControlled, NextControlled, PTL DEF SafetySpec

-----------------------------------------------------------------------------
(* What was run.                                                           *)

\* Only Execute takes a result, of a patch in order and, in this repository's
\* runners, safe; every other step keeps it or has none.
LEMMA NextVetted ==
  TypeInv /\ ControlInv /\ ExecutionIsVetted /\ [Next]_vars => ExecutionIsVetted'
<1> SUFFICES ASSUME TypeInv, ControlInv, ExecutionIsVetted, [Next]_vars
             PROVE  ExecutionIsVetted'
  OBVIOUS
<1>0. ASSUME execution' = execution, request' = request, Executed'
      PROVE  /\ Executed
             /\ InOrder(execution'.of)
             /\ request'.backend # "injected" => Safe(execution'.of)
  <2>1. Executed
    BY <1>0 DEF Executed, NoExecution
  <2>2. InOrder(execution.of) /\ (request.backend # "injected" => Safe(execution.of))
    BY <2>1 DEF ExecutionIsVetted
  <2> QED
    BY <1>0, <2>1, <2>2
<1>1. CASE Decline
  <2>1. ~ Executed'
    BY <1>1 DEF Decline, Executed, ControlInv, NoExecution
  <2> QED
    BY <2>1 DEF ExecutionIsVetted
<1>2. CASE Generate
  <2>1. ~ Executed'
    BY <1>2 DEF Generate, Executed, ControlInv, NoExecution
  <2> QED
    BY <2>1 DEF ExecutionIsVetted
<1>3. CASE Check
  <2>1. execution' = execution /\ request' = request
    BY <1>3 DEF Check
  <2>2. pc' # "executed" /\ gates'["execution"] = "absent"
    BY <1>3, PreflightGatesSay DEF Check, ControlInv, Goto, Return, Raise
  <2> QED
    BY <1>0, <2>1, <2>2 DEF ExecutionIsVetted
<1>4. CASE Execute
  <2>1. request' = request /\ patch' = patch /\ gates' = gates /\ pc = "checked"
    BY <1>4 DEF Execute
  <2>2. CASE Breaks
    <3>1. execution' = execution /\ pc' = "raised" /\ gates'["execution"] = "absent"
      BY <2>1, <2>2, PreflightGatesSay DEF Breaks, Raise, ControlInv
    <3> QED
      BY <1>0, <2>1, <3>1 DEF ExecutionIsVetted
  <2>3. CASE \E r \in ResultsOf(request.backend) : Runs(r)
    <3>1. execution'.of = patch /\ (request.backend # "injected" => Safe(patch))
      BY <2>3 DEF Runs
    <3>2. InOrder(patch)
      BY <2>1 DEF ControlInv
    <3>3. InOrder(execution'.of) /\ (request'.backend # "injected" => Safe(execution'.of))
      BY <2>1, <3>1, <3>2
    <3> QED
      BY <2>1, <3>1, <3>3 DEF ExecutionIsVetted
  <2> QED
    BY <1>4, <2>2, <2>3 DEF Execute
<1>5. CASE RefuseUnsafe
  <2>1. execution' = execution /\ request' = request
    BY <1>5 DEF RefuseUnsafe
  <2>2. pc' # "executed" /\ gates'["execution"] = "absent"
    BY <1>5, PreflightGatesSay DEF RefuseUnsafe, ControlInv, Return, Raise, TypeInv, TypeOK
  <2> QED
    BY <1>0, <2>1, <2>2 DEF ExecutionIsVetted
<1>6. CASE Repair
  <2>1. execution' = execution /\ request' = request
    BY <1>6 DEF Repair
  <2>2. pc' # "executed" /\ gates'["execution"] = "absent"
    BY <1>6, PreflightGatesSay DEF Repair, ControlInv, Goto, Raise
  <2> QED
    BY <1>0, <2>1, <2>2 DEF ExecutionIsVetted
<1>7. CASE GiveUp \/ Review
  <2>1. execution' = execution /\ request' = request /\ patch' = patch /\ pc = "executed"
    BY <1>7 DEF GiveUp, Review
  <2>2. execution'.of = patch'
    BY <2>1 DEF ControlInv
  <2> QED
    BY <1>0, <2>1, <2>2 DEF ExecutionIsVetted
<1>8. CASE UNCHANGED vars
  <2>1. UNCHANGED <<execution, request, patch, pc, gates>>
    BY <1>8 DEF vars
  <2> QED
    BY <1>0, <2>1 DEF ExecutionIsVetted, Executed
<1> QED
  BY <1>1, <1>2, <1>3, <1>4, <1>5, <1>6, <1>7, <1>8 DEF Next

\* Whatever a generator proposes and a backend answers, only patches that passed
\* preflight are run, and this repository's runners run none outside the test roots.
THEOREM OnlyVettedRuns == SafetySpec => []ExecutionIsVetted
<1>1. Init => ExecutionIsVetted
  BY DEF Init, ExecutionIsVetted, Executed
<1> QED
  BY <1>1, NextVetted, Controlled, PTL DEF SafetySpec

-----------------------------------------------------------------------------
(* What is repaired.                                                       *)

\* Repairs grow by one entry, in Repair, while fewer than max_repairs are there.
LEMMA NextBounded ==
  TypeInv /\ ControlInv /\ ExecutionIsVetted /\ RepairsBounded /\ [Next]_vars
    => RepairsBounded'
<1> SUFFICES ASSUME TypeInv, ControlInv, ExecutionIsVetted, RepairsBounded, [Next]_vars
             PROVE  RepairsBounded'
  OBVIOUS
<1>0. request' = request
  BY DEF Next, vars, Decline, Generate, Check, Execute, RefuseUnsafe, Repair, GiveUp, Review
<1>1. CASE repairs' = repairs
  <2>1. Len(repairs') <= request'.maxRepairs
    BY <1>0, <1>1 DEF RepairsBounded
  <2>2. ASSUME NEW i \in DOMAIN repairs'
        PROVE  /\ repairs'[i].number = i
               /\ InOrder(repairs'[i].patch)
               /\ request'.backend # "injected" => Safe(repairs'[i].patch)
    BY <1>0, <1>1 DEF RepairsBounded
  <2> QED
    BY <2>1, <2>2 DEF RepairsBounded
<1>2. CASE Repair
  <2> DEFINE attempt == [number |-> Number + 1, patch |-> patch]
  <2>1. /\ repairs' = Append(repairs, attempt) /\ repairs \in Seq(AttemptType)
        /\ Number < request.maxRepairs /\ Number \in Nat /\ request.maxRepairs \in Nat
    BY <1>2, RequestsTyped DEF Repair, Repairable, TypeInv, TypeOK, Number, RequestType
  <2>2. patch \in Patches /\ attempt \in AttemptType
    BY <1>2, <2>1 DEF Repair, TypeInv, AttemptType
  <2>3. /\ Len(repairs') = Number + 1
        /\ \A i \in 1 .. Number : repairs'[i] = repairs[i]
        /\ repairs'[Number + 1] = attempt
    BY <2>1, <2>2, AppendProperties DEF Number
  <2>4. InOrder(patch) /\ (request.backend # "injected" => Safe(patch))
    <3>1. Executed /\ execution.of = patch
      BY <1>2 DEF Repair, ControlInv, TypeInv
    <3>2. InOrder(execution.of) /\ (request.backend # "injected" => Safe(execution.of))
      BY <3>1 DEF ExecutionIsVetted
    <3> QED
      BY <3>1, <3>2
  <2>5. ASSUME NEW i \in DOMAIN repairs'
        PROVE  /\ repairs'[i].number = i
               /\ InOrder(repairs'[i].patch)
               /\ request'.backend # "injected" => Safe(repairs'[i].patch)
    <3>1. i \in 1 .. Number \/ i = Number + 1
      BY <2>1, <2>2, <2>3, AppendProperties
    <3>2. CASE i \in 1 .. Number
      <4>1. i \in DOMAIN repairs /\ repairs'[i] = repairs[i]
        BY <2>1, <2>3, <3>2 DEF Number
      <4> QED
        BY <1>0, <4>1 DEF RepairsBounded
    <3>3. CASE i = Number + 1
      <4>1. repairs'[i].number = i /\ repairs'[i].patch = patch
        BY <2>3, <3>3
      <4> QED
        BY <1>0, <2>4, <4>1
    <3> QED
      BY <3>1, <3>2, <3>3
  <2> QED
    BY <1>0, <2>1, <2>3, <2>5 DEF RepairsBounded
<1> QED
  BY <1>1, <1>2
  DEF Next, vars, Decline, Generate, Check, Execute, RefuseUnsafe, GiveUp, Review

\* No run gives up more than max_repairs patches, for any max_repairs.
THEOREM RepairsAreBounded == SafetySpec => []RepairsBounded
<1>1. Init => RepairsBounded
  BY RequestsTyped DEF Init, RepairsBounded, RequestType
<1> QED
  BY <1>1, NextBounded, Controlled, OnlyVettedRuns, PTL DEF SafetySpec

\* Only a patch whose tests ran and failed is repaired.
THEOREM RepairsFollowFailures == SafetySpec => RepairsAreEarned
<1>1. ASSUME TypeInv, ControlInv, [Next]_vars, repairs' # repairs
      PROVE  /\ Executed /\ execution.of = patch
             /\ ~ execution.passed /\ execution.reason = "EVIDENCE_SUFFICIENT"
             /\ repairs' = Append(repairs, [number |-> Len(repairs) + 1, patch |-> patch])
  <2>1. Repair
    BY <1>1 DEF Next, vars, Decline, Generate, Check, Execute, RefuseUnsafe, GiveUp, Review
  <2> QED
    BY <1>1, <2>1 DEF Repair, Repairable, Number, ControlInv, TypeInv
<1>2. TypeInv /\ ControlInv /\ [Next]_vars =>
        [repairs' # repairs =>
           /\ Executed /\ execution.of = patch
           /\ ~ execution.passed /\ execution.reason = "EVIDENCE_SUFFICIENT"
           /\ repairs' = Append(repairs, [number |-> Len(repairs) + 1, patch |-> patch])]_vars
  BY <1>1
<1> QED
  BY <1>2, Controlled, PTL DEF SafetySpec, RepairsAreEarned

-----------------------------------------------------------------------------
(* What the verdict says.                                                  *)

\* The three actions that return a status, and what the others leave alone.
LEMMA NextReturns ==
  TypeInv /\ [Next]_vars =>
    \/ Decline \/ Check \/ RefuseUnsafe \/ GiveUp \/ Review
    \/ status' = NoStatus /\ pc' # "returned"
    \/ UNCHANGED vars
<1> SUFFICES ASSUME TypeInv, [Next]_vars
             PROVE  \/ Decline \/ Check \/ RefuseUnsafe \/ GiveUp \/ Review
                    \/ status' = NoStatus /\ pc' # "returned"
                    \/ UNCHANGED vars
  OBVIOUS
<1>1. pc # "returned" => status = NoStatus
  BY DEF TypeInv, TypeOK
<1>2. Generate \/ Execute \/ Repair => pc # "returned" /\ status' = status /\ pc' # "returned"
  BY DEF Generate, Execute, Repair, Runs, Breaks, Goto, Raise
<1> QED
  BY <1>1, <1>2 DEF Next

\* Only Review accepts, and it looks at the current patch.
LEMMA NextAccepted ==
  TypeInv /\ ControlInv /\ ExecutionIsVetted /\ AcceptedIsChecked /\ [Next]_vars
    => AcceptedIsChecked'
<1> SUFFICES ASSUME TypeInv, ControlInv, ExecutionIsVetted, AcceptedIsChecked, [Next]_vars
             PROVE  AcceptedIsChecked'
  OBVIOUS
<1>1. CASE Decline \/ RefuseUnsafe \/ GiveUp \/ Check
  <2>1. status'.decision # "accepted"
    <3>1. pc # "returned" /\ status = NoStatus
      BY <1>1 DEF TypeInv, TypeOK, Decline, RefuseUnsafe, GiveUp, Check
    <3> QED
      BY <1>1, <3>1
      DEF Decline, RefuseUnsafe, GiveUp, Check, Return, Raise, Goto, NoStatus
  <2> QED
    BY <2>1 DEF AcceptedIsChecked
<1>2. CASE status' = NoStatus
  BY <1>2 DEF AcceptedIsChecked, NoStatus
<1>3. CASE Review
  <2>1. UNCHANGED <<request, patch, execution, repairs>> /\ pc = "executed" /\ execution.passed
    BY <1>3 DEF Review
  <2>2. CASE Findings(patch)
    <3>1. status'.decision = "rejected"
      BY <1>3, <2>2 DEF Review, Return
    <3> QED
      BY <3>1 DEF AcceptedIsChecked
  <2>3. CASE ~ Findings(patch)
    <3>1. InOrder(patch) /\ execution.of = patch /\ request.generator /\ request.evidence
      BY <2>1 DEF ControlInv
    <3>2. request.backend # "injected" => Safe(patch)
      <4>1. request.backend # "injected" => Safe(execution.of)
        BY <2>1 DEF ExecutionIsVetted, TypeInv
      <4> QED
        BY <3>1, <4>1
    <3>3. gates' = [gates EXCEPT !["execution"] = "passed", !["assertion"] = "passed",
                                 !["reviewer"] = "passed"]
      BY <1>3, <2>3 DEF Review
    <3>4. gates = PreflightGates("ok")
      BY <2>1 DEF ControlInv
    <3>5. /\ \A g \in Gates \ {"patch-safety"} : gates'[g] = "passed"
          /\ gates'["patch-safety"] = "absent"
      BY <3>3, <3>4, PreflightGatesSay, PreflightGatesTyped
    <3>6. InOrder(patch') /\ ~ Findings(patch') /\ (request'.backend # "injected" => Safe(patch'))
      BY <2>1, <2>3, <3>1, <3>2
    <3> QED
      BY <2>1, <3>1, <3>5, <3>6 DEF AcceptedIsChecked
  <2> QED
    BY <2>2, <2>3
<1>4. CASE UNCHANGED vars
  <2>1. /\ InOrder(patch) => InOrder(patch')
        /\ Safe(patch) => Safe(patch')
        /\ ~ Findings(patch) => ~ Findings(patch')
    BY <1>4 DEF vars
  <2> QED
    BY <1>4, <2>1 DEF AcceptedIsChecked, vars
<1> QED
  BY <1>1, <1>2, <1>3, <1>4, NextReturns

\* An accepted candidate passed every gate itself: no earlier patch's result, gate
\* or path check stands in for its own.
THEOREM AcceptedMeansChecked == SafetySpec => []AcceptedIsChecked
<1>1. Init => AcceptedIsChecked
  BY DEF Init, AcceptedIsChecked, NoStatus
<1> QED
  BY <1>1, NextAccepted, Controlled, OnlyVettedRuns, PTL DEF SafetySpec

\* The reason that a status gives is the one that the state shows.
LEMMA NextReason ==
  TypeInv /\ ControlInv /\ RepairsBounded /\ ReasonIsTrue /\ [Next]_vars => ReasonIsTrue'
<1> SUFFICES ASSUME TypeInv, ControlInv, RepairsBounded, ReasonIsTrue, [Next]_vars
             PROVE  ReasonIsTrue'
  OBVIOUS
<1>1. CASE Decline
  BY <1>1 DEF Decline, Return, ReasonIsTrue, ControlInv
<1>2. CASE Check
  <2>1. PICK v \in Forms :
          \/ /\ v \in {"parse", "compile", "assertion"}
             /\ gates' = PreflightGates(v) /\ Return("rejected", "INSUFFICIENT_EVIDENCE")
          \/ Raise("other") \/ Goto("checked")
    BY <1>2 DEF Check
  <2> QED
    BY <2>1, PreflightGatesSay DEF Raise, Goto, Return, ReasonIsTrue
<1>3. CASE RefuseUnsafe
  <2>1. pc' = "raised" \/ (Return("rejected", "INSUFFICIENT_EVIDENCE")
                             /\ gates' = [gates EXCEPT !["patch-safety"] = "rejected"])
    BY <1>3 DEF RefuseUnsafe, Raise
  <2>2. gates = PreflightGates("ok")
    BY <1>3 DEF RefuseUnsafe, ControlInv
  <2>3. gates' = [gates EXCEPT !["patch-safety"] = "rejected"] =>
          gates'["execution"] = "absent" /\ gates'["patch-safety"] = "rejected"
    BY <2>2, PreflightGatesSay, PreflightGatesTyped
  <2> QED
    BY <2>1, <2>3 DEF Return, ReasonIsTrue
<1>4. CASE GiveUp
  <2>1. /\ UNCHANGED <<request, patch, execution, repairs>>
        /\ pc = "executed" /\ ~ execution.passed /\ ~ Repairable
        /\ gates' = [gates EXCEPT !["execution"] = "rejected"]
    BY <1>4 DEF GiveUp
  <2>2. gates'["execution"] = "rejected" /\ execution.of = patch
    BY <2>1 DEF ControlInv, TypeInv, TypeOK
  <2>3. execution.reason = "EVIDENCE_SUFFICIENT" => Len(repairs) = request.maxRepairs
    BY <2>1, RequestsTyped
    DEF Repairable, Number, RepairsBounded, TypeInv, TypeOK, RequestType
  <2>4. execution.reason \in ExecutionReasons
    BY <2>1 DEF TypeInv, TypeOK, Executed
  <2>5. CASE Exhausted
    BY <1>4, <2>1, <2>2, <2>3, <2>5 DEF GiveUp, Return, Exhausted, Number, ReasonIsTrue
  <2>6. CASE ~ Exhausted
    BY <1>4, <2>1, <2>2, <2>3, <2>4, <2>6 DEF GiveUp, Return, ReasonIsTrue
  <2> QED
    BY <2>5, <2>6
<1>5. CASE Review
  <2>1. gates' = [gates EXCEPT !["execution"] = "passed", !["assertion"] = "passed",
                    !["reviewer"] = IF Findings(patch) THEN "rejected" ELSE "passed"]
    BY <1>5 DEF Review
  <2>2. gates'["execution"] = "passed" /\ (Findings(patch) => gates'["reviewer"] = "rejected")
    BY <2>1 DEF TypeInv, TypeOK
  <2> QED
    BY <1>5, <2>2 DEF Review, Return, ReasonIsTrue
<1>6. CASE pc' # "returned"
  BY <1>6 DEF ReasonIsTrue
<1>7. CASE UNCHANGED vars
  BY <1>7 DEF vars, ReasonIsTrue
<1> QED
  BY <1>1, <1>2, <1>3, <1>4, <1>5, <1>6, <1>7, NextReturns

\* BUDGET_EXHAUSTED and TIMEOUT are never reported of a candidate that another
\* patch's run, or a repair that was left, would contradict.
THEOREM CandidateReasonsAreTrue == SafetySpec => []ReasonIsTrue
<1>1. Init => ReasonIsTrue
  BY DEF Init, ReasonIsTrue
<1> QED
  BY <1>1, NextReason, Controlled, RepairsAreBounded, PTL DEF SafetySpec

-----------------------------------------------------------------------------
(***************************************************************************)
(* What the trace tells.                                                   *)
(***************************************************************************)

\* How often an action is in a trace, and that its iterations never fall.
CountIn(s, action) == Cardinality({i \in DOMAIN s : s[i].action = action})

Ordered(s) == \A i \in 1 .. Len(s) - 1 : s[i].iteration <= s[i + 1].iteration

\* The trace has n entries, the last of iteration k.
EndsAt(s, n, k) == Len(s) = n /\ s[Len(s)].iteration = k

\* The patches that were run, the repairs and the reviews.
Tells(s, runs, failures, again, reviews) ==
  /\ CountIn(s, "execute") = runs /\ CountIn(s, "analyze_failure") = failures
  /\ CountIn(s, "repair") = again /\ CountIn(s, "review") = reviews

\* Every round of the repair loop adds three entries, and its iteration is that of
\* the repair: this is what keeps the number of the review, which counts the
\* entries, from falling behind.
Rounds ==
  /\ pc = "start" => traces = <<>> /\ repairs = <<>>
  /\ pc = "generated" =>
       /\ Tells(traces, Number, Number, Number, 0)
       /\ IF Number = 0 THEN EndsAt(traces, 1, 1) ELSE EndsAt(traces, 3 + 3 * Number, 4 + Number)
  /\ pc = "checked" =>
       /\ Tells(traces, Number, Number, Number, 0)
       /\ EndsAt(traces, 3 + 3 * Number, IF Number = 0 THEN 3 ELSE 4 + Number)
  /\ pc = "executed" =>
       /\ Tells(traces, Number + 1, Number, Number, 0)
       /\ EndsAt(traces, 4 + 3 * Number, IF Number = 0 THEN 4 ELSE 5 + Number)

\* What an entry adds to a trace.
LEMMA EntryAdded ==
  ASSUME NEW s \in Seq(TraceType), NEW t \in TraceType
  PROVE  /\ Append(s, t) \in Seq(TraceType)
         /\ EndsAt(Append(s, t), Len(s) + 1, t.iteration) /\ Len(s) \in Nat
         /\ Append(s, t)[Len(Append(s, t))] = t
         /\ Ordered(s) /\ (Len(s) > 0 => s[Len(s)].iteration <= t.iteration)
              => Ordered(Append(s, t))
         /\ \A a : /\ CountIn(s, a) \in Nat
                   /\ CountIn(Append(s, t), a) =
                        IF t.action = a THEN CountIn(s, a) + 1 ELSE CountIn(s, a)
<1>1. PICK n \in Nat : n = Len(s)
  OBVIOUS
<1> DEFINE u == Append(s, t)
<1>2. /\ u \in Seq(TraceType) /\ Len(u) = n + 1 /\ u[n + 1] = t
      /\ DOMAIN s = 1 .. n /\ DOMAIN u = 1 .. n + 1
      /\ \A i \in 1 .. n : u[i] = s[i]
  BY <1>1
<1> HIDE DEF u
<1>3. ASSUME Ordered(s), n > 0 => s[n].iteration <= t.iteration PROVE Ordered(u)
  <2> SUFFICES ASSUME NEW i \in 1 .. n PROVE u[i].iteration <= u[i + 1].iteration
    BY <1>2 DEF Ordered
  <2>1. CASE i = n
    BY <1>2, <1>3, <2>1
  <2>2. CASE i # n
    <3>1. i \in 1 .. n - 1 /\ i + 1 \in 1 .. n
      BY <2>2
    <3> QED
      BY <1>1, <1>2, <1>3, <3>1 DEF Ordered
  <2> QED
    BY <2>1, <2>2
<1>4. ASSUME NEW a
      PROVE  /\ CountIn(s, a) \in Nat
             /\ CountIn(u, a) = IF t.action = a THEN CountIn(s, a) + 1 ELSE CountIn(s, a)
  <2> DEFINE S == {i \in 1 .. n : s[i].action = a}
             U == {i \in 1 .. n + 1 : u[i].action = a}
  <2>1. IsFiniteSet(S) /\ Cardinality(S) \in Nat
    <3>1. IsFiniteSet(1 .. n)
      BY FS_Interval
    <3>2. S \subseteq 1 .. n
      OBVIOUS
    <3>3. IsFiniteSet(S)
      BY <3>1, <3>2, FS_Subset
    <3> QED
      BY <3>3, FS_CardinalityType
  <2>2. CountIn(s, a) = Cardinality(S) /\ CountIn(u, a) = Cardinality(U)
    BY <1>2 DEF CountIn
  <2>3. \A i \in 1 .. n + 1 : i \in 1 .. n \/ i = n + 1
    OBVIOUS
  <2>4. 1 .. n \subseteq 1 .. n + 1 /\ n + 1 \in 1 .. n + 1 /\ n + 1 \notin 1 .. n
    OBVIOUS
  <2>5. CASE t.action = a
    <3>1. U = S \union {n + 1} /\ n + 1 \notin S
      BY <1>2, <2>3, <2>4, <2>5
    <3>2. Cardinality(U) = Cardinality(S) + 1
      BY <2>1, <3>1, FS_AddElement
    <3> QED
      BY <2>1, <2>2, <2>5, <3>2
  <2>6. CASE t.action # a
    <3>1. U = S
      BY <1>2, <2>3, <2>4, <2>6
    <3> QED
      BY <2>1, <2>2, <2>6, <3>1
  <2> QED
    BY <2>5, <2>6
<1>5. EndsAt(u, n + 1, t.iteration)
  BY <1>2 DEF EndsAt
<1> QED
  BY <1>1, <1>2, <1>3, <1>4, <1>5 DEF u

\* The empty trace and that of the generator.
LEMMA FirstEntry ==
  ASSUME NEW t \in TraceType, t.action = "generate", t.iteration = 1
  PROVE  /\ Ordered(<<t>>) /\ Tells(<<t>>, 0, 0, 0, 0) /\ EndsAt(<<t>>, 1, 1)
         /\ Ordered(<<>>) /\ Tells(<<>>, 0, 0, 0, 0)
<1>1. \A a : CountIn(<<>>, a) = 0
  <2>1. \A a : {i \in DOMAIN <<>> : <<>>[i].action = a} = {}
    OBVIOUS
  <2> QED
    BY <2>1, FS_EmptySet DEF CountIn
<1>2. Ordered(<<>>) /\ <<>> \in Seq(TraceType) /\ Len(<<>>) = 0 /\ Append(<<>>, t) = <<t>>
  BY DEF Ordered
<1>3. /\ Ordered(<<t>>) /\ EndsAt(<<t>>, 1, 1)
      /\ \A a : CountIn(<<t>>, a) = IF t.action = a THEN CountIn(<<>>, a) + 1 ELSE CountIn(<<>>, a)
  <2>1. PICK s \in Seq(TraceType) : s = <<>>
    BY <1>2
  <2>2. Ordered(s) /\ Len(s) = 0 /\ Append(s, t) = <<t>>
    BY <1>2, <2>1
  <2>3. EndsAt(Append(s, t), Len(s) + 1, t.iteration) /\ Ordered(Append(s, t))
    <3>1. ~ (Len(s) > 0)
      BY <2>2
    <3> QED
      BY <2>2, <3>1, EntryAdded
  <2>4. \A a : CountIn(Append(s, t), a) = IF t.action = a THEN CountIn(s, a) + 1 ELSE CountIn(s, a)
    BY EntryAdded
  <2> QED
    BY <2>1, <2>2, <2>3, <2>4
<1> QED
  BY <1>1, <1>2, <1>3 DEF Tells

\* An entry that tells of no run, repair or review.
LEMMA OtherEntry ==
  ASSUME NEW s \in Seq(TraceType), NEW t \in TraceType,
         t.action \in {"generate", "parse", "compile", "assertion", "patch-safety"},
         NEW r, NEW f, NEW g, NEW v, Tells(s, r, f, g, v)
  PROVE  Tells(Append(s, t), r, f, g, v)
BY EntryAdded DEF Tells

\* The entry of a run, of a failure and its repair, and of the review.
LEMMA TellingEntry ==
  ASSUME NEW s \in Seq(TraceType), NEW t \in TraceType,
         NEW r, NEW f, NEW g, NEW v, Tells(s, r, f, g, v)
  PROVE  /\ t.action = "execute"         => Tells(Append(s, t), r + 1, f, g, v)
         /\ t.action = "analyze_failure" => Tells(Append(s, t), r, f + 1, g, v)
         /\ t.action = "repair"          => Tells(Append(s, t), r, f, g + 1, v)
         /\ t.action = "review"          => Tells(Append(s, t), r, f, g, v + 1)
BY EntryAdded DEF Tells

\* What an entry's fields are.
LEMMA TraceFields ==
  ASSUME NEW i, NEW a, NEW s
  PROVE  Trace(i, a, s).iteration = i /\ Trace(i, a, s).action = a
BY DEF Trace

\* The property in the terms of these lemmas.
TellsAll ==
  /\ Ordered(traces)
  /\ CountIn(traces, "analyze_failure") = Number
  /\ CountIn(traces, "execute") \in {Number, Number + 1}
  /\ status.decision = "accepted" =>
       /\ Tells(traces, Number + 1, Number, Number, 1)
       /\ traces[Len(traces)].action = "review"

\* It says no less.
LEMMA TellsAllSays == TellsAll => TraceTellsTheRun
BY DEF TellsAll, TraceTellsTheRun, Ordered, CountIn, Count, Tells, Number

\* At the start there is nothing to tell.
LEMMA InitTells == Init => TellsAll /\ Rounds
<1> SUFFICES ASSUME Init PROVE TellsAll /\ Rounds
  OBVIOUS
<1>1. Ordered(<<>>) /\ Tells(<<>>, 0, 0, 0, 0)
  <2>1. PICK t \in TraceType : t = Trace(1, "generate", "completed")
    BY TraceTyped
  <2>2. t.action = "generate" /\ t.iteration = 1
    BY <2>1, TraceFields
  <2> QED
    BY <2>2, FirstEntry
<1>2. traces = <<>> /\ Number = 0 /\ status = NoStatus /\ pc = "start" /\ repairs = <<>>
  BY DEF Init, Number
<1> QED
  BY <1>1, <1>2 DEF TellsAll, Rounds, Tells, NoStatus

\* Every step adds to the trace what it does, and nothing else.
LEMMA NextTells == TypeInv /\ TellsAll /\ Rounds /\ [Next]_vars => TellsAll' /\ Rounds'
<1> SUFFICES ASSUME TypeInv, TellsAll, Rounds, [Next]_vars PROVE TellsAll' /\ Rounds'
  OBVIOUS
<1> DEFINE n == Number
<1>0. /\ TypeOK /\ n \in Nat /\ traces \in Seq(TraceType) /\ Ordered(traces)
      /\ pc # "returned" => status = NoStatus
      /\ NoStatus.decision # "accepted"
      /\ UNCHANGED repairs => Number' = n
  BY DEF TypeInv, TypeOK, TellsAll, NoStatus, Number
<1> HIDE DEF n
<1>1. ASSUME Ordered(traces'), NEW r \in {Number', Number' + 1}, NEW g, NEW v,
             Tells(traces', r, Number', g, v), status'.decision # "accepted"
      PROVE  TellsAll'
  BY <1>1 DEF TellsAll, Tells
<1>2. ASSUME UNCHANGED <<traces, repairs>>, status'.decision # "accepted"
      PROVE  TellsAll'
  BY <1>0, <1>2 DEF TellsAll, n
<1>3. CASE Decline
  <2>1. /\ UNCHANGED <<traces, repairs>> /\ status'.decision # "accepted" /\ pc' = "returned"
    BY <1>3 DEF Decline, Return
  <2> QED
    BY <1>2, <2>1 DEF Rounds
<1>4. CASE Generate
  <2>1. CASE Raise("other") /\ UNCHANGED <<patch, traces>>
    <3>1. UNCHANGED <<traces, repairs>> /\ status'.decision # "accepted" /\ pc' = "raised"
      BY <1>0, <1>4, <2>1 DEF Generate, Raise
    <3> QED
      BY <1>2, <3>1 DEF Rounds
  <2>2. CASE traces' = <<Trace(1, "generate", "completed")>> /\ Goto("generated")
    <3>1. PICK t \in TraceType : t = Trace(1, "generate", "completed")
      BY TraceTyped
    <3>2. t.action = "generate" /\ t.iteration = 1
      BY <3>1, TraceFields
    <3>3. Ordered(<<t>>) /\ Tells(<<t>>, 0, 0, 0, 0) /\ EndsAt(<<t>>, 1, 1)
      BY <3>2, FirstEntry
    <3>4. Number' = 0 /\ pc' = "generated" /\ status' = NoStatus /\ traces' = <<t>>
      BY <1>0, <1>4, <2>2, <3>1 DEF Generate, Goto, Rounds, Number
    <3>5. TellsAll'
      BY <1>0, <1>1, <3>3, <3>4
    <3>6. Rounds'
      BY <3>3, <3>4 DEF Rounds
    <3> QED
      BY <3>5, <3>6
  <2> QED
    BY <1>4, <2>1, <2>2 DEF Generate
<1>5. CASE Check
  <2>1. /\ pc = "generated" /\ UNCHANGED repairs /\ Number' = n /\ status = NoStatus
        /\ Tells(traces, n, n, n, 0)
        /\ n = 0 => EndsAt(traces, 1, 1)
        /\ n > 0 => EndsAt(traces, 3 + 3 * n, 4 + n)
    BY <1>0, <1>5 DEF Check, Rounds, n
  <2>2. CASE \E v \in {"parse", "compile", "assertion"} :
               /\ traces' = Append(traces, Trace(IF Number = 0 THEN 2 ELSE 5 + Number, v, "rejected"))
               /\ Return("rejected", "INSUFFICIENT_EVIDENCE")
    <3>1. PICK v \in {"parse", "compile", "assertion"} :
            /\ traces' = Append(traces, Trace(IF n = 0 THEN 2 ELSE 5 + n, v, "rejected"))
            /\ Return("rejected", "INSUFFICIENT_EVIDENCE")
      BY <2>2 DEF n
    <3>2. (IF n = 0 THEN 2 ELSE 5 + n) \in Nat \ {0}
      BY <1>0
    <3>3. PICK t \in TraceType : t = Trace(IF n = 0 THEN 2 ELSE 5 + n, v, "rejected")
      BY <3>2, TraceTyped
    <3>4. t.iteration = (IF n = 0 THEN 2 ELSE 5 + n) /\ t.action = v
      BY <3>3, TraceFields
    <3>5. traces' = Append(traces, t)
      BY <3>1, <3>3
    <3>6. Tells(traces', n, n, n, 0)
      BY <1>0, <2>1, <3>4, <3>5, OtherEntry
    <3>7. Len(traces) > 0 => traces[Len(traces)].iteration <= t.iteration
      BY <1>0, <2>1, <3>4 DEF EndsAt
    <3>8. Ordered(traces')
      BY <1>0, <3>5, <3>7, EntryAdded
    <3>9. status'.decision # "accepted" /\ pc' = "returned"
      BY <3>1 DEF Return
    <3> QED
      BY <1>0, <1>1, <2>1, <3>6, <3>8, <3>9 DEF Rounds
  <2>3. CASE Raise("other") /\ UNCHANGED traces
    <3>1. status'.decision # "accepted" /\ pc' = "raised"
      BY <1>0, <2>1, <2>3 DEF Raise
    <3> QED
      BY <1>2, <2>1, <2>3, <3>1 DEF Rounds
  <2>4. CASE n > 0 /\ UNCHANGED traces /\ Goto("checked")
    <3>1. status'.decision # "accepted" /\ pc' = "checked"
      BY <1>0, <2>1, <2>4 DEF Goto
    <3>2. Rounds'
      BY <2>1, <2>4, <3>1 DEF Rounds
    <3> QED
      BY <1>2, <2>1, <2>4, <3>1, <3>2
  <2>5. CASE n = 0 /\ Goto("checked")
             /\ traces' = traces \o <<Trace(2, "parse", "completed"), Trace(3, "compile", "completed")>>
    <3>1. PICK t \in TraceType, u \in TraceType :
            t = Trace(2, "parse", "completed") /\ u = Trace(3, "compile", "completed")
      BY TraceTyped
    <3>2. t.iteration = 2 /\ t.action = "parse" /\ u.iteration = 3 /\ u.action = "compile"
      BY <3>1, TraceFields
    <3>3. traces' = Append(Append(traces, t), u) /\ Append(traces, t) \in Seq(TraceType)
      BY <1>0, <2>5, <3>1
    <3>4. Tells(Append(traces, t), 0, 0, 0, 0)
      BY <1>0, <2>1, <2>5, <3>2, OtherEntry
    <3>5. Tells(traces', 0, 0, 0, 0)
      BY <3>2, <3>3, <3>4, OtherEntry
    <3>6. Len(traces) = 1 /\ traces[Len(traces)].iteration = 1
      BY <2>1, <2>5 DEF EndsAt
    <3>7. traces[Len(traces)].iteration <= t.iteration /\ Len(traces) + 1 = 2
      BY <3>2, <3>6
    <3>8. PICK s \in Seq(TraceType) :
            s = Append(traces, t) /\ Ordered(s) /\ EndsAt(s, 2, 2) /\ traces' = Append(s, u)
      <4>1. PICK s \in Seq(TraceType) : s = Append(traces, t)
        BY <3>3
      <4>2. Ordered(s) /\ EndsAt(s, Len(traces) + 1, t.iteration)
        BY <1>0, <3>7, <4>1, EntryAdded
      <4> QED
        BY <3>2, <3>3, <3>7, <4>1, <4>2
    <3>9. Len(s) = 2 /\ s[Len(s)].iteration <= u.iteration
      BY <3>2, <3>8 DEF EndsAt
    <3>10. Ordered(traces') /\ EndsAt(traces', Len(s) + 1, u.iteration)
      BY <3>8, <3>9, EntryAdded
    <3>11. EndsAt(traces', 3, 3)
      BY <3>2, <3>9, <3>10
    <3>12. pc' = "checked" /\ status' = NoStatus /\ Number' = 0
      BY <2>1, <2>5 DEF Goto
    <3>13. TellsAll'
      BY <1>0, <1>1, <3>5, <3>10, <3>12
    <3>14. Rounds'
      BY <3>5, <3>11, <3>12 DEF Rounds
    <3> QED
      BY <3>13, <3>14
  <2>6. PICK v \in Forms :
          \/ v = "ok" /\ Goto("checked")
               /\ traces' = IF Number > 0 THEN traces
                            ELSE traces \o <<Trace(2, "parse", "completed"),
                                             Trace(3, "compile", "completed")>>
          \/ /\ v \in {"parse", "compile", "assertion"}
             /\ traces' = Append(traces, Trace(IF Number = 0 THEN 2 ELSE 5 + Number, v, "rejected"))
             /\ Return("rejected", "INSUFFICIENT_EVIDENCE")
          \/ Raise("other") /\ UNCHANGED traces
    BY <1>5 DEF Check
  <2>7. n > 0 \/ n = 0
    BY <1>0
  <2> QED
    BY <1>0, <2>2, <2>3, <2>4, <2>5, <2>6, <2>7 DEF n
<1>6. CASE Execute
  <2>1. /\ pc = "checked" /\ UNCHANGED repairs /\ Number' = n /\ status = NoStatus
        /\ Tells(traces, n, n, n, 0)
        /\ EndsAt(traces, 3 + 3 * n, IF n = 0 THEN 3 ELSE 4 + n)
    BY <1>0, <1>6 DEF Execute, Rounds, n
  <2>2. CASE Breaks
    <3>1. UNCHANGED traces /\ status'.decision # "accepted" /\ pc' = "raised"
      BY <1>0, <2>1, <2>2 DEF Breaks, Raise
    <3> QED
      BY <1>2, <2>1, <3>1 DEF Rounds
  <2>3. CASE \E result \in ResultsOf(request.backend) : Runs(result)
    <3>1. PICK done \in {"completed", "failed"} :
            /\ traces' = Append(traces, Trace(IF n = 0 THEN 4 ELSE 5 + n, "execute", done))
            /\ Goto("executed")
      BY <2>3 DEF Runs, n
    <3>2. (IF n = 0 THEN 4 ELSE 5 + n) \in Nat \ {0}
      BY <1>0
    <3>3. PICK t \in TraceType : t = Trace(IF n = 0 THEN 4 ELSE 5 + n, "execute", done)
      BY <3>2, TraceTyped
    <3>4. t.iteration = (IF n = 0 THEN 4 ELSE 5 + n) /\ t.action = "execute"
      BY <3>3, TraceFields
    <3>5. traces' = Append(traces, t)
      BY <3>1, <3>3
    <3>6. Tells(traces', n + 1, n, n, 0)
      BY <1>0, <2>1, <3>4, <3>5, TellingEntry
    <3>7. Len(traces) = 3 + 3 * n /\ traces[Len(traces)].iteration <= t.iteration
      BY <1>0, <2>1, <3>4 DEF EndsAt
    <3>8. Ordered(traces') /\ EndsAt(traces', Len(traces) + 1, t.iteration)
      BY <1>0, <3>5, <3>7, EntryAdded
    <3>9. EndsAt(traces', 4 + 3 * n, IF n = 0 THEN 4 ELSE 5 + n)
      <4>1. Len(traces) + 1 = 4 + 3 * n
        BY <1>0, <3>7
      <4> QED
        BY <3>4, <3>8, <4>1
    <3>10. pc' = "executed" /\ status' = NoStatus
      BY <2>1, <3>1 DEF Goto
    <3>11. TellsAll'
      BY <1>0, <1>1, <2>1, <3>6, <3>8, <3>10
    <3>12. Rounds'
      BY <2>1, <3>6, <3>9, <3>10 DEF Rounds
    <3> QED
      BY <3>11, <3>12
  <2> QED
    BY <1>6, <2>2, <2>3 DEF Execute
<1>7. CASE RefuseUnsafe
  <2>1. /\ pc = "checked" /\ UNCHANGED repairs /\ Number' = n /\ status = NoStatus
        /\ Tells(traces, n, n, n, 0)
        /\ EndsAt(traces, 3 + 3 * n, IF n = 0 THEN 3 ELSE 4 + n)
    BY <1>0, <1>7 DEF RefuseUnsafe, Rounds, n
  <2>2. CASE Number = 0
    <3>1. traces' = Append(traces, Trace(4, "patch-safety", "rejected"))
          /\ status'.decision # "accepted" /\ pc' = "returned"
      BY <1>7, <2>2 DEF RefuseUnsafe, Return
    <3>2. PICK t \in TraceType : t = Trace(4, "patch-safety", "rejected")
      BY TraceTyped
    <3>3. t.iteration = 4 /\ t.action = "patch-safety" /\ traces' = Append(traces, t)
      BY <3>1, <3>2, TraceFields
    <3>4. Tells(traces', n, n, n, 0)
      BY <1>0, <2>1, <3>3, OtherEntry
    <3>5. traces[Len(traces)].iteration <= t.iteration
      BY <2>1, <2>2, <3>3 DEF EndsAt, n
    <3>6. Ordered(traces')
      BY <1>0, <3>3, <3>5, EntryAdded
    <3> QED
      BY <1>0, <1>1, <2>1, <3>1, <3>4, <3>6 DEF Rounds
  <2>3. CASE Number # 0
    <3>1. UNCHANGED traces /\ status'.decision # "accepted" /\ pc' = "raised"
      BY <1>0, <1>7, <2>1, <2>3 DEF RefuseUnsafe, Raise
    <3> QED
      BY <1>2, <2>1, <3>1 DEF Rounds
  <2> QED
    BY <2>2, <2>3
<1>8. CASE Repair
  <2>1. /\ pc = "executed" /\ status = NoStatus
        /\ repairs' = Append(repairs, [number |-> n + 1, patch |-> patch])
        /\ Tells(traces, n + 1, n, n, 0)
        /\ EndsAt(traces, 4 + 3 * n, IF n = 0 THEN 4 ELSE 5 + n)
    BY <1>0, <1>8 DEF Repair, Rounds, n
  <2>2. Number' = n + 1
    BY <1>0, <2>1 DEF Number, n, TypeOK
  <2>3. 5 + n \in Nat \ {0}
    BY <1>0
  <2>4. PICK t \in TraceType, u \in TraceType :
          /\ t = Trace(5 + n, "analyze_failure", "completed")
          /\ u = Trace(5 + n, "repair", "completed")
    BY <2>3, TraceTyped
  <2>5. /\ t.iteration = 5 + n /\ t.action = "analyze_failure"
        /\ u.iteration = 5 + n /\ u.action = "repair"
    BY <2>4, TraceFields
  <2>6. PICK s \in Seq(TraceType) : s = Append(traces, t)
    BY <1>0, EntryAdded
  <2>7. Tells(s, n + 1, n + 1, n, 0)
    BY <1>0, <2>1, <2>5, <2>6, TellingEntry
  <2>8. Len(traces) = 4 + 3 * n /\ traces[Len(traces)].iteration <= t.iteration
    BY <1>0, <2>1, <2>5 DEF EndsAt
  <2>9. Ordered(s) /\ EndsAt(s, Len(traces) + 1, t.iteration)
    BY <1>0, <2>6, <2>8, EntryAdded
  <2>10. CASE Raise("other") /\ traces' = Append(traces, t)
    <3>1. traces' = s /\ status'.decision # "accepted" /\ pc' = "raised"
      BY <1>0, <2>1, <2>6, <2>10 DEF Raise
    <3> QED
      BY <1>0, <1>1, <2>2, <2>7, <2>9, <3>1 DEF Rounds
  <2>11. CASE Goto("generated") /\ traces' = traces \o <<t, u>>
    <3>1. traces' = Append(s, u)
      BY <1>0, <2>6, <2>11
    <3>2. Tells(traces', n + 1, n + 1, n + 1, 0)
      BY <2>5, <2>7, <3>1, TellingEntry
    <3>3. Len(s) = 5 + 3 * n /\ s[Len(s)].iteration <= u.iteration
      BY <1>0, <2>5, <2>8, <2>9 DEF EndsAt
    <3>4. Ordered(traces') /\ EndsAt(traces', Len(s) + 1, u.iteration)
      BY <2>9, <3>1, <3>3, EntryAdded
    <3>5. EndsAt(traces', 3 + 3 * (n + 1), 4 + (n + 1)) /\ n + 1 # 0
      <4>1. Len(s) + 1 = 3 + 3 * (n + 1) /\ u.iteration = 4 + (n + 1) /\ n + 1 # 0
        BY <1>0, <2>5, <3>3
      <4> QED
        BY <3>4, <4>1
    <3>6. pc' = "generated" /\ status' = NoStatus
      BY <2>1, <2>11 DEF Goto
    <3>7. TellsAll'
      BY <1>0, <1>1, <2>2, <3>2, <3>4, <3>6
    <3>8. Rounds'
      BY <2>2, <3>2, <3>5, <3>6 DEF Rounds
    <3> QED
      BY <3>7, <3>8
  <2> QED
    BY <1>8, <2>4, <2>10, <2>11 DEF Repair, n
<1>9. CASE GiveUp
  <2>1. UNCHANGED <<traces, repairs>> /\ status'.decision # "accepted" /\ pc' = "returned"
    BY <1>9 DEF GiveUp, Return
  <2> QED
    BY <1>2, <2>1 DEF Rounds
<1>10. CASE Review
  <2>1. /\ pc = "executed" /\ UNCHANGED repairs /\ Number' = n /\ pc' = "returned"
        /\ Tells(traces, n + 1, n, n, 0)
        /\ EndsAt(traces, 4 + 3 * n, IF n = 0 THEN 4 ELSE 5 + n)
    BY <1>0, <1>10 DEF Review, Return, Rounds, n
  <2>2. PICK done \in {"completed", "rejected"} :
          traces' = Append(traces, Trace(Len(traces) + 1, "review", done))
    BY <1>10 DEF Review
  <2>3. Len(traces) + 1 \in Nat \ {0}
    BY <1>0
  <2>4. PICK t \in TraceType : t = Trace(Len(traces) + 1, "review", done)
    BY <2>3, TraceTyped
  <2>5. t.iteration = Len(traces) + 1 /\ t.action = "review" /\ traces' = Append(traces, t)
    BY <2>2, <2>4, TraceFields
  <2>6. Tells(traces', n + 1, n, n, 0 + 1)
    BY <1>0, <2>1, <2>5, TellingEntry
  <2>7. traces[Len(traces)].iteration <= t.iteration
    BY <1>0, <2>1, <2>5 DEF EndsAt
  <2>8. Ordered(traces') /\ traces'[Len(traces')] = t
    BY <1>0, <2>5, <2>7, EntryAdded
  <2>9. TellsAll'
    BY <1>0, <2>1, <2>5, <2>6, <2>8 DEF TellsAll, Tells
  <2> QED
    BY <2>1, <2>9 DEF Rounds
<1>11. CASE UNCHANGED vars
  <2>1. UNCHANGED <<pc, traces, repairs, status>>
    BY <1>11 DEF vars
  <2>2. Number' = Number
    BY <2>1 DEF Number
  <2> QED
    BY <2>1, <2>2 DEF TellsAll, Rounds
<1> QED
  BY <1>3, <1>4, <1>5, <1>6, <1>7, <1>8, <1>9, <1>10, <1>11 DEF Next

\* The trace of a run names every run of a patch, every repair and the review.
THEOREM TraceIsTold == SafetySpec => []TraceTellsTheRun
BY InitTyped, NextTyped, InitTells, NextTells, TellsAllSays, PTL DEF SafetySpec

=============================================================================
