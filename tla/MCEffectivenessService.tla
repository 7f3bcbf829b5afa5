----------------------- MODULE MCEffectivenessService -----------------------
(***************************************************************************)
(* A small instance of EffectivenessService for TLC: three families of     *)
(* requests, about verdicts, budgets and edits, and what each family meets.*)
(***************************************************************************)
EXTENDS EffectivenessProperties

MCMutants     == {"m1", "m2"}
MCTests       == {"t1", "t2"}
MCScenarios   == {"s1", "s2"}
MCIntents     == {"i1"}
MCCtxEvidence == {"run", "assert", "other"}

-----------------------------------------------------------------------------
(* Contexts: one that is in order and others with one thing wrong.         *)

\* t1 belongs to scenario s1 and t2 to s2; "other" is referenced by s2 only.
GoodContext ==
  [present   |-> TRUE,
   matches   |-> TRUE,
   scenarios |-> [s \in MCScenarios |->
                    [tests    |-> IF s = "s1" THEN {"t1"} ELSE {"t2"},
                     intent   |-> "i1",
                     oracle   |-> TRUE,
                     evidence |-> IF s = "s2" THEN {"other"} ELSE {}]],
   intents   |-> [i \in MCIntents |->
                    [oracle |-> TRUE, observable |-> TRUE, evidence |-> {"assert"}]],
   evidence  |-> [e \in MCCtxEvidence |-> "verified"],
   execution |-> {"run"},
   assertion |-> {"assert"}]

NoContext          == [GoodContext EXCEPT !.present = FALSE]
ForeignContext     == [GoodContext EXCEPT !.matches = FALSE]
InvalidContext     == [GoodContext EXCEPT !.evidence["run"] = "invalid"]
UnverifiedRun      == [GoodContext EXCEPT !.evidence["run"] = "unverified"]
UnverifiedAssert   == [GoodContext EXCEPT !.evidence["assert"] = "unverified"]
UnverifiedOther    == [GoodContext EXCEPT !.evidence["other"] = "unverified"]
MixedRun           == [GoodContext EXCEPT !.execution = {"run", "other"},
                                          !.evidence["other"] = "unverified"]
NoScenarioOracle   == [GoodContext EXCEPT !.scenarios["s1"].oracle = FALSE]
NoIntentOracle     == [GoodContext EXCEPT !.intents["i1"].oracle = FALSE]
SharedTest         == [GoodContext EXCEPT !.scenarios["s2"].tests = {"t1", "t2"}]

-----------------------------------------------------------------------------
(* Reports, named by what they say of the two mutants.                     *)

Entry(outcome, executed, killing) ==
  [outcome |-> outcome, executed |-> executed, killing |-> killing]

Killed(t)    == Entry("killed", {t}, {t})
Survived(ts) == Entry("survived", ts, {})
Other(o)     == Entry(o, IF o = "not_run" THEN {} ELSE {"t1"}, {})
NotThere     == Entry("absent", {}, {})

ReportOf(form, rev, observation, e1, e2, inScope) ==
  [form |-> form, revision |-> rev, observation |-> observation,
   entries |-> [m \in MCMutants |-> IF m = "m1" THEN e1 ELSE e2],
   selected |-> MCTests, inScope |-> inScope]

Complete(e1, e2) == ReportOf("ok", "r1", "complete", e1, e2, TRUE)
Truncated(e1, e2) == ReportOf("ok", "r1", "partial", e1, e2, TRUE)
Broken(form) == ReportOf(form, "r1", "complete", Killed("t1"), NotThere, TRUE)

MCAllReports ==
  ReportForms \union
  {"all killed", "one survived", "no test named", "both tests", "timeout", "error",
   "not run", "none eligible", "only errors", "truncated", "killed by none",
   "foreign test", "out of scope", "other revision"}

MCReportContent ==
  [r \in MCAllReports |->
     CASE r = "all killed"     -> Complete(Killed("t1"), Killed("t2"))
       [] r = "one survived"   -> Complete(Killed("t1"), Survived({"t2"}))
       [] r = "no test named"  -> Complete(Survived({}), Killed("t1"))
       [] r = "both tests"     -> Complete(Survived(MCTests), Survived({"t1"}))
       [] r = "timeout"        -> Complete(Killed("t1"), Other("timeout"))
       [] r = "error"          -> Complete(Killed("t1"), Other("error"))
       [] r = "not run"        -> Complete(Survived({"t1"}), Other("not_run"))
       [] r = "none eligible"  -> Complete(Other("timeout"), Other("not_run"))
       [] r = "only errors"    -> Complete(Other("error"), Other("not_run"))
       [] r = "truncated"      -> Truncated(Killed("t1"), Other("timeout"))
       [] r = "killed by none" -> Complete(Entry("killed", {"t1"}, {}), NotThere)
       [] r = "foreign test"   -> [Complete(Killed("t1"), NotThere) EXCEPT !.selected = {"t2"}]
       [] r = "out of scope"   -> ReportOf("ok", "r1", "complete", Killed("t1"), NotThere, FALSE)
       [] r = "other revision" -> ReportOf("ok", "r2", "complete", Killed("t1"), Killed("t2"), TRUE)
       [] OTHER                -> Broken(r)]

MCFewReports == {"one survived", "no test named"}
MCTwoReports == {"all killed", "one survived", "other revision"}

-----------------------------------------------------------------------------
(* Requests.                                                               *)

Budget(i, t, m) == [valid |-> TRUE, iterations |-> i, tools |-> t, models |-> m]
Defaults        == Budget(8, 8, 1)
NotABudget      == [Defaults EXCEPT !.valid = FALSE]

Request(budget, context, report, backend, threshold, mapper, store) ==
  [budget |-> budget, context |-> context, report |-> report, backend |-> backend,
   threshold |-> threshold, mapper |-> mapper, store |-> store]

ReportRequest(context, threshold) ==
  Request(Defaults, context, TRUE, "none", threshold, FALSE, TRUE)

Contexts == {GoodContext, NoContext, ForeignContext, InvalidContext, UnverifiedRun,
             UnverifiedAssert, UnverifiedOther, MixedRun, NoScenarioOracle, NoIntentOracle, SharedTest}

\* Two thresholds on either side of one half, and none.
MCReportRequests ==
  {ReportRequest(c, t) : c \in Contexts, t \in {50000, 50001, NoThreshold}}

MCMutmutRequests ==
  {Request(Defaults, c, FALSE, "mutmut", 50000, FALSE, FALSE) :
     c \in {GoodContext, SharedTest, UnverifiedOther}}

\* Every budget around the whole loop, a report and a backend at once, and a
\* budget that does not validate.
MCBudgetRequests ==
  {Request(Budget(i, t, m), GoodContext, report, IF report THEN "none" ELSE "injected",
           50000, TRUE, TRUE) :
     i \in 0 .. 8, t \in 0 .. 3, m \in 0 .. 1, report \in BOOLEAN}
  \union
  {Request(Defaults, GoodContext, TRUE, "injected", 50000, FALSE, FALSE),
   Request(NotABudget, GoodContext, TRUE, "none", 50000, FALSE, FALSE)}

MCModelRequests ==
  {Request(Budget(8, 8, m), c, FALSE, "injected", t, TRUE, FALSE) :
     m \in 0 .. 2, c \in {GoodContext, SharedTest, NoScenarioOracle}, t \in {0, 50000}}

MCEditRequests ==
  {ReportRequest(GoodContext, 50000), Request(Defaults, GoodContext, FALSE, "injected", 50000, FALSE, TRUE)}

MCRequests == MCReportRequests \union MCMutmutRequests \union MCModelRequests
                \union MCBudgetRequests \union MCEditRequests

-----------------------------------------------------------------------------
(* Results of an injected backend, some of them contradictory.             *)

Entries(o1, ts1, o2, ts2) ==
  [m \in MCMutants |-> IF m = "m1" THEN [outcome |-> o1, tests |-> ts1]
                       ELSE [outcome |-> o2, tests |-> ts2]]

MCInjected ==
  {Result("completed", "complete", Entries("killed", {"t1"}, "survived", {"t2"}), {}, TRUE),
   Result("completed", "complete", Entries("killed", {"t1"}, "survived", MCTests), {}, TRUE),
   Result("completed", "complete", Entries("killed", {"t1"}, "survived", {"t2"}), {"m2"}, TRUE),
   Result("completed", "unknown", Entries("killed", {"t1"}, "absent", {}), {}, TRUE),
   Result("completed", "complete", Entries("killed", {"t1"}, "timeout", {}), {}, TRUE),
   Result("partial", "complete", Entries("killed", {"t1"}, "error", {"t2"}), {}, TRUE),
   Result("unavailable", "complete", Entries("killed", {"t1"}, "absent", {}), {}, TRUE)}

MCSurvivors ==
  {Result("completed", "complete", Entries(o, ts1, "survived", ts2), {}, TRUE) :
     o \in {"killed", "survived"}, ts1 \in {{"t1"}, MCTests}, ts2 \in SUBSET MCTests}

MCAllInjected == MCInjected \union MCSurvivors

-----------------------------------------------------------------------------
\* What the families meet.  A call with a backend never looks at the report
\* file, so it starts with one; budgets are tried with few reports; the world
\* is edited, between few reports, under the requests for edits.
MCInit ==
  /\ Init
  /\ reportFile \in CASE ~request.report                -> {"one survived"}
                      [] request \in MCBudgetRequests    -> MCFewReports
                      [] OTHER                           -> MCAllReports

MCNext ==
  /\ Next
  /\ edits' # edits => request \in MCEditRequests /\ {reportFile, reportFile'} \subseteq MCTwoReports
  /\ provider' # provider /\ request.backend = "injected" /\ request \notin MCModelRequests =>
       provider' = NoResult \/ provider' \in MCInjected

MCSpec == MCInit /\ [][MCNext]_vars /\ Fairness

=============================================================================
